--------------------------- MODULE PersistentStore ---------------------------
(***************************************************************************)
(* How the agent keeps its SNMPv3 state across restarts: snmp_store        *)
(* (snmplib/snmp_api.c) between snmp_save_persistent and                   *)
(* snmp_clean_persistent (snmplib/read_config.c), what is stored           *)
(* (snmplib/snmpv3.c, snmpusm.c) and how a start reads it back.            *)
(*                                                                         *)
(* A store moves the file aside to a backup, writes a new one line by line *)
(* and removes the backups.  The process may crash between any two calls   *)
(* of the file system; the next start reads the backups and then the file. *)
(* The engineID never changes.                                             *)
(***************************************************************************)
EXTENDS Naturals, FiniteSets, FiniteSetsExt

CONSTANTS Backups,      \* NETSNMP_MAX_PERSISTENT_BACKUPS
          Users,        \* users of the usmUser table
          MaxStores,    \* bound on the stores
          MaxRefused,   \* bound on the calls that the file system refuses
          MaxCrashes    \* bound on the crashes

ASSUME PersistentStoreAssumption ==
    /\ Backups \in Nat
    /\ MaxStores \in Nat /\ MaxRefused \in Nat /\ MaxCrashes \in Nat

VARIABLES main,         \* <type>.conf
          backup,       \* <type>.<j>.conf
          pc,           \* see Locations
          cleaned,      \* the slots that snmp_clean_persistent has passed
          stopping,     \* the store is that of snmp_shutdown
          boots, users, \* engineBoots and the users, in memory
          oldEngineID,  \* whether there is one in memory
          needed,       \* _snmp_store_needed
          history       \* see StoreInit

storeVars ==
    <<main, backup, pc, cleaned, stopping, boots, users, oldEngineID, needed, history>>

\* down: no process.  save, header: in snmp_save_persistent.  boots, engine,
\* users: in the STORE_DATA callbacks.  clean: in snmp_clean_persistent.
\* serve: in the main loop.
Locations == {"down", "save", "header", "boots", "engine", "users", "clean", "serve"}

Slots == 0 .. Backups
\* The lines of a file that a reader is left with: the last engineBoots (0: no
\* such line), whether there is an oldEngineID, and the users.
Absent == [exists |-> FALSE, boots |-> 0, engine |-> FALSE, users |-> {}]

\* history.served: the engineBoots at the end of the last run that got as
\* far as serving; history.serving: this run has.
\* history.whole: every line of this store was written; history.tidy: it began
\* with no file, and no removal of a backup was refused.
\* history.unsure: since the last whole store the file system refused a rename
\* or a write, or the file was renamed in front of a backup, which is older;
\* history.reread: since then SIGHUP arrived.
\* history.spoilt: files were once read when one of these was so.
StoreInit ==
    /\ main = Absent
    /\ backup = [j \in Slots |-> Absent]
    /\ pc = "down" /\ cleaned = 0
    /\ stopping = FALSE
    /\ boots = 0 /\ users = {} /\ oldEngineID = FALSE /\ needed = FALSE
    /\ history = [served |-> 0, serving |-> FALSE, spoilt |-> FALSE,
                  whole |-> FALSE, tidy |-> FALSE, unsure |-> FALSE,
                  reread |-> FALSE, stores |-> 0, refused |-> 0, crashes |-> 0]

-----------------------------------------------------------------------------
(* read_config_files_in_path: the backups up to the first missing one, then *)
(* the file.                                                               *)

\* Mutant: the file first, then the backups.
ReadMainFirst ==
    LET count == Cardinality({j \in Slots : \A k \in 0 .. j : backup[k].exists})
    IN  [n \in 1 .. count + 1 |-> IF n = 1 THEN main ELSE backup[n - 2]]

Read ==
    LET count == Cardinality({j \in Slots : \A k \in 0 .. j : backup[k].exists})
    IN  [n \in 1 .. count + 1 |-> IF n <= count THEN backup[n - 1] ELSE main]

\* The last line decides; without one engineBoots is 0 here.
BootsRead ==
    LET written == {n \in DOMAIN Read : Read[n].boots # 0}
    IN  IF written = {} THEN 0 ELSE Read[Max(written)].boots

UsersRead == UNION {Read[n].users : n \in DOMAIN Read}

EngineRead == \E n \in DOMAIN Read : Read[n].engine

\* engineBoots_conf and init_snmpv3_post_config; a variable of value 1 if there
\* is no line.
NextBoots == IF EngineRead /\ BootsRead # 0 THEN BootsRead + 1 ELSE 1

\* What a process takes from its files when it starts.
FilesRead ==
    /\ boots' = NextBoots
    /\ users' = UsersRead
    /\ oldEngineID' = EngineRead

\* Mutant: the agent serves before it has stored.
StartUnstored ==
    /\ pc = "down"
    /\ FilesRead
    /\ pc' = "serve"
    /\ history' = [history EXCEPT !.serving = TRUE,
                                  !.spoilt = @ \/ history.unsure \/ history.reread]
    /\ UNCHANGED <<main, backup, cleaned, stopping, needed>>

\* A start reads and stores at once (snmpd.c:1088).
Start ==
    /\ pc = "down"
    /\ history.stores < MaxStores
    /\ FilesRead
    /\ pc' = "save"
    /\ history' = [history EXCEPT !.spoilt = @ \/ history.unsure \/ history.reread]
    /\ UNCHANGED <<main, backup, cleaned, stopping, needed>>

-----------------------------------------------------------------------------
(* snmp_store.                                                             *)

Storing(refused, wrong) ==
    /\ history.refused + refused <= MaxRefused
    /\ history' = [history EXCEPT
                     !.stores = @ + 1, !.refused = @ + refused, !.whole = TRUE,
                     !.tidy = ~main'.exists, !.unsure = @ \/ wrong]

\* The file becomes the first backup that is missing; with none missing it
\* stays and is written on.  If it cannot be renamed it is removed, if it
\* cannot be removed it stays too.
Rename ==
    /\ pc = "save"
    /\ LET free == {j \in Slots : ~backup[j].exists}
       IN  \/ /\ ~main.exists \/ free = {}
              /\ UNCHANGED <<main, backup>>
              /\ Storing(0, FALSE)
           \/ /\ main.exists /\ free # {}
              /\ backup' = [backup EXCEPT ![Min(free)] = main]
              /\ main' = Absent
              /\ Storing(0, \E j \in Slots : j > Min(free) /\ backup[j].exists)
           \/ /\ main.exists /\ free # {}
              /\ main' \in {Absent, main}
              /\ UNCHANGED backup
              /\ Storing(1, TRUE)
    /\ pc' = "header"
    /\ UNCHANGED <<cleaned, stopping, boots, users, oldEngineID, needed>>

\* read_config_store appends a line, or does not and tells nobody.
Appended(file) == [file EXCEPT !.exists = TRUE]

Append1(file, next) ==
    /\ \/ main' = file /\ UNCHANGED history
       \/ /\ history.refused < MaxRefused
          /\ history' = [history EXCEPT !.refused = @ + 1, !.whole = FALSE, !.unsure = TRUE]
          /\ UNCHANGED main
    /\ pc' = next
    /\ UNCHANGED <<backup, cleaned, stopping, boots, users, oldEngineID, needed>>

StoreHeader ==
    /\ pc = "header"
    /\ Append1(Appended(main), "boots")

StoreBoots ==
    /\ pc = "boots"
    /\ Append1(Appended([main EXCEPT !.boots = boots]), "engine")

StoreEngine ==
    /\ pc = "engine"
    /\ Append1(Appended([main EXCEPT !.engine = TRUE]), "users")

\* One line for each user; they are all written or none is.
StoreUsers ==
    /\ pc = "users"
    /\ Append1(Appended([main EXCEPT !.users = @ \cup users]), "clean")

\* snmp_clean_persistent removes the backups one after another, if there is a
\* file.  One that cannot be removed stays, and the loop goes on.
Remaining == IF main.exists THEN {j \in Slots : cleaned <= j /\ backup[j].exists} ELSE {}

Unlink ==
    /\ pc = "clean"
    /\ Remaining # {}
    /\ cleaned' = Min(Remaining) + 1
    /\ \/ /\ backup' = [backup EXCEPT ![Min(Remaining)] = Absent]
          /\ UNCHANGED history
       \/ /\ history.refused < MaxRefused
          /\ history' = [history EXCEPT !.refused = @ + 1, !.tidy = FALSE]
          /\ UNCHANGED backup
    /\ UNCHANGED <<main, pc, stopping, boots, users, oldEngineID, needed>>

\* A store that is over makes good what went wrong before, if it was whole; the
\* process is over too, if it is shutting down.
StoreEnds ==
    LET h == IF history.whole
             THEN [history EXCEPT !.unsure = FALSE, !.reread = FALSE]
             ELSE history
    IN  /\ IF stopping
           THEN /\ pc' = "down"
                /\ boots' = 0 /\ users' = {} /\ oldEngineID' = FALSE
                /\ history' = [h EXCEPT !.served = boots, !.serving = FALSE]
           ELSE /\ pc' = "serve"
                /\ history' = [h EXCEPT !.serving = TRUE]
                /\ UNCHANGED <<boots, users, oldEngineID>>
        /\ cleaned' = 0 /\ stopping' = FALSE /\ needed' = FALSE
        /\ UNCHANGED <<main, backup>>

\* Mutant: the last backup is forgotten.
StoredButOne ==
    /\ pc = "clean"
    /\ Cardinality(Remaining) <= 1
    /\ StoreEnds

Stored ==
    /\ pc = "clean"
    /\ Remaining = {}
    /\ StoreEnds

-----------------------------------------------------------------------------
(* The agent's main loop.                                                  *)

\* A SET changes the usmUser table and asks for a store (external).
ChangeUsers ==
    /\ pc = "serve"
    /\ \E changed \in SUBSET Users : changed # users /\ users' = changed
    /\ needed' = TRUE
    /\ UNCHANGED <<main, backup, pc, cleaned, stopping, boots, oldEngineID, history>>

\* snmp_store_if_needed
StoreIfNeeded ==
    /\ pc = "serve"
    /\ needed
    /\ history.stores < MaxStores
    /\ pc' = "save"
    /\ UNCHANGED <<main, backup, cleaned, stopping, boots, users, oldEngineID, needed, history>>

\* SIGHUP: update_config reads all files again, the persistent ones too, but of
\* their lines not oldEngineID, which only a start reads (PREMIB_CONFIG).
Reconfigure ==
    /\ pc = "serve"
    /\ boots' = IF ~oldEngineID THEN 1 ELSE IF BootsRead = 0 THEN boots ELSE BootsRead + 1
    /\ users' = users \cup UsersRead
    /\ history' = [history EXCEPT !.reread = TRUE, !.spoilt = @ \/ history.unsure]
    /\ UNCHANGED <<main, backup, pc, cleaned, stopping, oldEngineID, needed>>

\* snmp_shutdown
Shutdown ==
    /\ pc = "serve"
    /\ history.stores < MaxStores
    /\ stopping' = TRUE
    /\ pc' = "save"
    /\ UNCHANGED <<main, backup, cleaned, boots, users, oldEngineID, needed, history>>

Crash ==
    /\ pc # "down"
    /\ history.crashes < MaxCrashes
    /\ pc' = "down"
    /\ boots' = 0 /\ users' = {} /\ oldEngineID' = FALSE /\ needed' = FALSE
    /\ cleaned' = 0 /\ stopping' = FALSE
    /\ history' = [history EXCEPT
                     !.served = IF history.serving THEN boots ELSE @,
                     !.serving = FALSE, !.crashes = @ + 1]
    /\ UNCHANGED <<main, backup>>

StoreNext ==
    \/ Start \/ Crash
    \/ Rename \/ StoreHeader \/ StoreBoots \/ StoreEngine \/ StoreUsers
    \/ Unlink \/ Stored
    \/ ChangeUsers \/ StoreIfNeeded \/ Reconfigure \/ Shutdown

StoreSpec == StoreInit /\ [][StoreNext]_storeVars

-----------------------------------------------------------------------------
(* Properties.                                                             *)

\* Wherever the agent crashed before, however often, it never serves twice with
\* the same engineBoots.  Three things may spoil that, if no whole store follows
\* before the files are read again: a rename or write that was refused, the boots
\* of SIGHUP, and a file that was renamed in front of a backup, which had been left
\* behind a missing one by a crash between two removals or a refused one.
BootsNeverReused ==
    history.serving /\ ~history.spoilt => boots > history.served

\* While the agent serves after a store that met no error and began a new file, a
\* start would read exactly the users it has, until one is changed: none that was
\* removed comes back from a backup, whatever earlier runs left, and SIGHUP brings
\* none back either.
NoUserComesBack ==
    pc = "serve" /\ history.whole /\ history.tidy /\ ~needed => UsersRead = users

\* Once a store has written all its lines, a start reads the engineBoots and the
\* users it stored, from there on and while the backups are removed: also after
\* stores whose renames, writes and removals failed, and whatever backups these left.
WholeStoreIsReadBack ==
    pc = "clean" /\ history.whole => BootsRead = boots /\ users \subseteq UsersRead

=============================================================================
