--------------------------- MODULE SchemaMigration --------------------------
(* storedb.Open: several processes, each with the migrations its release of  *)
(* the program knows, open one SQLite file (the state, lifecycle, image and  *)
(* kernel databases are a file each).  An flock orders the opens; a backup   *)
(* is taken before the first pending migration; each migration is one        *)
(* transaction; a migration that fails closes the database, deletes it with  *)
(* its -wal and -shm files and copies the backup in its place.  The lock     *)
(* does not cover handles that are already open, and a process may be killed *)
(* at any step.                                                              *)
(*                                                                           *)
(* A database is the set of facts committed to it: migrations recorded in    *)
(* schema_migrations, and rows the owners of open handles wrote.  The wal    *)
(* holds the committed facts that are not in the main file yet.              *)
EXTENDS Naturals, Sequences

CONSTANTS
    Openers,        \* handles to be opened, one per process
    Program,        \* the migrations an opener's program has, in order
    Rows,           \* rows the owners of handles write, each once
    MaxFailures     \* bound on failing operations and killed processes

Migrations == UNION {{Program[o][i] : i \in DOMAIN Program[o]} : o \in Openers}

ASSUME OpenersAssumption ==
    /\ MaxFailures \in Nat /\ Rows \cap Migrations = {}
    /\ "none" \notin Openers
    /\ DOMAIN Program = Openers
    /\ \A o \in Openers : Program[o] \in Seq(Migrations)

VARIABLES
    main,       \* the database file: [file |-> absent | whole | part, facts]
    wal,        \* facts in the -wal file only
    backup,     \* <path>.premigrate.bak, like main
    lock,       \* who holds <path>.init.lock, or "none"
    opener,     \* each opener: [pc, pending, shared]
    rows,       \* history: rows whose commit was reported
    failures,   \* failing operations and kills so far
    damaged     \* history: a restore was cut short, or met another open handle

schemaVars == <<main, wal, backup, lock, opener, rows, failures, damaged>>

NoFile == [file |-> "absent", facts |-> {}]
Whole(facts) == [file |-> "whole", facts |-> facts]
PartFile == [file |-> "part", facts |-> {}]

(* What a connection to the file reads.                                      *)
Facts == main.facts \cup wal

Recorded(o) == {Program[o][i] : i \in DOMAIN Program[o]}

(* The places in the program of the migrations that are not recorded.       *)
pendingMigrations(o) == {i \in DOMAIN Program[o] : Program[o][i] \notin Facts}

(* "open" is a handle on the file at the path, "orphan" one whose file was   *)
(* deleted, "closing" the connection of an Open that has failed.             *)
Handles == {o \in Openers : opener[o].pc = "open"}
Connected == {o \in Openers : opener[o].pc \in {"open", "configure", "backup", "apply", "clean", "closing"}}

SchemaInit ==
    /\ main = NoFile /\ wal = {} /\ backup = NoFile
    /\ lock = "none"
    /\ opener = [o \in Openers |-> [pc |-> "idle", pending |-> {}, shared |-> FALSE]]
    /\ rows = {} /\ failures = 0 /\ damaged = FALSE

Goto(o, pc) == opener' = [opener EXCEPT ![o].pc = pc]
Fault == failures < MaxFailures /\ failures' = failures + 1

(* The last connection to close writes the wal into the main file.           *)
CloseConnection(o) ==
    IF Connected \subseteq {o} /\ main.file = "whole"
    THEN main' = Whole(Facts) /\ wal' = {}
    ELSE UNCHANGED <<main, wal>>

(* Open gives up without a restore: withInitLock frees the lock before Open  *)
(* closes the database (CloseFailed).                                        *)
GiveUp(o) ==
    /\ Fault
    /\ lock' = "none"
    /\ Goto(o, "closing")
    /\ UNCHANGED <<main, wal>>

-----------------------------------------------------------------------------
(* withInitLock: a process blocks until the lock is free.                    *)
AcquireInitLock(o) ==
    /\ opener[o].pc = "idle" /\ lock = "none"
    /\ lock' = o
    /\ Goto(o, "configure")
    /\ UNCHANGED <<main, wal, backup, rows, failures, damaged>>

(* configure and the part of migrate before the backup.  A missing or empty  *)
(* file becomes an empty database; a half-copied one is malformed.           *)
ReadApplied(o) ==
    /\ opener[o].pc = "configure"
    /\ \/ /\ main.file # "part"
          /\ main' = Whole(main.facts)
          /\ LET pending == pendingMigrations(o)
             IN IF pending = {}
                THEN lock' = "none" /\ Goto(o, "open")
                ELSE /\ opener' = [opener EXCEPT ![o].pc = "backup", ![o].pending = pending]
                     /\ UNCHANGED lock
          /\ UNCHANGED <<wal, failures>>
       \/ main.file = "part" /\ lock' = "none" /\ Goto(o, "closing") /\ UNCHANGED <<main, wal, failures>>
       \/ GiveUp(o)
    /\ UNCHANGED <<backup, rows, damaged>>

(* createBackup: the old backup is removed first.                            *)
RemoveOldBackup(o) ==
    /\ opener[o].pc = "backup" /\ backup # NoFile
    /\ \/ backup' = NoFile /\ UNCHANGED <<main, wal, lock, opener, failures>>
       \/ GiveUp(o) /\ UNCHANGED backup
    /\ UNCHANGED <<rows, damaged>>

(* Mutant: a backup that failed does not stop the migrations.                *)
ApplyWithoutBackup(o) ==
    /\ opener[o].pc = "backup" /\ backup = NoFile
    /\ \/ backup' = Whole(Facts) /\ UNCHANGED failures
       \/ Fault /\ UNCHANGED backup
    /\ opener' = [opener EXCEPT ![o].pc = "apply", ![o].shared = (Handles # {})]
    /\ UNCHANGED <<main, wal, lock, rows, damaged>>

(* Then VACUUM INTO; `shared' notes whether other handles were open.    *)
VacuumInto(o) ==
    /\ opener[o].pc = "backup" /\ backup = NoFile
    /\ \/ /\ backup' = Whole(Facts)
          /\ opener' = [opener EXCEPT ![o].pc = "apply", ![o].shared = (Handles # {})]
          /\ UNCHANGED <<main, wal, lock, failures>>
       \/ GiveUp(o) /\ backup' \in {NoFile, PartFile}
    /\ UNCHANGED <<rows, damaged>>

(* One migration: its SQL and its row of schema_migrations are committed     *)
(* together, or its failure closes the database and starts the restore.      *)
ApplyMigration(o) ==
    /\ opener[o].pc = "apply"
    /\ \/ /\ \E i \in opener[o].pending :
                /\ \A j \in opener[o].pending : i <= j
                /\ wal' = wal \cup {Program[o][i]}
                /\ opener' = [opener EXCEPT ![o].pending = @ \ {i},
                                ![o].pc = IF opener[o].pending = {i}
                                          THEN "clean" ELSE "apply"]
          /\ UNCHANGED <<main, failures, damaged>>
       \/ /\ Fault
          /\ CloseConnection(o)
          /\ Goto(o, "restore_rm")
          /\ damaged' = (damaged \/ opener[o].shared)
    /\ UNCHANGED <<backup, lock, rows>>

(* The migrations are in place; a backup that cannot be removed fails the    *)
(* open all the same.                                                        *)
removeBackup(o) ==
    /\ opener[o].pc = "clean"
    /\ \/ backup' = NoFile /\ lock' = "none" /\ Goto(o, "open") /\ UNCHANGED <<main, wal, failures>>
       \/ GiveUp(o) /\ UNCHANGED backup
    /\ UNCHANGED <<rows, damaged>>

(* Open closes the database it could not prepare, after another process may  *)
(* have taken the lock.                                                      *)
CloseFailed(o) ==
    /\ opener[o].pc = "closing"
    /\ CloseConnection(o)
    /\ Goto(o, "idle")
    /\ UNCHANGED <<backup, lock, rows, failures, damaged>>

-----------------------------------------------------------------------------
(* restoreFromBackup, in the order of its system calls.  Handles of other    *)
(* processes keep the deleted file; the close of a connection to it leaves   *)
(* the file at the path alone.  A step that fails ends the restore.          *)
RestoreFails(o) ==
    /\ Fault
    /\ Goto(o, "restore_end")
    /\ damaged' = TRUE

RemoveDatabase(o) ==
    /\ opener[o].pc = "restore_rm"
    /\ \/ /\ wal # {}
          /\ wal' = {}
          /\ UNCHANGED <<main, opener, failures, damaged>>
       \/ /\ wal = {}
          /\ main' = NoFile
          /\ opener' = [q \in Openers |->
                          IF q = o THEN [opener[o] EXCEPT !.pc = "restore_create"]
                          ELSE IF q \in Handles THEN [opener[q] EXCEPT !.pc = "orphan"]
                          ELSE IF opener[q].pc = "closing" THEN [opener[q] EXCEPT !.pc = "idle"]
                          ELSE opener[q]]
          /\ UNCHANGED <<wal, failures, damaged>>
       \/ RestoreFails(o) /\ UNCHANGED <<main, wal>>
    /\ UNCHANGED <<backup, lock, rows>>

CreateDatabase(o) ==
    /\ opener[o].pc = "restore_create"
    /\ \/ main' = Whole({}) /\ Goto(o, "restore_copy") /\ UNCHANGED <<failures, damaged>>
       \/ RestoreFails(o) /\ UNCHANGED main
    /\ UNCHANGED <<wal, backup, lock, rows>>

CopyBackup(o) ==
    /\ opener[o].pc = "restore_copy"
    /\ \/ main # PartFile /\ main' = PartFile /\ UNCHANGED <<opener, failures, damaged>>
       \/ main = PartFile /\ main' = Whole(backup.facts) /\ Goto(o, "restore_end")
          /\ UNCHANGED <<failures, damaged>>
       \/ RestoreFails(o) /\ UNCHANGED main
    /\ UNCHANGED <<wal, backup, lock, rows>>

(* The backup is removed whether or not the restore succeeded.               *)
EndRestore(o) ==
    /\ opener[o].pc = "restore_end"
    /\ backup' = NoFile
    /\ lock' = "none"
    /\ Goto(o, "idle")
    /\ UNCHANGED <<main, wal, rows, failures, damaged>>

-----------------------------------------------------------------------------
(* The owner of a handle commits a row; on a deleted file the commit is      *)
(* reported as well.                                                         *)
WriteRow(o) ==
    /\ opener[o].pc \in {"open", "orphan"}
    /\ \E r \in Rows \ rows :
         /\ rows' = rows \cup {r}
         /\ wal' = IF opener[o].pc = "open" THEN wal \cup {r} ELSE wal
    /\ UNCHANGED <<main, backup, lock, opener, failures, damaged>>

CloseHandle(o) ==
    /\ opener[o].pc \in {"open", "orphan"}
    /\ IF opener[o].pc = "open" THEN CloseConnection(o) ELSE UNCHANGED <<main, wal>>
    /\ Goto(o, "idle")
    /\ UNCHANGED <<backup, lock, rows, failures, damaged>>

(* A kill frees the lock; committed transactions stay in the wal.            *)
RestorePCs == {"restore_rm", "restore_create", "restore_copy"}
Restoring(o) == opener[o].pc \in RestorePCs

Killed(o) ==
    /\ opener[o].pc # "idle" /\ Fault
    /\ lock' = IF lock = o THEN "none" ELSE lock
    /\ damaged' = (damaged \/ Restoring(o))
    /\ Goto(o, "idle")
    /\ UNCHANGED <<main, wal, backup, rows>>

OpenStep(o) ==
    \/ AcquireInitLock(o) \/ ReadApplied(o) \/ RemoveOldBackup(o) \/ VacuumInto(o)
    \/ ApplyMigration(o) \/ removeBackup(o) \/ CloseFailed(o)
    \/ RemoveDatabase(o) \/ CreateDatabase(o) \/ CopyBackup(o) \/ EndRestore(o)

SchemaNext == \E o \in Openers : OpenStep(o) \/ WriteRow(o) \/ CloseHandle(o) \/ Killed(o)

SchemaSpec == SchemaInit /\ [][SchemaNext]_schemaVars

-----------------------------------------------------------------------------
(* Whatever fails and whoever is killed, outside a restore, no committed row *)
(* is lost and an open handle finds its migrations applied: the rows are in  *)
(* the database or, while a restore is under way, in the whole backup it     *)
(* copies (db.go:77-229).  Excepted are the cases the code does not handle:  *)
(* a restore that fails or is killed half-way, and a restore under another   *)
(* process's open handle.                                                    *)
MigrationKeepsData ==
    ~damaged =>
        /\ \A o \in Openers : opener[o].pc = "open" => Recorded(o) \subseteq Facts
        /\ \/ main.file = "whole" /\ rows \subseteq Facts
           \/ rows = {} /\ main.file = "absent"
           \/ /\ \E o \in Openers : Restoring(o)
              /\ backup.file = "whole" /\ rows \subseteq backup.facts

-----------------------------------------------------------------------------
(* The inductive strengthening of MigrationKeepsData.                        *)

MigratingPCs == {"backup", "apply", "clean"}
LockedPCs == {"configure", "restore_end"} \cup MigratingPCs \cup RestorePCs

OpenerPCs == {"idle", "open", "orphan", "closing"} \cup LockedPCs
OpenerState == [pc : OpenerPCs, pending : SUBSET Nat, shared : BOOLEAN]

SchemaTypeOK == opener \in [Openers -> OpenerState]

(* The opener between withInitLock and its return is the lock's holder.      *)
LockIsHeld == \A o \in Openers : opener[o].pc \in LockedPCs <=> lock = o

(* What the holder still has to apply is all its database lacks.             *)
PendingIsComplete ==
    \A o \in Openers :
        /\ opener[o].pc \in MigratingPCs =>
              Recorded(o) \subseteq
                  Facts \cup {Program[o][i] : i \in opener[o].pending \cap DOMAIN Program[o]}
        /\ opener[o].pc = "clean" => opener[o].pending = {}

(* A migration that did not find other handles open is not joined by any.    *)
AloneWithBackup ==
    /\ Handles = {}
    /\ backup.file = "whole" /\ rows \subseteq backup.facts

(* Until a restore is cut short or meets another handle: handles are on the  *)
(* file at the path and find their schema; whoever may have to restore alone *)
(* has a backup with every row; and outside a restore the rows are in the    *)
(* database.                                                                 *)
DataIsSafe ==
    /\ \A o \in Openers :
          /\ opener[o].pc # "orphan"
          /\ opener[o].pc = "open" => Recorded(o) \subseteq Facts
          /\ opener[o].pc \in MigratingPCs \cup {"open", "restore_end"}
                => main.file = "whole"
          /\ opener[o].pc = "apply" /\ ~opener[o].shared => AloneWithBackup
          /\ Restoring(o) => AloneWithBackup
    /\ \/ main.file = "whole" /\ rows \subseteq Facts
       \/ rows = {} /\ main.file = "absent"
       \/ \E o \in Openers : Restoring(o)

SchemaInv ==
    /\ SchemaTypeOK /\ LockIsHeld /\ PendingIsComplete
    /\ damaged \/ DataIsSafe
=============================================================================
