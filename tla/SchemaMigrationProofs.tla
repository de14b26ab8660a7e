------------------------- MODULE SchemaMigrationProofs ------------------------
(* That storedb.Open keeps every committed row and hands out handles on a    *)
(* complete schema, for any number of programs, migrations, rows, failures   *)
(* and kills: SchemaInv is inductive and implies MigrationKeepsData.         *)
EXTENDS SchemaMigration, TLAPS

-----------------------------------------------------------------------------
(* What the helper operators do.                                             *)

(* Replacing one opener's record leaves the others alone.                    *)
LEMMA OpenerUpdate ==
  ASSUME SchemaTypeOK, NEW o \in Openers, NEW a \in OpenerState,
         opener' = [opener EXCEPT ![o] = a]
  PROVE  /\ SchemaTypeOK'
         /\ opener'[o] = a
         /\ \A q \in Openers \ {o} : opener'[q] = opener[q]
BY DEF SchemaTypeOK

(* Goto changes the place of one opener and nothing else.                    *)
LEMMA GotoFields ==
  ASSUME SchemaTypeOK, NEW o \in Openers, NEW l \in OpenerPCs, Goto(o, l)
  PROVE  /\ SchemaTypeOK'
         /\ opener'[o].pc = l
         /\ opener'[o].pending = opener[o].pending
         /\ opener'[o].shared = opener[o].shared
         /\ \A q \in Openers \ {o} : opener'[q] = opener[q]
<1> DEFINE a == [opener[o] EXCEPT !.pc = l]
<1>1. /\ a \in OpenerState /\ a.pc = l
      /\ a.pending = opener[o].pending /\ a.shared = opener[o].shared
  BY DEF SchemaTypeOK, OpenerState
<1>2. opener' = [opener EXCEPT ![o] = a]
  BY DEF Goto
<1> HIDE DEF a
<1> QED
  BY <1>1, <1>2, OpenerUpdate

(* Closing a connection may move facts from the wal to the main file; what   *)
(* a connection reads stays the same.                                        *)
LEMMA CloseKeepsFacts ==
  ASSUME NEW o, CloseConnection(o)
  PROVE  Facts' = Facts /\ main'.file = main.file
BY DEF CloseConnection, Facts, Whole

(* While one opener holds the lock, the others are not in Open.              *)
LEMMA OthersOutside ==
  ASSUME SchemaTypeOK, LockIsHeld, NEW o \in Openers,
         opener[o].pc \in LockedPCs
  PROVE  /\ lock = o
         /\ \A q \in Openers \ {o} : opener[q].pc \in {"idle", "open", "orphan", "closing"}
BY DEF SchemaTypeOK, OpenerState, OpenerPCs, LockIsHeld

-----------------------------------------------------------------------------
\* A step in which o, the holder of the lock, goes from one place of Open
\* to `idle', `open' or `closing' and frees the lock.
Leaves(o, l) ==
    /\ lock' = "none"
    /\ opener'[o].pc = l
    /\ \A q \in Openers \ {o} : opener'[q] = opener[q]

(* The lock passes from o to nobody.                                         *)
LEMMA LeaveFreesLock ==
  ASSUME SchemaTypeOK, LockIsHeld, NEW o \in Openers,
         opener[o].pc \in LockedPCs,
         NEW l \in {"idle", "open", "closing"}, Leaves(o, l)
  PROVE  LockIsHeld'
<1>1. \A q \in Openers \ {o} : opener[q].pc \notin LockedPCs
  BY OthersOutside DEF LockedPCs, MigratingPCs, RestorePCs
<1> QED
  BY <1>1, OpenersAssumption
  DEF Leaves, LockIsHeld, LockedPCs, MigratingPCs, RestorePCs

(* Open that gives up before it has changed anything, whatever becomes of    *)
(* the backup file: nobody else is in Open, so nobody relies on it.          *)
LEMMA GiveUpKeepsInv ==
  ASSUME SchemaInv, NEW o \in Openers,
         opener[o].pc \in {"configure", "backup", "clean"},
         GiveUp(o), UNCHANGED <<rows, damaged>>
  PROVE  SchemaInv'
<1>0. SchemaTypeOK /\ LockIsHeld /\ PendingIsComplete /\ (damaged \/ DataIsSafe)
  BY DEF SchemaInv
<1>1. opener[o].pc \in LockedPCs
  BY DEF LockedPCs, MigratingPCs
<1>2. /\ SchemaTypeOK' /\ opener'[o].pc = "closing"
      /\ \A q \in Openers \ {o} : opener'[q] = opener[q]
  BY <1>0, GotoFields DEF GiveUp, OpenerPCs
<1>3. Facts' = Facts /\ main'.file = main.file /\ lock' = "none"
  BY DEF GiveUp, Facts
<1>4. LockIsHeld'
  BY <1>0, <1>1, <1>2, <1>3, LeaveFreesLock DEF Leaves
<1>5. \A q \in Openers \ {o} : opener[q].pc \in {"idle", "open", "orphan", "closing"}
  BY <1>0, <1>1, OthersOutside
<1>6. PendingIsComplete'
  BY <1>0, <1>2, <1>3, <1>5 DEF PendingIsComplete, MigratingPCs, Recorded
<1>7. ASSUME DataIsSafe  PROVE DataIsSafe'
  BY <1>7, <1>0, <1>2, <1>3, <1>5
  DEF DataIsSafe, AloneWithBackup, Restoring, MigratingPCs, RestorePCs, Recorded
<1> QED
  BY <1>0, <1>2, <1>4, <1>6, <1>7 DEF SchemaInv

(* withInitLock and the reading of schema_migrations.                        *)
LEMMA ReadKeepsInv ==
  ASSUME SchemaInv, NEW o \in Openers, AcquireInitLock(o) \/ ReadApplied(o)
  PROVE  SchemaInv'
<1>0. SchemaTypeOK /\ LockIsHeld /\ PendingIsComplete /\ (damaged \/ DataIsSafe)
  BY DEF SchemaInv
<1>1. CASE AcquireInitLock(o)
  <2>1. /\ SchemaTypeOK' /\ opener'[o].pc = "configure" /\ opener[o].pc = "idle"
        /\ \A q \in Openers \ {o} : opener'[q] = opener[q]
    BY <1>0, <1>1, GotoFields DEF AcquireInitLock, OpenerPCs, LockedPCs
  <2>2. /\ lock = "none" /\ lock' = o
        /\ UNCHANGED <<main, wal, backup, rows, damaged>> /\ Facts' = Facts
    BY <1>1 DEF AcquireInitLock, Facts
  <2>3. LockIsHeld'
    BY <1>0, <2>1, <2>2, OpenersAssumption DEF LockIsHeld, LockedPCs
  <2>4. PendingIsComplete'
    BY <1>0, <2>1, <2>2 DEF PendingIsComplete, MigratingPCs, Recorded
  <2>5. ASSUME DataIsSafe  PROVE DataIsSafe'
    BY <2>5, <2>1, <2>2
    DEF DataIsSafe, AloneWithBackup, Handles, Restoring, MigratingPCs, RestorePCs,
        Recorded
  <2> QED
    BY <1>0, <2>1, <2>2, <2>3, <2>4, <2>5 DEF SchemaInv
<1>2. CASE ReadApplied(o)
  <2>0. opener[o].pc = "configure" /\ UNCHANGED <<backup, rows, damaged>>
    BY <1>2 DEF ReadApplied
  <2>1. /\ opener[o].pc \in LockedPCs /\ lock = o
        /\ \A q \in Openers \ {o} : opener[q].pc \in {"idle", "open", "orphan", "closing"}
    BY <1>0, <2>0, OthersOutside DEF LockedPCs
  <2>2. CASE GiveUp(o)
    BY <2>0, <2>2, GiveUpKeepsInv
  <2>3. CASE main.file = "part" /\ lock' = "none" /\ Goto(o, "closing")
             /\ UNCHANGED <<main, wal>>
    <3>1. /\ SchemaTypeOK' /\ opener'[o].pc = "closing"
          /\ \A q \in Openers \ {o} : opener'[q] = opener[q]
      BY <1>0, <2>3, GotoFields DEF OpenerPCs
    <3>2. LockIsHeld' /\ Facts' = Facts
      BY <1>0, <2>1, <2>3, <3>1, LeaveFreesLock DEF Leaves, Facts
    <3>3. PendingIsComplete'
      BY <1>0, <2>1, <3>1, <3>2 DEF PendingIsComplete, MigratingPCs, Recorded
    <3>4. ~DataIsSafe
      BY <2>0, <2>1, <2>3 DEF DataIsSafe, Restoring, RestorePCs
    <3> QED
      BY <1>0, <2>0, <3>1, <3>2, <3>3, <3>4 DEF SchemaInv
  <2>4. CASE /\ main.file # "part" /\ main' = Whole(main.facts) /\ wal' = wal
             /\ pendingMigrations(o) = {}
             /\ lock' = "none" /\ Goto(o, "open")
    <3>1. /\ SchemaTypeOK' /\ opener'[o].pc = "open"
          /\ \A q \in Openers \ {o} : opener'[q] = opener[q]
      BY <1>0, <2>4, GotoFields DEF OpenerPCs
    <3>2. LockIsHeld' /\ Facts' = Facts /\ main'.file = "whole"
      BY <1>0, <2>1, <2>4, <3>1, LeaveFreesLock DEF Leaves, Facts, Whole
    <3>3. PendingIsComplete'
      BY <1>0, <2>1, <3>1, <3>2 DEF PendingIsComplete, MigratingPCs, Recorded
    <3>4. Recorded(o) \subseteq Facts
      BY <2>4 DEF pendingMigrations, Recorded
    <3>5. ASSUME DataIsSafe  PROVE DataIsSafe'
      BY <3>5, <2>0, <2>1, <3>1, <3>2, <3>4
      DEF DataIsSafe, AloneWithBackup, Restoring, MigratingPCs, RestorePCs, Recorded
    <3> QED
      BY <1>0, <2>0, <3>1, <3>2, <3>3, <3>5 DEF SchemaInv
  <2>5. CASE /\ main.file # "part" /\ main' = Whole(main.facts) /\ wal' = wal
             /\ opener' = [opener EXCEPT ![o].pc = "backup",
                                         ![o].pending = pendingMigrations(o)]
             /\ lock' = lock
    <3> DEFINE p == pendingMigrations(o)
    <3>1. p \in SUBSET Nat /\ p = {i \in DOMAIN Program[o] : Program[o][i] \notin Facts}
      BY OpenersAssumption DEF pendingMigrations
    <3> DEFINE a == [opener[o] EXCEPT !.pc = "backup", !.pending = p]
    <3>2. opener' = [opener EXCEPT ![o] = a]
      BY <2>5
    <3> HIDE DEF p
    <3>3. /\ SchemaTypeOK' /\ opener'[o].pc = "backup" /\ opener'[o].pending = p
          /\ \A q \in Openers \ {o} : opener'[q] = opener[q]
      <4>1. a \in OpenerState /\ a.pc = "backup" /\ a.pending = p
        BY <1>0, <3>1 DEF SchemaTypeOK, OpenerState, OpenerPCs, LockedPCs, MigratingPCs
      <4> HIDE DEF a
      <4> QED
        BY <1>0, <3>2, <4>1, OpenerUpdate
    <3>4. LockIsHeld' /\ Facts' = Facts /\ main'.file = "whole"
      BY <1>0, <2>1, <2>5, <3>3 DEF LockIsHeld, LockedPCs, MigratingPCs, Facts, Whole
    <3>5. PendingIsComplete'
      BY <1>0, <2>1, <3>1, <3>3, <3>4 DEF PendingIsComplete, MigratingPCs, Recorded
    <3>6. ASSUME DataIsSafe  PROVE DataIsSafe'
      BY <3>6, <2>0, <2>1, <3>3, <3>4
      DEF DataIsSafe, AloneWithBackup, Restoring, MigratingPCs, RestorePCs, Recorded
    <3> QED
      BY <1>0, <2>0, <3>3, <3>4, <3>5, <3>6 DEF SchemaInv
  <2> QED
    BY <1>2, <2>2, <2>3, <2>4, <2>5 DEF ReadApplied
<1> QED
  BY <1>1, <1>2

(* createBackup: nobody relies on the old backup, and the new one holds what *)
(* the database holds.                                                       *)
LEMMA BackupKeepsInv ==
  ASSUME SchemaInv, NEW o \in Openers, RemoveOldBackup(o) \/ VacuumInto(o)
  PROVE  SchemaInv'
<1>0. SchemaTypeOK /\ LockIsHeld /\ PendingIsComplete /\ (damaged \/ DataIsSafe)
  BY DEF SchemaInv
<1>1. opener[o].pc = "backup" /\ UNCHANGED <<rows, damaged>>
  BY DEF RemoveOldBackup, VacuumInto
<1>2. /\ opener[o].pc \in LockedPCs /\ lock = o
      /\ \A q \in Openers \ {o} : opener[q].pc \in {"idle", "open", "orphan", "closing"}
  BY <1>0, <1>1, OthersOutside DEF LockedPCs, MigratingPCs
<1>3. CASE GiveUp(o)
  BY <1>1, <1>3, GiveUpKeepsInv
<1>4. CASE UNCHANGED <<main, wal, lock, opener>>
  <2>1. ASSUME DataIsSafe  PROVE DataIsSafe'
    BY <2>1, <1>1, <1>2, <1>4
    DEF DataIsSafe, AloneWithBackup, Restoring, MigratingPCs, RestorePCs, Recorded,
        Facts
  <2>2. SchemaTypeOK' /\ LockIsHeld'
    BY <1>0, <1>4 DEF SchemaTypeOK, LockIsHeld
  <2>3. PendingIsComplete'
    BY <1>0, <1>4 DEF PendingIsComplete, Facts, Recorded
  <2> QED
    BY <1>0, <1>1, <2>1, <2>2, <2>3 DEF SchemaInv
<1>5. CASE /\ backup' = Whole(Facts) /\ UNCHANGED <<main, wal, lock>>
           /\ opener' = [opener EXCEPT ![o].pc = "apply",
                                       ![o].shared = (Handles # {})]
  <2> DEFINE s == (Handles # {})
  <2>1. s \in BOOLEAN /\ (~s => Handles = {})
    OBVIOUS
  <2> DEFINE a == [opener[o] EXCEPT !.pc = "apply", !.shared = s]
  <2>2. opener' = [opener EXCEPT ![o] = a]
    BY <1>5
  <2> HIDE DEF s
  <2>3. /\ a \in OpenerState /\ a.pc = "apply" /\ a.shared = s
        /\ a.pending = opener[o].pending
    BY <1>0, <2>1 DEF SchemaTypeOK, OpenerState, OpenerPCs, LockedPCs, MigratingPCs
  <2> HIDE DEF a
  <2>4. /\ SchemaTypeOK' /\ opener'[o].pc = "apply" /\ opener'[o].shared = s
        /\ opener'[o].pending = opener[o].pending
        /\ \A q \in Openers \ {o} : opener'[q] = opener[q]
    BY <1>0, <2>2, <2>3, OpenerUpdate
  <2>5. /\ LockIsHeld' /\ Facts' = Facts
        /\ backup'.file = "whole" /\ backup'.facts = Facts
    BY <1>0, <1>2, <1>5, <2>4
    DEF LockIsHeld, LockedPCs, MigratingPCs, Facts, Whole
  <2>6. PendingIsComplete'
    BY <1>0, <1>1, <1>2, <2>4, <2>5 DEF PendingIsComplete, MigratingPCs, Recorded
  <2>7. ASSUME DataIsSafe  PROVE DataIsSafe'
    <3>1. Handles' = Handles
      BY <1>1, <2>4 DEF Handles
    <3>2. rows \subseteq Facts /\ main.file = "whole" /\ main' = main
      BY <2>7, <1>1, <1>2, <1>5 DEF DataIsSafe, Restoring, MigratingPCs, RestorePCs
    <3> QED
      BY <2>7, <1>1, <1>2, <2>1, <2>4, <2>5, <3>1, <3>2
      DEF DataIsSafe, AloneWithBackup, Restoring, MigratingPCs, RestorePCs, Recorded
  <2> QED
    BY <1>0, <1>1, <2>4, <2>5, <2>6, <2>7 DEF SchemaInv
<1> QED
  BY <1>3, <1>4, <1>5 DEF RemoveOldBackup, VacuumInto

(* One migration, or its failure, and the end of the migrations.             *)
LEMMA ApplyKeepsInv ==
  ASSUME SchemaInv, NEW o \in Openers, ApplyMigration(o) \/ removeBackup(o)
  PROVE  SchemaInv'
<1>0. SchemaTypeOK /\ LockIsHeld /\ PendingIsComplete /\ (damaged \/ DataIsSafe)
  BY DEF SchemaInv
<1>1. opener[o].pc \in {"apply", "clean"} /\ rows' = rows
  BY DEF ApplyMigration, removeBackup
<1>2. /\ opener[o].pc \in LockedPCs /\ lock = o
      /\ \A q \in Openers \ {o} : opener[q].pc \in {"idle", "open", "orphan", "closing"}
  BY <1>0, <1>1, OthersOutside DEF LockedPCs, MigratingPCs
<1>3. ASSUME NEW i \in opener[o].pending, opener[o].pc = "apply",
             wal' = wal \cup {Program[o][i]}, UNCHANGED <<main, backup, lock, damaged>>,
             opener' = [opener EXCEPT ![o].pending = @ \ {i},
                          ![o].pc = IF opener[o].pending = {i}
                                    THEN "clean" ELSE "apply"]
      PROVE  SchemaInv'
  <2> DEFINE p == opener[o].pending \ {i}
             l == IF opener[o].pending = {i} THEN "clean" ELSE "apply"
             a == [opener[o] EXCEPT !.pending = p, !.pc = l]
  <2>1. opener' = [opener EXCEPT ![o] = a]
    BY <1>3
  <2>2. p \in SUBSET Nat /\ l \in {"clean", "apply"} /\ (l = "clean" => p = {})
    BY <1>0 DEF SchemaTypeOK, OpenerState
  <2> HIDE DEF p, l
  <2>3. /\ a \in OpenerState /\ a.pc = l /\ a.pending = p
        /\ a.shared = opener[o].shared
    BY <1>0, <2>2 DEF SchemaTypeOK, OpenerState, OpenerPCs, LockedPCs, MigratingPCs
  <2> HIDE DEF a
  <2>4. /\ SchemaTypeOK' /\ opener'[o].pc = l /\ opener'[o].pending = p
        /\ opener'[o].shared = opener[o].shared
        /\ \A q \in Openers \ {o} : opener'[q] = opener[q]
    BY <1>0, <2>1, <2>3, OpenerUpdate
  <2>5. LockIsHeld' /\ Facts' = Facts \cup {Program[o][i]}
    BY <1>0, <1>2, <1>3, <2>2, <2>4 DEF LockIsHeld, LockedPCs, MigratingPCs, Facts
  <2>6. PendingIsComplete'
    <3>1. opener[o].pending = p \cup {i}
      BY <1>3 DEF p
    <3>2. Recorded(o) \subseteq
              Facts' \cup {Program[o][j] : j \in p \cap DOMAIN Program[o]}
      <4>1. ASSUME NEW m \in Recorded(o), m \notin Facts'
            PROVE  m \in {Program[o][j] : j \in p \cap DOMAIN Program[o]}
        <5>1. PICK j \in opener[o].pending \cap DOMAIN Program[o] : m = Program[o][j]
          BY <1>0, <1>3, <2>5, <4>1 DEF PendingIsComplete, MigratingPCs
        <5>2. j # i
          BY <2>5, <4>1, <5>1
        <5> QED
          BY <3>1, <5>1, <5>2
      <4> QED
        BY <4>1
    <3>3. ASSUME NEW q \in Openers \ {o}  PROVE opener'[q].pc \notin MigratingPCs
      BY <1>2, <2>4 DEF MigratingPCs
    <3>4. Recorded(o)' \subseteq
             Facts' \cup {Program[o][j] : j \in opener'[o].pending \cap DOMAIN Program[o]}
      BY <2>4, <3>2 DEF Recorded
    <3>5. \A q \in Openers : opener'[q].pc = "clean" => opener'[q].pending = {}
      BY <2>2, <2>4, <3>3 DEF MigratingPCs
    <3> QED
      BY <3>3, <3>4, <3>5 DEF PendingIsComplete
  <2>7. ASSUME DataIsSafe  PROVE DataIsSafe'
    <3>1. Handles' = Handles
      BY <1>1, <2>2, <2>4 DEF Handles
    <3> QED
      BY <2>7, <1>1, <1>2, <1>3, <2>2, <2>4, <2>5, <3>1
      DEF DataIsSafe, AloneWithBackup, Restoring, MigratingPCs, RestorePCs, Recorded
  <2> QED
    BY <1>0, <1>3, <2>4, <2>5, <2>6, <2>7 DEF SchemaInv
<1>4. CASE /\ opener[o].pc = "apply" /\ CloseConnection(o) /\ Goto(o, "restore_rm")
           /\ damaged' = (damaged \/ opener[o].shared) /\ UNCHANGED <<backup, lock>>
  <2>1. /\ SchemaTypeOK' /\ opener'[o].pc = "restore_rm"
        /\ opener'[o].shared = opener[o].shared
        /\ \A q \in Openers \ {o} : opener'[q] = opener[q]
    BY <1>0, <1>4, GotoFields DEF OpenerPCs, LockedPCs, RestorePCs
  <2>2. LockIsHeld' /\ Facts' = Facts /\ main'.file = main.file
    BY <1>0, <1>2, <1>4, <2>1, CloseKeepsFacts DEF LockIsHeld, LockedPCs, RestorePCs
  <2>3. PendingIsComplete'
    BY <1>0, <1>2, <2>1, <2>2 DEF PendingIsComplete, MigratingPCs, Recorded
  <2>4. ASSUME DataIsSafe, ~opener[o].shared  PROVE DataIsSafe'
    <3>1. Handles' = Handles
      BY <1>1, <2>1 DEF Handles
    <3> QED
      BY <2>4, <1>1, <1>2, <1>4, <2>1, <2>2, <3>1
      DEF DataIsSafe, AloneWithBackup, Restoring, MigratingPCs, RestorePCs, Recorded
  <2> QED
    BY <1>0, <1>4, <2>1, <2>2, <2>3, <2>4 DEF SchemaInv
<1>5. CASE opener[o].pc = "clean" /\ damaged' = damaged /\ GiveUp(o)
  BY <1>1, <1>5, GiveUpKeepsInv
<1>6. CASE /\ opener[o].pc = "clean" /\ damaged' = damaged /\ lock' = "none"
           /\ Goto(o, "open") /\ UNCHANGED <<main, wal>>
  <2>1. /\ SchemaTypeOK' /\ opener'[o].pc = "open"
        /\ \A q \in Openers \ {o} : opener'[q] = opener[q]
    BY <1>0, <1>6, GotoFields DEF OpenerPCs
  <2>2. LockIsHeld' /\ Facts' = Facts /\ main' = main
    BY <1>0, <1>2, <1>6, <2>1, LeaveFreesLock DEF Leaves, Facts
  <2>3. PendingIsComplete' /\ Recorded(o) \subseteq Facts
    BY <1>0, <1>2, <1>6, <2>1, <2>2 DEF PendingIsComplete, MigratingPCs, Recorded
  <2>4. ASSUME DataIsSafe  PROVE DataIsSafe'
    BY <2>4, <1>1, <1>2, <1>6, <2>1, <2>2, <2>3
    DEF DataIsSafe, AloneWithBackup, Restoring, MigratingPCs, RestorePCs, Recorded
  <2> QED
    BY <1>0, <1>6, <2>1, <2>2, <2>3, <2>4 DEF SchemaInv
<1>7. CASE removeBackup(o)
  BY <1>5, <1>6, <1>7 DEF removeBackup
<1>8. CASE ApplyMigration(o)
  BY <1>3, <1>4, <1>8 DEF ApplyMigration
<1> QED
  BY <1>7, <1>8

(* restoreFromBackup: while it has not been cut short, the backup holds the  *)
(* rows until the database does again.                                       *)
LEMMA RestoreKeepsInv ==
  ASSUME SchemaInv, NEW o \in Openers,
         RemoveDatabase(o) \/ CreateDatabase(o) \/ CopyBackup(o) \/ EndRestore(o)
  PROVE  SchemaInv'
<1>0. SchemaTypeOK /\ LockIsHeld /\ PendingIsComplete /\ (damaged \/ DataIsSafe)
  BY DEF SchemaInv
<1>1. opener[o].pc \in RestorePCs \cup {"restore_end"} /\ rows' = rows
  BY DEF RemoveDatabase, CreateDatabase, CopyBackup, EndRestore, RestorePCs
<1>2. /\ opener[o].pc \in LockedPCs /\ lock = o
      /\ \A q \in Openers \ {o} : opener[q].pc \in {"idle", "open", "orphan", "closing"}
  BY <1>0, <1>1, OthersOutside DEF LockedPCs
<1>3. CASE RestoreFails(o) /\ UNCHANGED <<backup, lock>>
  <2>1. /\ SchemaTypeOK' /\ opener'[o].pc = "restore_end" /\ damaged'
        /\ \A q \in Openers \ {o} : opener'[q] = opener[q]
    BY <1>0, <1>3, GotoFields DEF RestoreFails, OpenerPCs, LockedPCs
  <2>2. LockIsHeld'
    BY <1>0, <1>2, <1>3, <2>1 DEF LockIsHeld, LockedPCs
  <2>3. PendingIsComplete'
    BY <1>2, <2>1 DEF PendingIsComplete, MigratingPCs
  <2> QED
    BY <2>1, <2>2, <2>3 DEF SchemaInv
<1>4. ASSUME UNCHANGED <<opener, backup, lock, damaged>>, Restoring(o)
      PROVE  SchemaInv'
  <2>1. SchemaTypeOK' /\ LockIsHeld'
    BY <1>0, <1>4 DEF SchemaTypeOK, LockIsHeld
  <2>2. PendingIsComplete'
    BY <1>1, <1>2, <1>4 DEF PendingIsComplete, MigratingPCs, RestorePCs
  <2>3. ASSUME DataIsSafe  PROVE DataIsSafe'
    BY <2>3, <1>1, <1>2, <1>4
    DEF DataIsSafe, AloneWithBackup, Handles, Restoring, MigratingPCs, RestorePCs
  <2> QED
    BY <1>0, <1>4, <2>1, <2>2, <2>3 DEF SchemaInv
<1>5. ASSUME NEW l \in RestorePCs, Goto(o, l), Restoring(o),
             UNCHANGED <<backup, lock, damaged>>
      PROVE  SchemaInv'
  <2>1. /\ SchemaTypeOK' /\ opener'[o].pc = l
        /\ \A q \in Openers \ {o} : opener'[q] = opener[q]
    BY <1>0, <1>5, GotoFields DEF OpenerPCs, LockedPCs
  <2>2. LockIsHeld'
    BY <1>0, <1>2, <1>5, <2>1 DEF LockIsHeld, LockedPCs
  <2>3. PendingIsComplete'
    BY <1>2, <1>5, <2>1 DEF PendingIsComplete, MigratingPCs, RestorePCs
  <2>4. ASSUME DataIsSafe  PROVE DataIsSafe'
    <3>1. Handles = {} /\ Handles' = {}
      BY <2>4, <1>5, <2>1
      DEF DataIsSafe, AloneWithBackup, Handles, RestorePCs
    <3> QED
      BY <2>4, <3>1, <1>1, <1>2, <1>5, <2>1
      DEF DataIsSafe, AloneWithBackup, Handles, Restoring, MigratingPCs, RestorePCs
  <2> QED
    BY <1>0, <1>5, <2>1, <2>2, <2>3, <2>4 DEF SchemaInv
<1>6. CASE RemoveDatabase(o)
  <2>1. ASSUME UNCHANGED <<backup, lock, damaged>>,
               opener' = [q \in Openers |->
                            IF q = o THEN [opener[o] EXCEPT !.pc = "restore_create"]
                            ELSE IF q \in Handles THEN [opener[q] EXCEPT !.pc = "orphan"]
                            ELSE IF opener[q].pc = "closing" THEN [opener[q] EXCEPT !.pc = "idle"]
                            ELSE opener[q]]
        PROVE  SchemaInv'
    <3>0. opener[o].pc = "restore_rm"
      BY <1>6 DEF RemoveDatabase
    <3> DEFINE a == [opener[o] EXCEPT !.pc = "restore_create"]
               b(q) == [opener[q] EXCEPT !.pc = "orphan"]
               c(q) == [opener[q] EXCEPT !.pc = "idle"]
    <3>1. /\ a \in OpenerState /\ a.pc = "restore_create"
          /\ \A q \in Openers : b(q) \in OpenerState /\ b(q).pc = "orphan"
          /\ \A q \in Openers : c(q) \in OpenerState /\ c(q).pc = "idle"
      BY <1>0 DEF SchemaTypeOK, OpenerState, OpenerPCs, LockedPCs, RestorePCs
    <3>2. opener' = [q \in Openers |-> IF q = o THEN a
                                        ELSE IF q \in Handles THEN b(q)
                                        ELSE IF opener[q].pc = "closing" THEN c(q)
                                        ELSE opener[q]]
      BY <2>1
    <3> HIDE DEF a, b, c
    <3>3. /\ SchemaTypeOK' /\ opener'[o].pc = "restore_create"
          /\ \A q \in Openers \ {o} :
                opener'[q].pc \in {"orphan", "idle"} \/ opener'[q] = opener[q]
          /\ Handles = {} => \A q \in Openers \ {o} :
                                 opener'[q].pc = "idle" \/ opener'[q] = opener[q]
      BY <1>0, <3>1, <3>2 DEF SchemaTypeOK
    <3>4. LockIsHeld'
      BY <1>0, <1>2, <2>1, <3>3 DEF LockIsHeld, LockedPCs, MigratingPCs, RestorePCs
    <3>5. PendingIsComplete'
      BY <1>2, <3>3 DEF PendingIsComplete, MigratingPCs
    <3>6. ASSUME DataIsSafe  PROVE DataIsSafe'
      <4>1. Handles = {} /\ AloneWithBackup
        BY <3>0, <3>6 DEF DataIsSafe, AloneWithBackup, Restoring, RestorePCs
      <4>2. Handles' = {}
        BY <4>1, <3>3 DEF Handles
      <4> QED
        BY <3>6, <4>1, <4>2, <1>1, <1>2, <2>1, <3>3
        DEF DataIsSafe, AloneWithBackup, Handles, Restoring, MigratingPCs, RestorePCs
    <3> QED
      BY <1>0, <2>1, <3>3, <3>4, <3>5, <3>6 DEF SchemaInv
  <2> QED
    BY <1>3, <1>4, <1>6, <2>1 DEF RemoveDatabase, Restoring, RestorePCs
<1>7. CASE CreateDatabase(o)
  BY <1>3, <1>5, <1>7 DEF CreateDatabase, Restoring, RestorePCs
<1>8. ASSUME opener[o].pc = "restore_copy", main' = Whole(backup.facts),
             Goto(o, "restore_end"), UNCHANGED <<wal, backup, lock, damaged>>
      PROVE  SchemaInv'
  <2>1. /\ SchemaTypeOK' /\ opener'[o].pc = "restore_end"
        /\ \A q \in Openers \ {o} : opener'[q] = opener[q]
    BY <1>0, <1>8, GotoFields DEF OpenerPCs, LockedPCs
  <2>2. LockIsHeld' /\ main'.file = "whole" /\ backup.facts \subseteq Facts'
    BY <1>0, <1>2, <1>8, <2>1 DEF LockIsHeld, LockedPCs, Facts, Whole
  <2>3. PendingIsComplete'
    BY <1>2, <2>1 DEF PendingIsComplete, MigratingPCs
  <2>4. ASSUME DataIsSafe  PROVE DataIsSafe'
    <3>1. Handles = {} /\ rows \subseteq backup.facts
      BY <2>4, <1>8 DEF DataIsSafe, AloneWithBackup, Restoring, RestorePCs
    <3> QED
      BY <2>4, <3>1, <1>1, <1>2, <2>1, <2>2
      DEF DataIsSafe, AloneWithBackup, Handles, Restoring, MigratingPCs, RestorePCs
  <2> QED
    BY <1>0, <1>8, <2>1, <2>2, <2>3, <2>4 DEF SchemaInv
<1>9. CASE CopyBackup(o)
  BY <1>3, <1>4, <1>8, <1>9 DEF CopyBackup, Restoring, RestorePCs
<1>10. CASE EndRestore(o)
  <2>0. /\ opener[o].pc = "restore_end" /\ lock' = "none"
        /\ UNCHANGED <<main, wal, damaged>>
    BY <1>10 DEF EndRestore
  <2>1. /\ SchemaTypeOK' /\ opener'[o].pc = "idle"
        /\ \A q \in Openers \ {o} : opener'[q] = opener[q]
    BY <1>0, <1>10, GotoFields DEF EndRestore, OpenerPCs
  <2>2. LockIsHeld' /\ Facts' = Facts
    BY <1>0, <1>2, <2>0, <2>1, LeaveFreesLock DEF Leaves, Facts
  <2>3. PendingIsComplete'
    BY <1>2, <2>1 DEF PendingIsComplete, MigratingPCs
  <2>4. ASSUME DataIsSafe  PROVE DataIsSafe'
    BY <2>4, <1>1, <1>2, <2>0, <2>1, <2>2
    DEF DataIsSafe, AloneWithBackup, Handles, Restoring, MigratingPCs, RestorePCs,
        Recorded
  <2> QED
    BY <1>0, <2>0, <2>1, <2>2, <2>3, <2>4 DEF SchemaInv
<1> QED
  BY <1>6, <1>7, <1>9, <1>10

(* Owners of handles write rows and close, an Open that failed closes; any   *)
(* process may be killed.                                                    *)
LEMMA HandleKeepsInv ==
  ASSUME SchemaInv, NEW o \in Openers,
         WriteRow(o) \/ CloseHandle(o) \/ CloseFailed(o) \/ Killed(o)
  PROVE  SchemaInv'
<1>0. SchemaTypeOK /\ LockIsHeld /\ PendingIsComplete /\ (damaged \/ DataIsSafe)
  BY DEF SchemaInv
<1>1. CASE WriteRow(o)
  <2>1. PICK r \in Rows \ rows :
          /\ rows' = rows \cup {r}
          /\ wal' = IF opener[o].pc = "open" THEN wal \cup {r} ELSE wal
    BY <1>1 DEF WriteRow
  <2>2. opener[o].pc \in {"open", "orphan"}
        /\ UNCHANGED <<main, backup, lock, opener, damaged>>
    BY <1>1 DEF WriteRow
  <2>3. /\ SchemaTypeOK' /\ LockIsHeld' /\ Facts \subseteq Facts'
        /\ opener[o].pc = "open" => Facts' = Facts \cup {r}
    BY <1>0, <2>1, <2>2 DEF SchemaTypeOK, LockIsHeld, Facts
  <2>4. PendingIsComplete'
    BY <1>0, <2>2, <2>3 DEF PendingIsComplete, Recorded
  <2>5. ASSUME DataIsSafe  PROVE DataIsSafe'
    <3>1. /\ opener[o].pc = "open" /\ main.file = "whole" /\ Handles # {}
          /\ ~ \E q \in Openers : Restoring(q)
          /\ rows \subseteq Facts
      BY <2>5, <2>2 DEF DataIsSafe, AloneWithBackup, Handles
    <3> QED
      BY <2>5, <3>1, <2>1, <2>2, <2>3
      DEF DataIsSafe, AloneWithBackup, Handles, Restoring, Recorded
  <2> QED
    BY <1>0, <2>2, <2>3, <2>4, <2>5 DEF SchemaInv
<1>2. CASE CloseHandle(o) \/ CloseFailed(o)
  <2>1. /\ SchemaTypeOK' /\ opener'[o].pc = "idle"
        /\ opener[o].pc \in {"open", "orphan", "closing"}
        /\ \A q \in Openers \ {o} : opener'[q] = opener[q]
    BY <1>0, <1>2, GotoFields DEF CloseHandle, CloseFailed, OpenerPCs
  <2>2. Facts' = Facts /\ main'.file = main.file
        /\ UNCHANGED <<backup, lock, rows, damaged>>
    <3>1. CASE CloseConnection(o)
      BY <1>2, <3>1, CloseKeepsFacts DEF CloseHandle, CloseFailed
    <3>2. CASE UNCHANGED <<main, wal>>
      BY <1>2, <3>2 DEF CloseHandle, CloseFailed, Facts
    <3> QED
      BY <1>2, <3>1, <3>2 DEF CloseHandle, CloseFailed
  <2>3. LockIsHeld'
    BY <1>0, <2>1, <2>2 DEF LockIsHeld, LockedPCs, MigratingPCs, RestorePCs
  <2>4. PendingIsComplete'
    BY <1>0, <2>1, <2>2 DEF PendingIsComplete, MigratingPCs, Recorded
  <2>5. ASSUME DataIsSafe  PROVE DataIsSafe'
    <3>1. Handles' \subseteq Handles
      BY <2>1 DEF Handles
    <3> QED
      BY <2>5, <3>1, <2>1, <2>2
      DEF DataIsSafe, AloneWithBackup, Restoring, MigratingPCs, RestorePCs, Recorded
  <2> QED
    BY <1>0, <2>1, <2>2, <2>3, <2>4, <2>5 DEF SchemaInv
<1>3. CASE Killed(o)
  <2>1. /\ SchemaTypeOK' /\ opener'[o].pc = "idle"
        /\ \A q \in Openers \ {o} : opener'[q] = opener[q]
    BY <1>0, <1>3, GotoFields DEF Killed, OpenerPCs
  <2>2. /\ Facts' = Facts /\ UNCHANGED <<main, backup, rows>>
        /\ damaged' = (damaged \/ Restoring(o))
        /\ lock' = IF lock = o THEN "none" ELSE lock
    BY <1>3 DEF Killed, Facts
  <2>3. LockIsHeld'
    BY <1>0, <2>1, <2>2, OpenersAssumption
    DEF LockIsHeld, LockedPCs, MigratingPCs, RestorePCs
  <2>4. PendingIsComplete'
    BY <1>0, <2>1, <2>2 DEF PendingIsComplete, MigratingPCs, Recorded
  <2>5. ASSUME DataIsSafe, ~Restoring(o)  PROVE DataIsSafe'
    <3>1. Handles' \subseteq Handles
      BY <2>1 DEF Handles
    <3> QED
      BY <2>5, <3>1, <2>1, <2>2
      DEF DataIsSafe, AloneWithBackup, Restoring, MigratingPCs, RestorePCs, Recorded
  <2> QED
    BY <1>0, <2>1, <2>2, <2>3, <2>4, <2>5 DEF SchemaInv
<1> QED
  BY <1>1, <1>2, <1>3

-----------------------------------------------------------------------------
(* SchemaInv is inductive.                                                   *)
LEMMA SchemaStep == SchemaInv /\ [SchemaNext]_schemaVars => SchemaInv'
<1> SUFFICES ASSUME SchemaInv, [SchemaNext]_schemaVars
             PROVE  SchemaInv'
  OBVIOUS
<1>1. CASE UNCHANGED schemaVars
  <2>1. /\ UNCHANGED <<main, wal, backup, lock, opener, rows, damaged>>
        /\ Facts' = Facts
    BY <1>1 DEF schemaVars, Facts
  <2>2. SchemaTypeOK' /\ LockIsHeld'
    BY <2>1 DEF SchemaInv, SchemaTypeOK, LockIsHeld
  <2>3. PendingIsComplete'
    BY <2>1 DEF SchemaInv, PendingIsComplete, Recorded
  <2>4. DataIsSafe => DataIsSafe'
    BY <2>1 DEF DataIsSafe, AloneWithBackup, Handles, Restoring, Recorded
  <2> QED
    BY <2>1, <2>2, <2>3, <2>4 DEF SchemaInv
<1>2. CASE SchemaNext
  BY <1>2, ReadKeepsInv, BackupKeepsInv, ApplyKeepsInv, RestoreKeepsInv,
     HandleKeepsInv DEF SchemaNext, OpenStep
<1> QED
  BY <1>1, <1>2

(* There is no database yet and nobody opens it.                             *)
LEMMA SchemaStart == SchemaInit => SchemaInv
<1> SUFFICES ASSUME SchemaInit  PROVE SchemaInv
  OBVIOUS
<1> DEFINE a == [pc |-> "idle", pending |-> {}, shared |-> FALSE]
<1>1. a \in OpenerState /\ a.pc = "idle"
  BY DEF OpenerState, OpenerPCs
<1>2. opener = [o \in Openers |-> a]
  BY DEF SchemaInit
<1> HIDE DEF a
<1>3. SchemaTypeOK /\ \A o \in Openers : opener[o].pc = "idle"
  BY <1>1, <1>2 DEF SchemaTypeOK
<1>4. LockIsHeld
  BY <1>3, OpenersAssumption
  DEF SchemaInit, LockIsHeld, LockedPCs, MigratingPCs, RestorePCs
<1>5. PendingIsComplete
  BY <1>3 DEF PendingIsComplete, MigratingPCs
<1>6. DataIsSafe
  BY <1>3 DEF SchemaInit, DataIsSafe, Restoring, MigratingPCs, RestorePCs, NoFile
<1> QED
  BY <1>3, <1>4, <1>5, <1>6 DEF SchemaInv

(* MigrationKeepsData for any programs, migrations, rows, failures and kills:*)
(* storedb.Open's lock, backup, migrations, and restore lose no committed    *)
(* row, and a handle is handed out only on a database with all migrations of *)
(* its program, except after a restore that was cut short or that met a      *)
(* handle opened before it (db.go:77-229).                                   *)
THEOREM MigrationsKeepData == SchemaSpec => []MigrationKeepsData
<1>1. SchemaInv => MigrationKeepsData
  BY DEF SchemaInv, DataIsSafe, AloneWithBackup, MigrationKeepsData
<1> QED
  BY <1>1, SchemaStart, SchemaStep, PTL DEF SchemaSpec
=============================================================================
