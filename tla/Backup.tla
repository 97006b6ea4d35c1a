------------------------------- MODULE Backup -------------------------------
(***************************************************************************)
(* ppc-lab-backup: create copies the evidence store, the knowledge graph   *)
(* and the control root into an archive, one after the other and the       *)
(* control root file by file, while other programs go on writing; restore  *)
(* moves what is there into a safety directory and the archived components *)
(* into place, and undoes both on an error of the second half.  Any move   *)
(* may fail, the ones of the undo too, and the process may be killed at    *)
(* any point.                                                              *)
(*                                                                         *)
(* The evidence store is its index and its objects, the control root its   *)
(* queue items and next_seq.                                               *)
(***************************************************************************)
EXTENDS Naturals, FiniteSets

CONSTANTS
  Objects,      \* what may be ingested
  NotThere,     \* no component directory, no object
  Garbled,      \* what a damaged archive holds
  PartCopied,   \* what a copy that was cut short leaves
  QuietControl, \* TRUE: nobody submits or starts a supervisor while create runs, as
                \* BACKUP_RESTORE.md advises
  MaxItems, MaxBackups, MaxBackupFaults   \* bounds

Components == {"evidence", "knowledge", "control"}
Contents ==
  [evidence |-> [db : SUBSET Objects, objects : SUBSET Objects], knowledge |-> {"graph"},
   control |-> [next : Nat, items : SUBSET Nat]]

\* The three marks are nothing that a component could hold.
ASSUME BackupAssumption ==
  /\ QuietControl \in BOOLEAN
  /\ Garbled \notin {NotThere, PartCopied} /\ PartCopied # NotThere /\ NotThere \notin Objects
  /\ \A c \in Components : {NotThere, Garbled, PartCopied} \cap Contents[c] = {}

VARIABLES
  disk,      \* [Components -> content or NotThere]: the state root
  kept,      \* [Components -> set of contents]: the .pre-restore directories, and
             \* what an undo moved into a directory that stood in its place
  archives,  \* the archives: [state, live]
  alive,     \* a supervisor runs: SERVER.lock holds a live pid
  putting,   \* the object that an ingest has stored and not yet indexed
  submitting,\* a submission has written its item and not yet next_seq
  bk,        \* the backup process: [pc, live, stage, before, moved, installed,
             \* inway], inway being what a failed move left in a component's place
  bkUsed     \* [command, fault]

backupVars == <<disk, kept, archives, alive, putting, submitting, bk, bkUsed>>

Nothing == [c \in Components |-> NotThere]
NoBackup == [pc |-> "idle", live |-> FALSE, stage |-> Nothing, before |-> Nothing,
             moved |-> {}, installed |-> {}, inway |-> {}]

BackupInit ==
  /\ disk = [evidence |-> [db |-> {}, objects |-> {}], knowledge |-> "graph",
             control |-> [next |-> 1, items |-> {}]]
  /\ kept = [c \in Components |-> {}] /\ archives = {}
  /\ alive = FALSE /\ putting = NotThere /\ submitting = FALSE
  /\ bk = NoBackup /\ bkUsed = [command |-> 0, fault |-> 0]

Present(c) == disk[c] # NotThere
Readable(c) == disk[c] \notin {NotThere, PartCopied}
Creating == bk.pc \in {"evidence", "objects", "knowledge", "lock", "state", "items", "write"}
Restoring == bk.pc \in {"move", "install", "undo"}

-----------------------------------------------------------------------------
(* The programs that write: ppc-lab-evidence and ppc-lab-control (the      *)
(* knowledge graph is one SQLite file and adds nothing to the index of the *)
(* evidence store).  BACKUP_RESTORE.md has them stopped for a restore;     *)
(* none of them, nor create, is run on a component that was copied in part.*)
Writers ==
  /\ ~Restoring
  /\ \/ /\ putting = NotThere /\ Readable("evidence")
        /\ \E o \in Objects \ disk["evidence"].objects :
             /\ disk' = [disk EXCEPT !["evidence"].objects = @ \cup {o}]
             /\ putting' = o
        /\ UNCHANGED <<alive, submitting>>
     \/ /\ putting # NotThere /\ putting' = NotThere
        /\ disk' = IF Readable("evidence") /\ putting \in disk["evidence"].objects
                     THEN [disk EXCEPT !["evidence"].db = @ \cup {putting}] ELSE disk
        /\ UNCHANGED <<alive, submitting>>
     \/ /\ Readable("control") /\ ~submitting /\ ~(QuietControl /\ Creating)
        /\ disk["control"].next <= MaxItems
        /\ disk' = [disk EXCEPT !["control"].items = @ \cup {disk["control"].next}]
        /\ submitting' = TRUE /\ UNCHANGED <<alive, putting>>
     \/ /\ Readable("control") /\ submitting
        /\ disk' = [disk EXCEPT !["control"].next = @ + 1]
        /\ submitting' = FALSE /\ UNCHANGED <<alive, putting>>
     \/ /\ Readable("control") /\ ~(QuietControl /\ Creating)
        /\ alive' = ~alive /\ UNCHANGED <<disk, putting, submitting>>
  /\ UNCHANGED <<kept, archives, bk, bkUsed>>

-----------------------------------------------------------------------------
(* create.                                                                 *)
BackupStart ==
  /\ bk.pc = "idle" /\ bkUsed.command < MaxBackups
  /\ bkUsed' = [bkUsed EXCEPT !.command = @ + 1]

CreateBackup(live) ==
  /\ BackupStart /\ disk # Nothing /\ \A c \in Components : disk[c] # PartCopied
  /\ QuietControl => ~submitting
  /\ bk' = [NoBackup EXCEPT !.pc = "evidence", !.live = live]
  /\ UNCHANGED <<disk, kept, archives, alive, putting, submitting>>

BackupGoto(l) == bk' = [bk EXCEPT !.pc = l]
Stage(c, content, l) == bk' = [bk EXCEPT !.stage[c] = content, !.pc = l]

\* (mutant) The objects are copied before the index.
SnapshotEvidence_late ==
  \/ /\ bk.pc = "evidence"
     /\ IF Present("evidence")
          THEN Stage("evidence", [db |-> {}, objects |-> disk["evidence"].objects], "objects")
          ELSE BackupGoto("knowledge")
     /\ UNCHANGED <<disk, kept, archives, alive, putting, submitting, bkUsed>>
  \/ /\ bk.pc = "objects"
     /\ bk' = [bk EXCEPT !.stage["evidence"].db = disk["evidence"].db, !.pc = "knowledge"]
     /\ UNCHANGED <<disk, kept, archives, alive, putting, submitting, bkUsed>>

\* snapshot_state: the index first, then exactly the objects that it names, each of
\* which must exist.
SnapshotEvidence ==
  \/ /\ bk.pc = "evidence"
     /\ IF Present("evidence")
          THEN Stage("evidence", [db |-> disk["evidence"].db, objects |-> {}], "objects")
          ELSE BackupGoto("knowledge")
     /\ UNCHANGED <<disk, kept, archives, alive, putting, submitting, bkUsed>>
  \/ /\ bk.pc = "objects"
     /\ bk' = IF bk.stage["evidence"].db \subseteq disk["evidence"].objects
                THEN [bk EXCEPT !.stage["evidence"].objects = bk.stage["evidence"].db,
                                !.pc = "knowledge"]
                ELSE NoBackup
     /\ UNCHANGED <<disk, kept, archives, alive, putting, submitting, bkUsed>>

SnapshotKnowledge ==
  /\ bk.pc = "knowledge"
  /\ Stage("knowledge", disk["knowledge"], IF Present("control") THEN "lock" ELSE "write")
  /\ UNCHANGED <<disk, kept, archives, alive, putting, submitting, bkUsed>>

\* control_server_alive: a live supervisor is refused without --allow-live-control.
CheckLive ==
  /\ bk.pc = "lock"
  /\ bk' = IF alive /\ ~bk.live THEN NoBackup ELSE [bk EXCEPT !.pc = "state"]
  /\ UNCHANGED <<disk, kept, archives, alive, putting, submitting, bkUsed>>

\* copy_control: the names are listed, then control.json is copied, then the items.
CopyControl ==
  \/ /\ bk.pc = "state"
     /\ Stage("control", disk["control"], "items")
     /\ UNCHANGED <<disk, kept, archives, alive, putting, submitting, bkUsed>>
  \/ /\ bk.pc = "items"
     /\ Stage("control", [bk.stage["control"] EXCEPT !.items = @ \cap disk["control"].items], "write")
     /\ UNCHANGED <<disk, kept, archives, alive, putting, submitting, bkUsed>>

\* write_archive: built beside the output and renamed; whether the control plane is
\* live is asked once more, for the manifest.
WriteArchive ==
  /\ bk.pc = "write"
  /\ archives' = archives \cup {[state |-> bk.stage, live |-> bk.live /\ alive]}
  /\ bk' = NoBackup
  /\ UNCHANGED <<disk, kept, alive, putting, submitting, bkUsed>>

-----------------------------------------------------------------------------
(* restore.                                                                *)
\* read_and_verify: every member is there, with its size and hash.
Verified(a) == Garbled \notin {a.state[c] : c \in Components}

Restorable(a) == {c \in Components : a.state[c] # NotThere}

\* restore_backup, as far as its refusals.
RestoreBackup(a, force) ==
  /\ BackupStart /\ Verified(a)
  /\ force \/ \A c \in Restorable(a) : ~Present(c)
  /\ putting = NotThere /\ ~submitting /\ ~alive
  /\ bk' = [NoBackup EXCEPT !.pc = "move", !.stage = a.state, !.before = disk]
  /\ UNCHANGED <<disk, kept, archives, alive, putting, submitting>>

Staged == {c \in Components : bk.stage[c] # NotThere}
ToMove == {c \in Staged \ bk.moved : bk.before[c] # NotThere}

\* Each component that exists is moved into a safety directory of its own ...
MoveAside ==
  /\ bk.pc = "move"
  /\ IF ToMove = {} THEN BackupGoto("install") /\ UNCHANGED <<disk, kept>>
     ELSE \E c \in ToMove : /\ disk' = [disk EXCEPT ![c] = NotThere]
                            /\ kept' = [kept EXCEPT ![c] = @ \cup {disk[c]}]
                            /\ bk' = [bk EXCEPT !.moved = @ \cup {c}]
  /\ UNCHANGED <<archives, alive, putting, submitting, bkUsed>>

\* ... and each staged one into its place.
Install ==
  /\ bk.pc = "install"
  /\ IF Staged = bk.installed THEN bk' = NoBackup /\ UNCHANGED disk
     ELSE \E c \in Staged \ bk.installed :
            /\ disk' = [disk EXCEPT ![c] = bk.stage[c]]
            /\ bk' = [bk EXCEPT !.installed = @ \cup {c}]
  /\ UNCHANGED <<kept, archives, alive, putting, submitting, bkUsed>>

BackupFails ==
  /\ bkUsed.fault < MaxBackupFaults
  /\ bkUsed' = [bkUsed EXCEPT !.fault = @ + 1]

\* A move aside fails.  This is outside the try: nothing is put back.  A directory
\* that cannot be renamed (a mount point) is copied and then deleted, so the error
\* may leave a part of a copy, or the whole copy and a part of the original.
MoveFails ==
  /\ bk.pc = "move" /\ ToMove # {} /\ BackupFails
  /\ BackupGoto("failed")
  /\ \/ UNCHANGED <<disk, kept>>
     \/ \E c \in ToMove :
          \/ kept' = [kept EXCEPT ![c] = @ \cup {PartCopied}] /\ UNCHANGED disk
          \/ /\ kept' = [kept EXCEPT ![c] = @ \cup {disk[c]}]
             /\ disk' = [disk EXCEPT ![c] = PartCopied]
  /\ UNCHANGED <<archives, alive, putting, submitting>>

\* A move into place fails, or the copy of the deployment record after the last.
\* The staging directory is a temporary one, so where it is on another file system
\* the move copies: it leaves a part, or all of it when only the deletion of the
\* staged directory failed, and c is not noted as installed.
InstallFails ==
  /\ bk.pc = "install" /\ BackupFails
  /\ \/ BackupGoto("undo") /\ UNCHANGED disk
     \/ \E c \in Staged \ bk.installed :
          /\ \E left \in {bk.stage[c], PartCopied} : disk' = [disk EXCEPT ![c] = left]
          /\ bk' = [bk EXCEPT !.pc = "undo", !.inway = {c}]
  /\ UNCHANGED <<kept, archives, alive, putting, submitting>>

\* The except clause: what was installed is removed; then what was moved aside is
\* put back, which a directory in its place turns into a move into that directory.
Undo ==
  /\ bk.pc = "undo"
  /\ IF bk.installed # {}
       THEN \E c \in bk.installed :
              /\ disk' = [disk EXCEPT ![c] = NotThere]
              /\ bk' = [bk EXCEPT !.installed = @ \ {c}]
              /\ UNCHANGED kept
       ELSE IF bk.moved # {}
       THEN \E c \in bk.moved :
              /\ IF Present(c) THEN UNCHANGED <<disk, kept>>
                 ELSE /\ disk' = [disk EXCEPT ![c] = bk.before[c]]
                      /\ kept' = [kept EXCEPT ![c] = @ \ {bk.before[c]}]
              /\ bk' = [bk EXCEPT !.moved = @ \ {c}]
       ELSE BackupGoto("failed") /\ UNCHANGED <<disk, kept>>
  /\ UNCHANGED <<archives, alive, putting, submitting, bkUsed>>

\* The undo fails in its turn, in a deletion or in a move back: the rest of it is
\* not done.
UndoFails ==
  /\ bk.pc = "undo" /\ bk.installed \cup bk.moved # {} /\ BackupFails
  /\ BackupGoto("failed")
  /\ \/ UNCHANGED disk
     \/ \E c \in IF bk.installed # {} THEN bk.installed ELSE {d \in bk.moved : ~Present(d)} :
          disk' = [disk EXCEPT ![c] = PartCopied]
  /\ UNCHANGED <<kept, archives, alive, putting, submitting>>

\* The error is reported.
RestoreRaises ==
  /\ bk.pc = "failed" /\ bk' = NoBackup
  /\ UNCHANGED <<disk, kept, archives, alive, putting, submitting, bkUsed>>

-----------------------------------------------------------------------------
\* The backup process is killed, or an archive is damaged.
BackupFault ==
  /\ BackupFails
  /\ \/ /\ Creating \/ Restoring
        /\ bk' = NoBackup /\ UNCHANGED archives
     \/ /\ \E a \in archives, c \in Components :
             archives' = (archives \ {a}) \cup {[a EXCEPT !.state[c] = Garbled]}
        /\ UNCHANGED bk
  /\ UNCHANGED <<disk, kept, alive, putting, submitting>>

BackupNext ==
  \/ Writers \/ BackupFault
  \/ \E b \in BOOLEAN : CreateBackup(b) \/ \E a \in archives : RestoreBackup(a, b)
  \/ SnapshotEvidence \/ SnapshotKnowledge \/ CheckLive \/ CopyControl \/ WriteArchive
  \/ MoveAside \/ MoveFails \/ Install \/ InstallFails \/ Undo \/ UndoFails \/ RestoreRaises

BackupSpec == BackupInit /\ [][BackupNext]_backupVars
-----------------------------------------------------------------------------
\* An archive that verifies can be relied on, although the programs went on
\* writing: every object its index names is in it, and no item carries a number
\* that its control.json will give away again.
ArchiveComplete ==
  \A a \in {b \in archives : Verified(b)} :
    /\ a.state["evidence"] # NotThere =>
         a.state["evidence"].db \subseteq a.state["evidence"].objects
    /\ a.state["control"] # NotThere =>
         \A i \in a.state["control"].items : i < a.state["control"].next

\* "--force moves the existing component directories into a safety directory ...
\* not automatically deleted" (BACKUP_RESTORE.md): whatever fails, or is killed and
\* tried again, no component that was there before a restore disappears from both
\* its place and what is kept, and nothing damaged is installed.  When a restore
\* reports an error, every old component is in its place or kept; if the undo ran
\* to its end, it is in its place, unless a failed move left something there.
NothingLost ==
  /\ \A c \in Components :
       /\ disk'[c] # Garbled
       /\ disk[c] \notin {disk'[c], NotThere, PartCopied} =>
            \/ disk[c] \in kept'[c] \/ c \in bk.installed
            \/ ~Restoring /\ disk'[c] # NotThere
       /\ kept[c] \ kept'[c] \subseteq {disk'[c]}
  /\ bk.pc # "failed" /\ bk'.pc = "failed" =>
       \A c \in Components :
         \/ disk'[c] = bk.before[c]
         \/ bk.before[c] \in kept'[c] \cup {NotThere, PartCopied}
            /\ (bk.pc = "undo" /\ bk.installed \cup bk.moved = {} => c \in bk.inway)

\* Every step of a backup or a restore keeps both promises: archives that verify are
\* complete, and a restore loses nothing (create_backup, restore_backup).
BackupSafe == [][ArchiveComplete' /\ NothingLost]_backupVars
=============================================================================
