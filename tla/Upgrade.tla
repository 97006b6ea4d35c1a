------------------------------ MODULE Upgrade ------------------------------
(***************************************************************************)
(* ppc-lab-upgrade: apply a source release over the repository, file by    *)
(* file, and roll back to the snapshot taken before.  The command may fail *)
(* or be killed between any two file operations; what is left is a tree    *)
(* that is part one release and part another, the rollback archive and the *)
(* transaction record.                                                     *)
(*                                                                         *)
(* A file is its place in the sorted list of names, its content the        *)
(* release it came from; -f is the temporary copy of f.  One command runs  *)
(* at a time.                                                              *)
(***************************************************************************)
EXTENDS Integers, FiniteSets

CONSTANTS
  Archives,      \* the release archives
  Holds,         \* [Archives -> what the archive holds and its manifest says]
  FirstRelease,  \* the release that is installed at first
  VersionFile,   \* CMakeLists.txt
  Channel,       \* [major, prerelease, downgrade, pin]: the channel's policy
  NoPin, TornZip, TornTx,
  ReapplyTorn,   \* TRUE: apply may be run on a tree that an earlier command tore
  MaxUpCommands, MaxUpFaults   \* bounds

UpTree(r) == [f \in Holds[r].files |-> r]
Whole(t) == \E r \in Archives : t = UpTree(r)

UpStatuses == {"prepared", "applied", "rolled-back", "rolled-back-after-failure"}
UpRecords == [status : UpStatuses, from : {Holds[r].cmake : r \in Archives},
              hash : {UpTree(r) : r \in Archives}]

ASSUME UpgradeAssumption ==
  /\ ReapplyTorn \in BOOLEAN /\ FirstRelease \in Archives
  /\ \A r \in Archives : VersionFile \in Holds[r].files /\ Holds[r].files \subseteq Nat \ {0}
  /\ TornZip \notin {UpTree(r) : r \in Archives} /\ TornTx \notin UpRecords

VARIABLES
  tree,    \* the repository: [names present -> the release the content is from]
  zips,    \* [transaction ids written -> a tree or TornZip]: rollback archives
  txs,     \* [transaction ids written -> [status, from, hash] or TornTx]
  up,      \* the command: [pc, op, tx, src, status, todo]
  upUsed   \* [command, fault]

upVars == <<tree, zips, txs, up, upUsed>>

NoUp == [pc |-> "idle", op |-> "none", tx |-> <<>>, src |-> <<>>, status |-> "none", todo |-> {}]

UpInit ==
  /\ tree = UpTree(FirstRelease) /\ zips = <<>> /\ txs = <<>>
  /\ up = NoUp /\ upUsed = [command |-> 0, fault |-> 0]

\* project_version: what CMakeLists.txt says, which need not be what the manifest
\* of its archive says.
Installed(t) == Holds[t[VersionFile]]

-----------------------------------------------------------------------------
(* preflight.                                                              *)
\* channel_errors
ChannelAllows(r) ==
  LET new == Holds[r] IN
  /\ new.major = Channel.major
  /\ new.prerelease => Channel.prerelease
  /\ new.version < Installed(tree).cmake => Channel.downgrade
  /\ Channel.pin \in {NoPin, new.version}

\* compat_errors: nothing the installed release offers is taken away.
Compatible(r) ==
  LET new == Holds[r]  cur == Installed(tree) IN
  /\ new.major = cur.major
  /\ cur.surface \subseteq new.surface
  /\ new.format >= cur.format

\* release_doc: the members are what the manifest lists.
Preflight(r) == Holds[r].intact /\ ChannelAllows(r) /\ Compatible(r)

-----------------------------------------------------------------------------
Put(f, k, v) == [x \in DOMAIN f \cup {k} |-> IF x = k THEN v ELSE f[x]]
Drop(f, k) == [x \in DOMAIN f \ {k} |-> f[x]]

MayRun ==
  /\ up.pc \in {"idle", "ok"} /\ upUsed.command < MaxUpCommands
  /\ upUsed' = [upUsed EXCEPT !.command = @ + 1]

\* apply_release: once past preflight, the rollback archive is opened for writing,
\* which empties one that is there already.
UpApply(r) ==
  LET id == <<Installed(tree).cmake, r>> IN
  /\ MayRun /\ (ReapplyTorn \/ Whole(tree))
  /\ VersionFile \in DOMAIN tree /\ Preflight(r)
  /\ zips' = Put(zips, id, TornZip)
  /\ up' = [pc |-> "snapshot", op |-> "apply", tx |-> id, src |-> UpTree(r),
            status |-> "prepared", todo |-> {}]
  /\ UNCHANGED <<tree, txs>>

\* (mutant) The files are replaced before the transaction is recorded.
UpSnapshot_unrecorded ==
  /\ up.pc = "snapshot"
  /\ zips' = [zips EXCEPT ![up.tx] = tree]
  /\ up' = [up EXCEPT !.pc = "remove", !.status = "applied"]
  /\ UNCHANGED <<tree, txs, upUsed>>

\* snapshot_tree: every managed file.
UpSnapshot ==
  /\ up.pc = "snapshot"
  /\ zips' = [zips EXCEPT ![up.tx] = tree]
  /\ up' = [up EXCEPT !.pc = "record"]
  /\ UNCHANGED <<tree, txs, upUsed>>

\* write_text empties the record and writes it.  What comes next depends on what
\* the record says.
UpRecord ==
  \/ /\ up.pc = "record"
     /\ txs' = Put(txs, up.tx, TornTx)
     /\ up' = [up EXCEPT !.pc = "recorded"]
     /\ UNCHANGED <<tree, zips, upUsed>>
  \/ /\ up.pc = "recorded"
     /\ txs' = [txs EXCEPT ![up.tx] =
                  [status |-> up.status, from |-> up.tx[1], hash |-> zips[up.tx]]]
     /\ up' = CASE up.status = "prepared" -> [up EXCEPT !.pc = "remove", !.status = "applied"]
                [] up.status = "rolled-back-after-failure" -> NoUp
                [] OTHER -> [up EXCEPT !.pc = "ok"]
     /\ UNCHANGED <<tree, zips, upUsed>>

\* replace_from_dir: the managed files that the source lacks are removed ...
UpRemove ==
  LET obsolete == DOMAIN tree \ DOMAIN up.src IN
  /\ up.pc = "remove"
  /\ IF obsolete # {}
       THEN \E f \in obsolete : tree' = Drop(tree, f) /\ UNCHANGED up
       ELSE up' = [up EXCEPT !.pc = "copy", !.todo = DOMAIN up.src] /\ UNCHANGED tree
  /\ UNCHANGED <<zips, txs, upUsed>>

\* ... and the source's files put in place in order, each copied beside its place
\* and renamed.
UpCopy ==
  LET f == CHOOSE x \in up.todo : \A y \in up.todo : x <= y IN
  /\ up.pc = "copy" /\ up.todo # {}
  /\ IF -f \notin DOMAIN tree
       THEN tree' = Put(tree, -f, up.src[f]) /\ UNCHANGED up
       ELSE /\ tree' = Put(Drop(tree, -f), f, up.src[f])
            /\ up' = [up EXCEPT !.todo = @ \ {f}]
  /\ UNCHANGED <<zips, txs, upUsed>>

\* restore_snapshot begins, for apply's except clause.
UpGiveUp == [up EXCEPT !.pc = "remove", !.src = zips[up.tx],
                       !.status = "rolled-back-after-failure", !.todo = {}]

\* The version check of apply, with its except clause, and that of rollback.
UpCheck ==
  /\ up.pc = "copy" /\ up.todo = {}
  /\ up' = CASE up.status = "applied" /\ Installed(tree).cmake # Holds[up.tx[2]].version -> UpGiveUp
             [] up.status = "rolled-back" /\ Installed(tree).cmake # up.tx[1] -> NoUp
             [] OTHER -> [up EXCEPT !.pc = "record"]
  /\ UNCHANGED <<tree, zips, txs, upUsed>>

\* rollback: a readable record whose archive is still the one it names.
UpRollback(id) ==
  /\ MayRun /\ id \in DOMAIN txs /\ txs[id] # TornTx /\ zips[id] = txs[id].hash
  /\ up' = [pc |-> "remove", op |-> "rollback", tx |-> id, src |-> zips[id],
            status |-> "rolled-back", todo |-> {}]
  /\ UNCHANGED <<tree, zips, txs>>

\* An operation on a file fails: inside apply's try the snapshot is restored,
\* anywhere else the command ends.
UpFail ==
  /\ up.pc \in {"snapshot", "record", "remove", "copy"} /\ upUsed.fault < MaxUpFaults
  /\ upUsed' = [upUsed EXCEPT !.fault = @ + 1]
  /\ up' = IF up.status = "applied" /\ up.pc \in {"remove", "copy"} THEN UpGiveUp ELSE NoUp
  /\ UNCHANGED <<tree, zips, txs>>

\* The command is killed.
UpKill ==
  /\ up.pc \notin {"idle", "ok"} /\ upUsed.fault < MaxUpFaults
  /\ upUsed' = [upUsed EXCEPT !.fault = @ + 1]
  /\ up' = NoUp
  /\ UNCHANGED <<tree, zips, txs>>

UpNext ==
  \/ \E r \in Archives : UpApply(r)
  \/ \E id \in DOMAIN txs : UpRollback(id)
  \/ UpSnapshot \/ UpRecord \/ UpRemove \/ UpCopy \/ UpCheck \/ UpFail \/ UpKill

UpSpec == UpInit /\ [][UpNext]_upVars
-----------------------------------------------------------------------------
\* "Before changing managed source files, apply creates a SHA-256-pinned rollback
\* ZIP" (UPGRADE_ROLLBACK.md): whenever a command was cut short and the tree is a
\* mixture, some transaction is readable, its archive is the one it names and holds
\* one whole release, of the version the record says; and a command that reports
\* success leaves exactly the release it was for, without stray files.
UpgradeRecoverable ==
  /\ up.pc = "idle" /\ ~Whole(tree) =>
       \E id \in DOMAIN txs :
         /\ txs[id] # TornTx /\ zips[id] = txs[id].hash
         /\ zips[id] # TornZip /\ Whole(zips[id]) /\ Installed(zips[id]).cmake = txs[id].from
  /\ up.pc = "ok" => tree = up.src /\ Whole(tree)
=============================================================================
