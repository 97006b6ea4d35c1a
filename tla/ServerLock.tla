----------------------------- MODULE ServerLock -----------------------------
(***************************************************************************)
(* The single-supervisor lock of ppc-lab-control: acquire_lock, taken by   *)
(* serve before it does anything else, and the unlink in serve's finally   *)
(* block.  SERVER.lock is an ordinary file.  A supervisor looks at it,     *)
(* removes it when the recorded pid is dead or unreadable, creates it with *)
(* O_EXCL and only then writes its own pid into it: six file operations    *)
(* that other supervisors may interleave with.                             *)
(*                                                                         *)
(* A supervisor process is its pid; a pid is used once (no pid reuse).     *)
(***************************************************************************)
EXTENDS Naturals

CONSTANTS
  Procs,        \* pids of the supervisor processes that may be started
  SerialStart   \* TRUE: nobody starts `serve` while another acquire_lock is
                \* in progress (an environment assumption, not code)

ASSUME SerialStartAssumption == SerialStart \in BOOLEAN

VARIABLES
  at,     \* where each process is
  lock,   \* SERVER.lock: Absent, or the file some process created
  seen    \* the pid acquire_lock read from the file (NoPid: none or unreadable)

lockVars == <<at, lock, seen>>

NoPid  == "no pid"
Absent == [creator |-> NoPid, written |-> FALSE]

\* The file at the path: who created that inode, and whether its JSON is in.
LockFile == {Absent} \cup [creator : Procs, written : BOOLEAN]

Acquiring == {"exists", "read", "judge", "unlink", "create", "write"}
Gone      == {"down", "rejected", "stopped", "dead"}

LockTypeOK ==
  /\ at \in [Procs -> Acquiring \cup Gone \cup {"serving"}]
  /\ lock \in LockFile
  /\ seen \in [Procs -> Procs \cup {NoPid}]

\* (mutant) The liveness probe reports every pid dead.
proc_alive_never(q) == FALSE

\* proc_alive: os.kill(pid, 0) succeeds; pid 0 counts as dead.
proc_alive(q) == q \in Procs /\ at[q] \notin Gone

-----------------------------------------------------------------------------
LockInit ==
  /\ at = [p \in Procs |-> "down"]
  /\ lock = Absent
  /\ seen = [p \in Procs |-> NoPid]

LockGoto(p, l) == at' = [at EXCEPT ![p] = l]

\* The operator (or the service manager) runs `ppc-lab-control serve`.
Start(p) ==
  /\ at[p] = "down"
  /\ SerialStart => \A q \in Procs : at[q] \notin Acquiring
  /\ LockGoto(p, "exists")
  /\ UNCHANGED <<lock, seen>>

\* `if lock.exists()`
CheckExists(p) ==
  /\ at[p] = "exists"
  /\ LockGoto(p, IF lock = Absent THEN "create" ELSE "read")
  /\ UNCHANGED <<lock, seen>>

\* read_json(lock): a missing or still empty file raises, which counts as pid 0.
ReadLock(p) ==
  /\ at[p] = "read"
  /\ seen' = [seen EXCEPT ![p] = IF lock.written THEN lock.creator ELSE NoPid]
  /\ LockGoto(p, "judge")
  /\ UNCHANGED lock

\* A live owner rejects the newcomer; anything else is a stale lock.
JudgeOwner(p) ==
  /\ at[p] = "judge"
  /\ LockGoto(p, IF proc_alive(seen[p]) THEN "rejected" ELSE "unlink")
  /\ UNCHANGED <<lock, seen>>

\* (mutant) A stale lock is detected but not removed.
UnlinkStale_skipped(p) ==
  /\ at[p] = "unlink"
  /\ LockGoto(p, "create")
  /\ UNCHANGED <<lock, seen>>

\* lock.unlink(missing_ok=True): removes whatever is at the path by now.
UnlinkStale(p) ==
  /\ at[p] = "unlink"
  /\ lock' = Absent
  /\ LockGoto(p, "create")
  /\ UNCHANGED seen

\* os.open(O_CREAT | O_EXCL): an existing file raises OSError and serve exits 2.
CreateLock(p) ==
  /\ at[p] = "create"
  /\ IF lock = Absent
       THEN lock' = [creator |-> p, written |-> FALSE] /\ LockGoto(p, "write")
       ELSE UNCHANGED lock /\ LockGoto(p, "rejected")
  /\ UNCHANGED seen

\* json.dump into the descriptor: if another process has unlinked the file in
\* the meantime, the pid goes into an inode nobody will ever read.
WriteLock(p) ==
  /\ at[p] = "write"
  /\ lock' = IF lock.creator = p THEN [lock EXCEPT !.written = TRUE] ELSE lock
  /\ LockGoto(p, "serving")
  /\ UNCHANGED seen

\* serve returns or raises: `finally: lock.unlink(missing_ok=True)`.
Release(p) ==
  /\ at[p] = "serving"
  /\ lock' = Absent
  /\ LockGoto(p, "stopped")
  /\ UNCHANGED seen

\* SIGKILL, power loss, or a signal before serve installed its handlers.
Crash(p) ==
  /\ at[p] \notin Gone
  /\ LockGoto(p, "dead")
  /\ UNCHANGED <<lock, seen>>

AcquireStep(p) ==
  \/ CheckExists(p) \/ ReadLock(p) \/ JudgeOwner(p)
  \/ UnlinkStale(p) \/ CreateLock(p) \/ WriteLock(p)

LockNext == \E p \in Procs : Start(p) \/ AcquireStep(p) \/ Release(p) \/ Crash(p)

LockSpec == LockInit /\ [][LockNext]_lockVars

-----------------------------------------------------------------------------
(* Properties *)

\* No two supervisors run the serve loop of one control root at a time
\* (acquire_lock, serve).
MutualExclusion ==
  \A p, q \in Procs : at[p] = "serving" /\ at[q] = "serving" => p = q

\* What a crashed supervisor left behind never keeps the next one out: a
\* process that finds nobody alive when it starts ends up serving (or dies).
StaleLockReplaced ==
  \A p \in Procs :
    (at[p] = "exists" /\ \A q \in Procs \ {p} : ~proc_alive(q))
      ~> at[p] \in {"serving", "stopped", "dead"}
=============================================================================
