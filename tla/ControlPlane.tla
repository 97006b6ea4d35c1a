---------------------------- MODULE ControlPlane ----------------------------
(***************************************************************************)
(* ppc-lab-control: a durable queue of scheduler runs kept as one JSON     *)
(* file per item, the `serve` loop that dispatches and reaps them, and the *)
(* command-line clients that edit the same files behind its back.          *)
(*                                                                         *)
(* Every write_json is atomic (temporary file plus os.replace); what is    *)
(* not atomic is a handler: it reads an item, works on its own copy and    *)
(* writes the whole copy back one or more steps later.  Each such write is *)
(* a step of its own here, so any other actor may run in between, and the  *)
(* supervisor may die there.                                               *)
(*                                                                         *)
(* ServerLock models who may be the supervisor; here there is one.         *)
(* Submission models `submit` in detail; here it is a single step.         *)
(***************************************************************************)
EXTENDS Integers, Sequences, FiniteSets

CONSTANTS
  Ids,          \* queue item ids (numbers: the last tie break of choose_queued)
  Prio,         \* Prio[i]: the priority item i is submitted with
  Pids,         \* scheduler processes that may be started; pids are not reused
  Clients,      \* concurrently running command-line invocations
  MaxActive,    \* --max-active
  UntilIdle,    \* --until-idle
  Commands,     \* the commands clients use
  Racing,       \* those of them that may overlap an iteration of serve; the
                \* others run only while serve sleeps or is down
  CrashPoints,  \* where the supervisor may be killed
  MaxCrash, MaxSignal, MaxCommand, MaxEdit,   \* bounds on the environment
  MaxTotal      \* and on all of its events together

AllCommands == {"cancel", "cancel-all", "pause", "resume", "drain"}
SvLabels == {"down", "recover", "top", "cancel", "reap", "dispatch",
             "launched", "telemetry"}
Steps == {"none", "save", "append", "mark"}

ASSUME IdsAssumption == Ids \subseteq Nat \ {0} /\ IsFiniteSet(Ids) /\ Prio \in [Ids -> Int]
ASSUME MaxActiveAssumption == MaxActive \in Nat \ {0}     \* command_serve checks it
ASSUME SwitchAssumption ==
  /\ UntilIdle \in BOOLEAN
  /\ Racing \subseteq Commands /\ Commands \subseteq AllCommands
  /\ CrashPoints \subseteq SvLabels \cup Steps
ASSUME BoundAssumption == {MaxCrash, MaxSignal, MaxCommand, MaxEdit, MaxTotal} \subseteq Nat

Server == "server"
Actors == Clients \cup {Server}
NoPid  == 0            \* no pid recorded (proc_alive takes 0 for dead)
ASSUME ActorAssumption == Server \notin Clients /\ Pids \subseteq Nat \ {0}

VARIABLES
  queue,       \* queue/<id>.json; status "absent": no such file
  nextSeq,     \* next_seq of control.json
  markers,     \* which of PAUSE, DRAIN, CANCEL exist in the control root
  history,     \* history[i]: the statuses in i's lines of history.ndjson
  runCancel,   \* items whose run_out holds a CANCEL marker
  edited,      \* items whose manifest file was changed after submission
  proc,        \* the scheduler processes
  sv,          \* where serve is
  active,      \* serve: active[i] is the live child's pid, or NoPid
  stop,        \* serve: set by on_signal
  seen,        \* serve: markers as read at the top of the iteration
  unpolled,    \* serve: active items the reap loop has not looked at yet
  cl,          \* the command each client is executing, or "idle"
  item,        \* the local variable `item` of each actor
  rest,        \* rest of the list each actor got from load_items
  step,        \* what an actor does with `item` next: save_item, then the two
               \* writes of archive_terminal
  late,        \* ghost: launches made since a stop marker appeared
  used         \* environment events so far (bounds)

disk == <<queue, nextSeq, markers, history, runCancel, edited>>
svVars == <<sv, active, stop, seen, unpolled>>
hands == <<item, rest, step>>
vars == <<disk, proc, svVars, cl, hands, late, used>>

Terminal == {"complete", "failed", "cancelled"}
Status == Terminal \cup {"absent", "queued", "running", "orphaned"}
Items == [id : Ids, status : Status, seq : Nat,
          pid : Pids \cup {NoPid}, creq : BOOLEAN, hw : BOOLEAN]
NoItem(i) == [id |-> i, status |-> "absent", seq |-> 0, pid |-> NoPid,
              creq |-> FALSE, hw |-> FALSE]
ProcStates == {"unborn", "alive", "ok", "bad", "killed"}

TypeOK ==
  /\ queue \in [Ids -> Items] /\ \A i \in Ids : queue[i].id = i
  /\ nextSeq \in Nat
  /\ markers \subseteq {"PAUSE", "DRAIN", "CANCEL"}
  /\ history \in [Ids -> Seq(Terminal)]
  /\ runCancel \subseteq Ids /\ edited \subseteq Ids
  /\ proc \in [Pids -> [item : Ids \cup {0}, st : ProcStates]]
  /\ sv \in SvLabels /\ active \in [Ids -> Pids \cup {NoPid}]
  /\ stop \in BOOLEAN /\ seen \subseteq {"PAUSE", "DRAIN", "CANCEL"}
  /\ unpolled \subseteq Ids
  /\ cl \in [Clients -> Commands \cup {"idle"}]
  /\ item \in [Actors -> Items \cup {NoItem(0)}] /\ rest \in [Actors -> SUBSET Items]
  /\ step \in [Actors -> Steps]
  /\ late \in Nat /\ used \in [{"crash", "signal", "command", "edit"} -> Nat]

-----------------------------------------------------------------------------
(* Helpers *)

Alive(p) == p \in Pids /\ proc[p].st = "alive"
Kill(p) == IF Alive(p) THEN [proc EXCEPT ![p].st = "killed"] ELSE proc
Fresh(p) == \A q \in Pids : proc[q].st = "unborn" <=> q >= p    \* next pid
load_items == {queue[i] : i \in {j \in Ids : queue[j].status # "absent"}}
ActiveIds == {i \in Ids : active[i] # NoPid}

\* The sort key of choose_queued: priority down, then sequence, then id.
Before(c, d) ==
  \/ Prio[c.id] > Prio[d.id]
  \/ Prio[c.id] = Prio[d.id] /\ c.seq < d.seq
  \/ Prio[c.id] = Prio[d.id] /\ c.seq = d.seq /\ c.id < d.id

Queued == {c \in load_items : c.status = "queued"}

\* choose_queued: the items it may return (one, or none).
choose_queued == {c \in Queued : \A d \in Queued \ {c} : Before(c, d)}

\* The supervisor waits while a command that must not race it is running, and
\* such a command starts only between two iterations.
SvTurn == \A c \in Clients : cl[c] \in Racing \cup {"idle"}
Quiet == sv \in {"down", "top"}

Hold(a, it, s) == item' = [item EXCEPT ![a] = it] /\ step' = [step EXCEPT ![a] = s]
Drop(a) == Hold(a, NoItem(0), "none")

-----------------------------------------------------------------------------
(* Writing an item back: save_item and archive_terminal, for every actor *)

\* What follows the last write to an item.  The reap loop deletes it from
\* `active`; nobody else has anything to do.
Finish(a) ==
  /\ Drop(a)
  /\ active' = IF a = Server /\ sv = "reap"
                 THEN [active EXCEPT ![item[a].id] = NoPid] ELSE active

\* save_item; archive_terminal returns at once when history_written is set, and
\* is not called for the cancel request of a running item.
SaveItem(a) ==
  /\ step[a] = "save" /\ (a = Server => SvTurn)
  /\ queue' = [queue EXCEPT ![item[a].id] = item[a]]
  /\ IF item[a].status \in Terminal /\ ~item[a].hw
       THEN Hold(a, item[a], "append") /\ UNCHANGED active
       ELSE Finish(a)
  /\ UNCHANGED <<nextSeq, markers, history, runCancel, edited, proc, sv, stop,
                 seen, unpolled, cl, rest, late, used>>

\* archive_terminal: append_jsonl (and the per-item history file).
AppendHistory(a) ==
  /\ step[a] = "append" /\ (a = Server => SvTurn)
  /\ history' = [history EXCEPT ![item[a].id] = Append(@, item[a].status)]
  /\ Hold(a, item[a], "mark")
  /\ UNCHANGED <<queue, nextSeq, markers, runCancel, edited, proc, svVars, cl,
                 rest, late, used>>

\* archive_terminal: history_written = True, save_item.
MarkArchived(a) ==
  /\ step[a] = "mark" /\ (a = Server => SvTurn)
  /\ queue' = [queue EXCEPT ![item[a].id] = [item[a] EXCEPT !.hw = TRUE]]
  /\ Finish(a)
  /\ UNCHANGED <<nextSeq, markers, history, runCancel, edited, proc, sv, stop,
                 seen, unpolled, cl, rest, late, used>>

-----------------------------------------------------------------------------
(* serve *)

\* At a loop head or between loops: nothing half written.
SvAt(l) == sv = l /\ step[Server] = "none" /\ SvTurn
SvGoto(l) == sv' = l

\* (mutant) recover_state is not called.
SvStart_norecover ==
  /\ SvAt("down")
  /\ SvGoto("recover")
  /\ stop' = FALSE /\ active' = [i \in Ids |-> NoPid]
  /\ UNCHANGED <<disk, proc, seen, unpolled, cl, hands, late, used>>

\* (mutant) recover_state does not skip the items that are not running.
SvStart_all ==
  /\ SvAt("down")
  /\ SvGoto("recover")
  /\ rest' = [rest EXCEPT ![Server] = load_items]
  /\ stop' = FALSE /\ active' = [i \in Ids |-> NoPid]
  /\ UNCHANGED <<disk, proc, seen, unpolled, cl, item, step, late, used>>

\* `serve` takes the lock and loads the items for recover_state.
SvStart ==
  /\ SvAt("down")
  /\ SvGoto("recover")
  /\ rest' = [rest EXCEPT ![Server] = {c \in load_items : c.status = "running"}]
  /\ stop' = FALSE /\ active' = [i \in Ids |-> NoPid]
  /\ UNCHANGED <<disk, proc, seen, unpolled, cl, item, step, late, used>>

\* (mutant) recover_state requeues without looking at the old process.
SvRecover_blind ==
  /\ SvAt("recover")
  /\ \E c \in rest[Server] :
       /\ queue' = [queue EXCEPT ![c.id] = [c EXCEPT !.status = "queued", !.pid = NoPid]]
       /\ rest' = [rest EXCEPT ![Server] = @ \ {c}]
  /\ UNCHANGED <<nextSeq, markers, history, runCancel, edited, proc, svVars, cl,
                 item, step, late, used>>

\* recover_state, one item: still alive -> orphaned, dead -> queued again.
SvRecover ==
  /\ SvAt("recover")
  /\ \E c \in rest[Server] :
       /\ queue' = [queue EXCEPT ![c.id] =
                      IF Alive(c.pid) THEN [c EXCEPT !.status = "orphaned"]
                                      ELSE [c EXCEPT !.status = "queued", !.pid = NoPid]]
       /\ rest' = [rest EXCEPT ![Server] = @ \ {c}]
  /\ UNCHANGED <<nextSeq, markers, history, runCancel, edited, proc, svVars, cl,
                 item, step, late, used>>

SvRecovered ==
  /\ SvAt("recover") /\ rest[Server] = {}
  /\ SvGoto("top")
  /\ UNCHANGED <<disk, proc, active, stop, seen, unpolled, cl, hands, late, used>>

\* Top of the loop: the three markers; with CANCEL, the items to cancel.
SvTop ==
  /\ SvAt("top")
  /\ seen' = markers \cup (IF stop THEN {"DRAIN"} ELSE {})
  /\ IF "CANCEL" \in markers
       THEN /\ SvGoto("cancel") /\ UNCHANGED unpolled
            /\ rest' = [rest EXCEPT ![Server] =
                 {c \in load_items : c.status \in {"queued", "running", "orphaned"}}]
       ELSE SvGoto("reap") /\ unpolled' = ActiveIds /\ UNCHANGED rest
  /\ UNCHANGED <<disk, proc, active, stop, cl, item, step, late, used>>

\* Global cancellation of one item; an orphan gets SIGTERM.
SvCancel ==
  /\ SvAt("cancel")
  /\ \E c \in rest[Server] :
       /\ rest' = [rest EXCEPT ![Server] = @ \ {c}]
       /\ IF c.status = "running"
            THEN runCancel' = runCancel \cup {c.id} /\ UNCHANGED <<proc, item, step>>
            ELSE /\ Hold(Server, [c EXCEPT !.status = "cancelled"], "save")
                 /\ proc' = IF c.status = "orphaned" THEN Kill(c.pid) ELSE proc
                 /\ UNCHANGED runCancel
  /\ UNCHANGED <<queue, nextSeq, markers, history, edited, svVars, cl, late, used>>

SvCancelled ==
  /\ SvAt("cancel") /\ rest[Server] = {}
  /\ SvGoto("reap") /\ unpolled' = ActiveIds
  /\ UNCHANGED <<disk, proc, active, stop, seen, cl, hands, late, used>>

\* (mutant) The reap loop forgets that a cancellation was asked for.
Outcome_forgets_cancel(c, p) == IF proc[p].st = "ok" THEN "complete" ELSE "failed"

\* The status a finished child's item gets.  "ok": exit code 0 and a summary
\* that is missing, complete or drained.
Outcome(c, p) ==
  IF c.creq \/ "CANCEL" \in seen THEN "cancelled"
  ELSE IF proc[p].st = "ok" THEN "complete" ELSE "failed"

\* (mutant) The end is archived before it is saved.
SvPoll_archive_first ==
  /\ SvAt("reap")
  /\ \E i \in unpolled :
       /\ unpolled' = unpolled \ {i}
       /\ IF Alive(active[i])
            THEN UNCHANGED <<item, step>>
            ELSE Hold(Server, [queue[i] EXCEPT !.status = Outcome(queue[i], active[i]),
                                               !.pid = NoPid], "append")
  /\ UNCHANGED <<disk, proc, sv, active, stop, seen, cl, rest, late, used>>

\* Reap loop, one active item: proc.poll(); a finished child's item is read
\* again and taken in hand with its outcome.
SvPoll ==
  /\ SvAt("reap")
  /\ \E i \in unpolled :
       /\ unpolled' = unpolled \ {i}
       /\ IF Alive(active[i])
            THEN UNCHANGED <<item, step>>
            ELSE Hold(Server, [queue[i] EXCEPT !.status = Outcome(queue[i], active[i]),
                                               !.pid = NoPid], "save")
  /\ UNCHANGED <<disk, proc, sv, active, stop, seen, cl, rest, late, used>>

SvReaped ==
  /\ SvAt("reap") /\ unpolled = {}
  /\ SvGoto(IF seen = {} THEN "dispatch" ELSE "telemetry")
  /\ UNCHANGED <<disk, proc, active, stop, seen, unpolled, cl, hands, late, used>>

\* sha256_file(manifest) == manifest_sha256; an unreadable file fails likewise.
HashMatches(i) == i \notin edited

\* Dispatch loop: choose_queued, the hash check, Popen.  A changed manifest
\* fails the item and the loop goes on.  (Popen touches no file another actor
\* reads, so nothing can tell the three apart.)
SvDispatch ==
  /\ SvAt("dispatch")
  /\ Cardinality(ActiveIds) < MaxActive
  /\ \E c \in choose_queued :
       IF HashMatches(c.id)
         THEN \E p \in Pids :
                /\ Fresh(p)
                /\ proc' = [proc EXCEPT ![p] = [item |-> c.id, st |-> "alive"]]
                /\ Hold(Server, [c EXCEPT !.status = "running", !.pid = p], "none")
                /\ SvGoto("launched")
                /\ late' = IF markers = {} THEN 0 ELSE late + 1
         ELSE /\ Hold(Server, [c EXCEPT !.status = "failed"], "save")
              /\ UNCHANGED <<proc, sv, late>>
  /\ UNCHANGED <<disk, active, stop, seen, unpolled, cl, rest, used>>

\* (mutant) The pid is not recorded with the running status.
SvSaveRunning_nopid ==
  /\ SvAt("launched")
  /\ queue' = [queue EXCEPT ![item[Server].id] = [item[Server] EXCEPT !.pid = NoPid]]
  /\ active' = [active EXCEPT ![item[Server].id] = item[Server].pid]
  /\ Drop(Server) /\ SvGoto("dispatch")
  /\ UNCHANGED <<nextSeq, markers, history, runCancel, edited, proc, stop, seen,
                 unpolled, cl, rest, late, used>>

\* save_item(status = running, pid), then the entry in `active`.
SvSaveRunning ==
  /\ SvAt("launched")
  /\ queue' = [queue EXCEPT ![item[Server].id] = item[Server]]
  /\ active' = [active EXCEPT ![item[Server].id] = item[Server].pid]
  /\ Drop(Server) /\ SvGoto("dispatch")
  /\ UNCHANGED <<nextSeq, markers, history, runCancel, edited, proc, stop, seen,
                 unpolled, cl, rest, late, used>>

SvDispatched ==
  /\ SvAt("dispatch")
  /\ Cardinality(ActiveIds) >= MaxActive \/ Queued = {}
  /\ SvGoto("telemetry")
  /\ UNCHANGED <<disk, proc, active, stop, seen, unpolled, cl, hands, late, used>>

\* (mutant) A drained supervisor waits for the queue to be empty too.
ExitNow_queue == ActiveIds = {} /\ Queued = {} /\ ("DRAIN" \in seen \/ UntilIdle)

\* The three exit tests; `queued` is counted by write_telemetry, afresh.
ExitNow ==
  ActiveIds = {} /\ \/ "DRAIN" \in seen \/ "CANCEL" \in seen
                    \/ UntilIdle /\ Queued = {}

\* write_telemetry, then exit (which releases the lock) or sleep.
SvTelemetry ==
  /\ SvAt("telemetry")
  /\ SvGoto(IF ExitNow THEN "down" ELSE "top")
  /\ seen' = {}
  /\ UNCHANGED <<disk, proc, active, stop, unpolled, cl, hands, late, used>>

SvStep ==
  \/ SvRecover \/ SvRecovered \/ SvTop \/ SvCancel \/ SvCancelled
  \/ SvPoll \/ SvReaped \/ SvDispatch \/ SvSaveRunning \/ SvDispatched
  \/ SvTelemetry
  \/ SaveItem(Server) \/ AppendHistory(Server) \/ MarkArchived(Server)

Spend(k, max) ==
  /\ used[k] < max
  /\ used["crash"] + used["signal"] + used["command"] + used["edit"] < MaxTotal
  /\ used' = [used EXCEPT ![k] = @ + 1]

\* on_signal: SIGINT or SIGTERM at any point; only children already entered in
\* `active` are terminated, and a scheduler has no handler of its own.
SvSignal ==
  /\ sv # "down" /\ Spend("signal", MaxSignal)
  /\ stop' = TRUE /\ markers' = markers \cup {"DRAIN"}
  /\ proc' = [p \in Pids |-> IF Alive(p) /\ \E i \in Ids : active[i] = p
                               THEN [proc[p] EXCEPT !.st = "killed"] ELSE proc[p]]
  /\ UNCHANGED <<queue, nextSeq, history, runCancel, edited, sv, active, seen,
                 unpolled, cl, hands, late>>

\* The supervisor is killed or an exception ends serve: memory is lost, the
\* children live on.
SvCrash ==
  /\ sv # "down" /\ Spend("crash", MaxCrash)
  /\ \/ step[Server] = "none" /\ sv \in CrashPoints
     \/ step[Server] # "none" /\ step[Server] \in CrashPoints
  /\ SvGoto("down") /\ Drop(Server)
  /\ rest' = [rest EXCEPT ![Server] = {}]
  /\ active' = [i \in Ids |-> NoPid] /\ unpolled' = {} /\ seen' = {} /\ stop' = FALSE
  /\ UNCHANGED <<disk, proc, cl, late>>

-----------------------------------------------------------------------------
(* Scheduler processes and the manifests they read *)

\* A scheduler ends: with a good result, or not.
ChildExit(p) ==
  /\ Alive(p)
  /\ \E r \in {"ok", "bad"} : proc' = [proc EXCEPT ![p].st = r]
  /\ UNCHANGED <<disk, svVars, cl, hands, late, used>>

\* Somebody edits a submitted manifest.
EditManifest(i) ==
  /\ queue[i].status # "absent" /\ i \notin edited /\ Spend("edit", MaxEdit)
  /\ edited' = edited \cup {i}
  /\ UNCHANGED <<queue, nextSeq, markers, history, runCancel, proc, svVars, cl, hands,
                 late>>

-----------------------------------------------------------------------------
(* Clients *)

\* command_submit with an explicit id (an existing file is an error).
Submit(i) ==
  /\ queue[i].status = "absent"
  /\ queue' = [queue EXCEPT ![i].status = "queued", ![i].seq = nextSeq]
  /\ nextSeq' = nextSeq + 1
  /\ UNCHANGED <<markers, history, runCancel, edited, proc, svVars, cl, hands, late, used>>

\* A client invocation begins.
Begin(c, cmd) ==
  /\ cl[c] = "idle" /\ cmd \in Commands /\ Spend("command", MaxCommand)
  /\ cmd \in Racing \/ (Quiet /\ step[Server] = "none" /\ SvTurn)

\* command_pause, command_drain: touch one marker.
Touch(c, cmd, m) ==
  /\ Begin(c, cmd)
  /\ markers' = markers \cup {m}
  /\ UNCHANGED <<queue, nextSeq, history, runCancel, edited, proc, svVars, cl, hands, late>>

\* command_resume: the three unlinks (PAUSE, DRAIN, CANCEL in that order: until
\* the last one serve behaves as if none had happened).
ClResume(c) ==
  /\ Begin(c, "resume")
  /\ markers' = {} /\ late' = 0
  /\ UNCHANGED <<queue, nextSeq, history, runCancel, edited, proc, svVars, cl, hands>>

\* command_cancel ITEM_ID: read the item; a queued one is to be cancelled, a
\* running one gets its run_out/CANCEL and a recorded request, an orphan
\* SIGTERM.  A terminal item is left alone.
ClCancel(c, i) ==
  /\ Begin(c, "cancel")
  /\ queue[i].status \in {"queued", "running", "orphaned"}
  /\ cl' = [cl EXCEPT ![c] = "cancel"]
  /\ IF queue[i].status = "running"
       THEN /\ Hold(c, [queue[i] EXCEPT !.creq = TRUE], "save")
            /\ runCancel' = runCancel \cup {i} /\ UNCHANGED proc
       ELSE /\ Hold(c, [queue[i] EXCEPT !.status = "cancelled"], "save")
            /\ proc' = IF queue[i].status = "orphaned" THEN Kill(queue[i].pid) ELSE proc
            /\ UNCHANGED runCancel
  /\ UNCHANGED <<queue, nextSeq, markers, history, edited, svVars, rest, late>>

\* command_cancel --all: touch CANCEL and load the items.
ClCancelAll(c) ==
  /\ Begin(c, "cancel-all")
  /\ cl' = [cl EXCEPT ![c] = "cancel-all"]
  /\ markers' = markers \cup {"CANCEL"}
  /\ rest' = [rest EXCEPT ![c] = {d \in load_items : d.status \in {"queued", "running"}}]
  /\ UNCHANGED <<queue, nextSeq, history, runCancel, edited, proc, svVars, item, step, late>>

\* ... and one of its items (orphans are left to serve).
ClCancelOne(c) ==
  /\ step[c] = "none"
  /\ \E d \in rest[c] :
       /\ rest' = [rest EXCEPT ![c] = @ \ {d}]
       /\ IF d.status = "running"
            THEN runCancel' = runCancel \cup {d.id} /\ UNCHANGED <<item, step>>
            ELSE Hold(c, [d EXCEPT !.status = "cancelled"], "save") /\ UNCHANGED runCancel
  /\ UNCHANGED <<queue, nextSeq, markers, history, edited, proc, svVars, cl, late, used>>

ClDone(c) ==
  /\ cl[c] # "idle" /\ step[c] = "none" /\ rest[c] = {}
  /\ cl' = [cl EXCEPT ![c] = "idle"]
  /\ UNCHANGED <<disk, proc, svVars, hands, late, used>>

ClStep(c) ==
  ClCancelOne(c) \/ ClDone(c) \/ SaveItem(c) \/ AppendHistory(c) \/ MarkArchived(c)

ClCommand(c) ==
  \/ Touch(c, "pause", "PAUSE") \/ Touch(c, "drain", "DRAIN") \/ ClResume(c)
  \/ ClCancelAll(c) \/ \E i \in Ids : ClCancel(c, i)

-----------------------------------------------------------------------------
Init ==
  /\ queue = [i \in Ids |-> NoItem(i)] /\ nextSeq = 1
  /\ markers = {} /\ history = [i \in Ids |-> <<>>]
  /\ runCancel = {} /\ edited = {}
  /\ proc = [p \in Pids |-> [item |-> 0, st |-> "unborn"]]
  /\ sv = "down" /\ active = [i \in Ids |-> NoPid]
  /\ stop = FALSE /\ seen = {} /\ unpolled = {}
  /\ cl = [c \in Clients |-> "idle"]
  /\ item = [a \in Actors |-> NoItem(0)] /\ rest = [a \in Actors |-> {}]
  /\ step = [a \in Actors |-> "none"]
  /\ late = 0 /\ used = [k \in {"crash", "signal", "command", "edit"} |-> 0]

Next ==
  \/ SvStart \/ SvStep \/ SvSignal \/ SvCrash
  \/ \E p \in Pids : ChildExit(p)
  \/ \E i \in Ids : Submit(i) \/ EditManifest(i)
  \/ \E c \in Clients : ClStep(c) \/ ClCommand(c)

Spec == Init /\ [][Next]_vars

\* serve and the clients run on (their only wait is a bounded sleep), a service
\* manager restarts serve, and every scheduler process ends.
FairSpec ==
  /\ Spec /\ WF_vars(SvStep) /\ WF_vars(SvStart)
  /\ \A c \in Clients : WF_vars(ClStep(c))
  /\ \A p \in Pids : WF_vars(ChildExit(p))

-----------------------------------------------------------------------------
(* Safety *)

Live(i) == {p \in Pids : Alive(p) /\ proc[p].item = i}

\* serve never has two schedulers of one queue item running at once, whatever
\* happened to earlier supervisors (recover_state, choose_queued, Popen).
OneLiveChildPerItem == \A i \in Ids : \A p, q \in Live(i) : p = q

\* A live scheduler is always reachable through the queue: its item says running
\* or orphaned and names its pid, so that recover_state and cancel find it.  The
\* only exception is the child serve is just about to record.
NoUntrackedChild ==
  \A i \in Ids : \A p \in Live(i) :
    \/ queue[i].status \in {"running", "orphaned"} /\ queue[i].pid = p
    \/ sv = "launched" /\ item[Server].pid = p

\* Nobody is between the writes that end an item.
BetweenWrites == \A a \in Actors : step[a] = "none"

\* The ended items without a line: nothing will archive them any more.
Unrecorded == {i \in Ids : queue[i].status \in Terminal /\ history[i] = <<>>}

\* Wherever serve is killed, the history is true: a line is about an item that ended
\* with that status, no item has a second one, and each kill costs at most one line
\* (the order of the writes in archive_terminal, history_written).  "Appended exactly
\* once" (CONTROL_PLANE.md) is true but for such a kill, after a saved end.
HistoryFaithful ==
  BetweenWrites =>
    /\ \A i \in Ids : history[i] # <<>> =>
         queue[i].status \in Terminal /\ history[i] = <<queue[i].status>>
    /\ Cardinality(Unrecorded) <= used["crash"]

\* While serve loops, an item that says running is one of its own children: no
\* zombie entry is left that no reap loop will ever settle.
RunningIsSupervised ==
  sv \notin {"down", "recover"} =>
    \A i \in Ids : queue[i].status = "running" => active[i] = queue[i].pid

\* After a PAUSE, DRAIN or CANCEL marker appears, serve starts at most as many
\* schedulers as the iteration under way still had slots for.
LateLaunchBound == late <= MaxActive

\* The supervisor's picture of its children is right at every step, its crashes and
\* restarts included: none is forgotten, none is believed to run that does not,
\* and a marker is overtaken by no more launches than the slots allow.
ChildrenAccounted == NoUntrackedChild /\ RunningIsSupervised /\ LateLaunchBound

-----------------------------------------------------------------------------
(* Action properties *)

\* A terminal status is final: no later write, of whatever stale copy, revives or
\* rewrites it.
TerminalStays ==
  [][\A i \in Ids : queue[i].status \in Terminal => queue'[i].status = queue[i].status]_queue

\* A recorded cancel request survives recovery and relaunch, and such an item
\* never becomes complete (command_cancel, recover_state, the reap loop).
CancelSticks ==
  [][\A i \in Ids : queue[i].creq => queue'[i].creq /\ queue'[i].status # "complete"]_queue

-----------------------------------------------------------------------------
(* Liveness *)

\* A drained supervisor exits: once DRAIN stays in place, serve goes down, with
\* queued items still queued.
DrainStops == [](([]("DRAIN" \in markers)) => <>(sv = "down"))

\* Submitted work gets done: an item is not queued or running for ever unless
\* dispatch is switched off for ever.
QueuedSettles ==
  \A i \in Ids :
    (queue[i].status \in {"queued", "running"} /\ [](markers = {}))
      ~> queue[i].status \in Terminal \cup {"orphaned"}
=============================================================================
