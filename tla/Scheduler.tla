------------------------------ MODULE Scheduler ------------------------------
(***************************************************************************)
(* ppc-lab-schedule: runs the campaigns of one manifest under project      *)
(* caps, quotas and weighted fair share, checkpointing state.json after    *)
(* every decision.  `state` is the dictionary in memory, `saved` the file. *)
(* The scheduler may be killed at any point and started again with         *)
(* --resume; its campaign processes may or may not die with it.            *)
(*                                                                         *)
(* Campaigns and projects are numbers in manifest order.  Wall clocks are  *)
(* abstracted to "the limit has been reached", which may happen at any     *)
(* poll of a campaign that has one (Timed, WallProjects).                  *)
(***************************************************************************)
EXTENDS Integers, FiniteSets, FiniteSetsExt

CONSTANTS
  Campaigns, Projects, ProjectOf,
  Priority, Reserve,            \* per campaign
  Weight, ProjectMax, Budget,   \* per project; Budget is -1 where there is none
  Timed, WallProjects,          \* campaigns, projects with wall_seconds
  GlobalMax,                    \* resources.max_concurrent
  Pids,                         \* pids of the campaign processes, not reused
  Survive,                      \* TRUE: campaigns outlive a killed scheduler
  MaxCrash, MaxMarks            \* bounds on the environment

NoPid == 0

\* validate_manifest: what the rest of the program may rely on.
ValidManifest ==
  /\ Campaigns \subseteq Nat \ {0} /\ Projects \subseteq Nat \ {0}
  /\ IsFiniteSet(Campaigns) /\ IsFiniteSet(Projects)
  /\ ProjectOf \in [Campaigns -> Projects]
  /\ Priority \in [Campaigns -> Int] /\ Reserve \in [Campaigns -> Nat]
  /\ Weight \in [Projects -> Nat \ {0}] /\ ProjectMax \in [Projects -> Nat \ {0}]
  /\ Budget \in [Projects -> Nat \cup {-1}]
  /\ Timed \subseteq Campaigns /\ WallProjects \subseteq Projects
  /\ GlobalMax \in Nat \ {0}

ASSUME ManifestAssumption == ValidManifest
ASSUME EnvironmentAssumption ==
  Survive \in BOOLEAN /\ Pids \subseteq Nat \ {0} /\ MaxCrash \in Nat /\ MaxMarks \in Nat

VARIABLES
  pc,         \* where the scheduler is
  state,      \* in memory: campaign records, project counters
  saved,      \* state.json; before it exists, what load_state creates
  running,    \* running[c]: the process handle of c, or NoPid
  unpolled,   \* running campaigns the poll loop has not looked at yet
  drained,    \* sticky: DRAIN was seen
  launched,   \* something was started in this iteration
  summary,    \* status in summary.json, or "none"
  proc,       \* campaign processes
  markers,    \* which of DRAIN, CANCEL exist
  cancel,     \* campaigns c with a file cancel/<c>
  used        \* environment events so far (bounds)

vars == <<pc, state, saved, running, unpolled, drained, launched, summary, proc,
          markers, cancel, used>>

Terminal == {"complete", "failed", "cancelled", "quota-blocked"}
Labels == {"down", "top", "poll", "launch", "popen", "check", "stopping", "deadlock"}
States == [status : [Campaigns -> Terminal \cup {"pending", "running"}],
           attempts : [Campaigns -> Nat],
           reserved : [Projects -> Nat], dispatched : [Projects -> Nat],
           overWall : SUBSET WallProjects]   \* elapsed_seconds >= wall_seconds
Summaries == {"complete", "complete-with-failures", "drained", "incomplete"}

TypeOK ==
  /\ pc \in Labels /\ state \in States /\ saved \in States
  /\ running \in [Campaigns -> Pids \cup {NoPid}] /\ unpolled \subseteq Campaigns
  /\ drained \in BOOLEAN /\ launched \in BOOLEAN /\ summary \in Summaries \cup {"none"}
  /\ proc \in [Pids -> [camp : Campaigns \cup {0},
                        st : {"unborn", "alive", "ok", "bad", "killed"}]]
  /\ markers \subseteq {"DRAIN", "CANCEL"} /\ cancel \subseteq Campaigns
  /\ used \in [{"crash", "marks"} -> Nat]

-----------------------------------------------------------------------------
(* Helpers *)

new_state ==
  [status |-> [c \in Campaigns |-> "pending"], attempts |-> [c \in Campaigns |-> 0],
   reserved |-> [p \in Projects |-> 0], dispatched |-> [p \in Projects |-> 0],
   overWall |-> {}]

Alive(q) == q \in Pids /\ proc[q].st = "alive"
Fresh(q) == \A r \in Pids : proc[r].st = "unborn" <=> r >= q   \* next pid to be used
Running == {c \in Campaigns : running[c] # NoPid}
RunningOf(p) == {c \in Running : ProjectOf[c] = p}
Pending(p) == {c \in Campaigns : ProjectOf[c] = p /\ state.status[c] = "pending"}

\* (mutant) The share is multiplied by the weight instead of divided.
LessServed_inverted(p, q) ==
  \/ state.dispatched[p] * Weight[p] < state.dispatched[q] * Weight[q]
  \/ state.dispatched[p] * Weight[p] = state.dispatched[q] * Weight[q] /\ p < q

\* dispatched / weight, lower first, then manifest order; cross-multiplied.
LessServed(p, q) ==
  \/ state.dispatched[p] * Weight[q] < state.dispatched[q] * Weight[p]
  \/ state.dispatched[p] * Weight[q] = state.dispatched[q] * Weight[p] /\ p < q

\* choose_next: the projects below their own cap that have work.
Eligible == {p \in Projects : Cardinality(RunningOf(p)) < ProjectMax[p] /\ Pending(p) # {}}

\* Higher priority first, then manifest order.
Ahead(c, d) == Priority[c] > Priority[d] \/ (Priority[c] = Priority[d] /\ c < d)

\* choose_next: the campaign it returns, if any.
choose_next ==
  {c \in Campaigns :
     \E p \in Eligible :
       /\ \A q \in Eligible \ {p} : LessServed(p, q)
       /\ c \in Pending(p) /\ \A d \in Pending(p) \ {c} : Ahead(c, d)}

\* (mutant) The reservation asked for is not counted.
quota_allows_late(c) ==
  LET p == ProjectOf[c] IN
  /\ Budget[p] = -1 \/ state.reserved[p] <= Budget[p]
  /\ p \notin state.overWall

\* quota_allows: the case budget and the project's wall budget.
quota_allows(c) ==
  LET p == ProjectOf[c] IN
  /\ Budget[p] = -1 \/ state.reserved[p] + Reserve[c] <= Budget[p]
  /\ p \notin state.overWall

\* elapsed_seconds += elapsed: the project's wall budget may be used up now.
Charged(s, c) ==
  {s} \cup {[s EXCEPT !.overWall = @ \cup {p}] : p \in {ProjectOf[c]} \cap WallProjects}

\* summary(): the status written at exit.
SummaryOf(s, d) ==
  LET has(st) == \E c \in Campaigns : s.status[c] = st IN
  IF d /\ has("pending") THEN "drained"
  ELSE IF has("running") \/ has("pending") THEN "incomplete"
  ELSE IF has("failed") \/ has("cancelled") THEN "complete-with-failures"
  ELSE "complete"

Goto(l) == pc' = l
SaveAs(s) == state' = s /\ saved' = s        \* write_json(state_path, state)
Exit(s, d) == Goto("down") /\ summary' = SummaryOf(s, d)
KillProc(q) == IF Alive(q) THEN [proc EXCEPT ![q].st = "killed"] ELSE proc

-----------------------------------------------------------------------------
(* The scheduler *)

\* (mutant) Interrupted work keeps its status.
Resumed_keeps(s) == s

\* (mutant) A resumed scheduler forgets quota decisions.
Resumed_reopens(s) ==
  [s EXCEPT !.status = [c \in Campaigns |->
     IF s.status[c] \in {"running", "quota-blocked"} THEN "pending" ELSE s.status[c]]]

\* load_state: interrupted work becomes pending again, the rest is kept.
Resumed(s) ==
  [s EXCEPT !.status = [c \in Campaigns |->
     IF s.status[c] = "running" THEN "pending" ELSE s.status[c]]]

\* Start or restart (with --resume when state.json exists).
Start ==
  /\ pc = "down"
  /\ SaveAs(Resumed(saved))
  /\ running' = [c \in Campaigns |-> NoPid] /\ unpolled' = {}
  /\ drained' = FALSE /\ launched' = FALSE
  /\ Goto("top")
  /\ UNCHANGED <<summary, proc, markers, cancel, used>>

\* Top of the loop: CANCEL terminates what runs and cancels what is pending.
\* Otherwise the poll loop begins.
Top ==
  /\ pc = "top"
  /\ IF "CANCEL" \in markers
       THEN /\ proc' = [q \in Pids |-> IF Alive(q) /\ \E c \in Running : running[c] = q
                                         THEN [proc[q] EXCEPT !.st = "killed"] ELSE proc[q]]
            /\ state' = [state EXCEPT !.status = [c \in Campaigns |->
                 IF c \in Running \/ state.status[c] = "pending" THEN "cancelled"
                                                                 ELSE state.status[c]]]
            /\ running' = [c \in Campaigns |-> NoPid]
            /\ Goto("stopping") /\ UNCHANGED unpolled
       ELSE unpolled' = Running /\ Goto("poll") /\ UNCHANGED <<proc, state, running>>
  /\ UNCHANGED <<saved, drained, launched, summary, markers, cancel, used>>

\* ... and the write that ends a global cancellation.
Stopping ==
  /\ pc = "stopping"
  /\ SaveAs(state) /\ Exit(state, drained)
  /\ UNCHANGED <<running, unpolled, drained, launched, proc, markers, cancel, used>>

\* (mutant) A cancelled campaign is struck off without being terminated.
PollCancelled_alive(c) ==
  /\ pc = "poll" /\ c \in unpolled /\ (c \in cancel \/ c \in Timed)
  /\ \E s \in Charged([state EXCEPT !.status[c] = "cancelled"], c) : SaveAs(s)
  /\ running' = [running EXCEPT ![c] = NoPid] /\ unpolled' = unpolled \ {c}
  /\ UNCHANGED <<pc, drained, launched, summary, proc, markers, cancel, used>>

\* Poll loop: the cancel marker or the wall limit stops a campaign, even one that
\* has just finished by itself.
PollCancelled(c) ==
  /\ pc = "poll" /\ c \in unpolled /\ (c \in cancel \/ c \in Timed)
  /\ proc' = KillProc(running[c])
  /\ \E s \in Charged([state EXCEPT !.status[c] = "cancelled"], c) : SaveAs(s)
  /\ running' = [running EXCEPT ![c] = NoPid] /\ unpolled' = unpolled \ {c}
  /\ UNCHANGED <<pc, drained, launched, summary, markers, cancel, used>>

\* Poll loop: proc.poll().
PollFinished(c) ==
  /\ pc = "poll" /\ c \in unpolled /\ c \notin cancel
  /\ ~Alive(running[c])
  /\ LET status == IF proc[running[c]].st = "ok" THEN "complete" ELSE "failed" IN
       \E s \in Charged([state EXCEPT !.status[c] = status], c) : SaveAs(s)
  /\ running' = [running EXCEPT ![c] = NoPid] /\ unpolled' = unpolled \ {c}
  /\ UNCHANGED <<pc, drained, launched, summary, proc, markers, cancel, used>>

PollAlive(c) ==
  /\ pc = "poll" /\ c \in unpolled /\ c \notin cancel
  /\ Alive(running[c])
  /\ unpolled' = unpolled \ {c}
  /\ UNCHANGED <<pc, state, saved, running, drained, launched, summary, proc, markers,
                 cancel, used>>

\* After the poll loop: DRAIN, and the exit of a drained scheduler.
Polled ==
  /\ pc = "poll" /\ unpolled = {}
  /\ drained' = (drained \/ "DRAIN" \in markers)
  /\ launched' = FALSE
  /\ IF drained' /\ Running = {} THEN Exit(state, TRUE)
                                 ELSE Goto("launch") /\ UNCHANGED summary
  /\ UNCHANGED <<state, saved, running, unpolled, proc, markers, cancel, used>>

\* Launch loop: the chosen campaign is cancelled, refused by a quota, or started;
\* the counters are charged when it is started.
Launch ==
  /\ pc = "launch" /\ ~drained /\ Cardinality(Running) < GlobalMax
  /\ \E c \in choose_next :
       IF c \in cancel \/ ~quota_allows(c)
         THEN /\ SaveAs([state EXCEPT !.status[c] =
                           IF c \in cancel THEN "cancelled" ELSE "quota-blocked"])
              /\ UNCHANGED <<pc, proc, running>>
         ELSE /\ \E q \in Pids :
                   /\ Fresh(q)
                   /\ proc' = [proc EXCEPT ![q] = [camp |-> c, st |-> "alive"]]
                   /\ running' = [running EXCEPT ![c] = q]
              /\ state' = [state EXCEPT !.status[c] = "running", !.attempts[c] = @ + 1,
                             !.reserved[ProjectOf[c]] = @ + Reserve[c],
                             !.dispatched[ProjectOf[c]] = @ + 1]
              /\ Goto("popen") /\ UNCHANGED saved
  /\ UNCHANGED <<unpolled, drained, launched, summary, markers, cancel, used>>

\* The write that follows a start.
Record ==
  /\ pc = "popen"
  /\ SaveAs(state) /\ launched' = TRUE /\ Goto("launch")
  /\ UNCHANGED <<running, unpolled, drained, summary, proc, markers, cancel, used>>

\* End of the launch loop.
Launched ==
  /\ pc = "launch"
  /\ drained \/ Cardinality(Running) >= GlobalMax \/ choose_next = {}
  /\ Goto("check")
  /\ UNCHANGED <<state, saved, running, unpolled, drained, launched, summary, proc,
                 markers, cancel, used>>

SomePending == \E p \in Projects : Pending(p) # {}

\* Finished, stuck ("scheduler deadlock"), or asleep until the next iteration.
Check ==
  /\ pc = "check"
  /\ IF Running = {} /\ ~SomePending THEN Exit(state, drained)
     ELSE /\ Goto(IF Running = {} /\ ~launched THEN "deadlock" ELSE "top")
          /\ UNCHANGED summary
  /\ UNCHANGED <<state, saved, running, unpolled, drained, launched, proc, markers,
                 cancel, used>>

SchedulerStep ==
  \/ Top \/ Stopping \/ Polled \/ Launch \/ Record \/ Launched \/ Check
  \/ \E c \in Campaigns : PollCancelled(c) \/ PollFinished(c) \/ PollAlive(c)

-----------------------------------------------------------------------------
(* The environment *)

Spend(k, max) == used[k] < max /\ used' = [used EXCEPT ![k] = @ + 1]

\* The scheduler is killed (it has no signal handler).
Crash ==
  /\ pc \notin {"down", "deadlock"} /\ Spend("crash", MaxCrash)
  /\ Goto("down") /\ state' = saved
  /\ running' = [c \in Campaigns |-> NoPid] /\ unpolled' = {}
  /\ drained' = FALSE /\ launched' = FALSE
  /\ proc' = [q \in Pids |-> IF Alive(q) /\ ~Survive
                               THEN [proc[q] EXCEPT !.st = "killed"] ELSE proc[q]]
  /\ UNCHANGED <<saved, summary, markers, cancel>>

CampaignExit(q) ==
  /\ Alive(q)
  /\ \E r \in {"ok", "bad"} : proc' = [proc EXCEPT ![q].st = r]
  /\ UNCHANGED <<pc, state, saved, running, unpolled, drained, launched, summary,
                 markers, cancel, used>>

\* Somebody creates or removes a control file.
Mark ==
  /\ Spend("marks", MaxMarks)
  /\ \/ /\ \E m \in {"DRAIN", "CANCEL"} \ markers : markers' = markers \cup {m}
        /\ UNCHANGED cancel
     \/ /\ "DRAIN" \in markers /\ markers' = markers \ {"DRAIN"}
        /\ UNCHANGED cancel
     \/ /\ \E c \in Campaigns \ cancel : cancel' = cancel \cup {c}
        /\ UNCHANGED markers
  /\ UNCHANGED <<pc, state, saved, running, unpolled, drained, launched, summary, proc>>

Init ==
  /\ pc = "down" /\ state = new_state /\ saved = new_state
  /\ running = [c \in Campaigns |-> NoPid] /\ unpolled = {}
  /\ drained = FALSE /\ launched = FALSE /\ summary = "none"
  /\ proc = [q \in Pids |-> [camp |-> 0, st |-> "unborn"]]
  /\ markers = {} /\ cancel = {} /\ used = [k \in {"crash", "marks"} |-> 0]

Next ==
  Start \/ SchedulerStep \/ Crash \/ Mark \/ \E q \in Pids : CampaignExit(q)

Spec == Init /\ [][Next]_vars

\* The scheduler runs on and is restarted after a crash, and campaigns end.
FairSpec ==
  /\ Spec /\ WF_vars(SchedulerStep) /\ WF_vars(Start)
  /\ \A q \in Pids : WF_vars(CampaignExit(q))

-----------------------------------------------------------------------------
(* Properties *)

AliveProcs == {q \in Pids : proc[q].st = "alive"}

\* There are never more live campaign processes than resources.max_concurrent.
GlobalCap == Cardinality(AliveProcs) <= GlobalMax

\* No project has more live processes than its max_concurrent, and no campaign has
\* two (they would share one output directory).
ProjectCap ==
  /\ \A p \in Projects :
       Cardinality({q \in AliveProcs : ProjectOf[proc[q].camp] = p}) <= ProjectMax[p]
  /\ \A q, r \in AliveProcs : proc[q].camp = proc[r].camp => q = r

\* Both caps at once: choose_next looks at the second only below the first.
WithinCaps == GlobalCap /\ ProjectCap

\* What the starts of the campaigns of S reserved.
SumOf(attempts, S) == MapThenSumSet(LAMBDA c : attempts[c] * Reserve[c], S)
ChargesHold(s) ==
  \A p \in Projects :
    /\ s.reserved[p] = SumOf(s.attempts, {c \in Campaigns : ProjectOf[c] = p})
    /\ Budget[p] = -1 \/ s.reserved[p] <= Budget[p]

\* The charge of a project is what its starts reserved, on disk at all times, and
\* stays within its case budget across restarts (quota_allows, load_state).
QuotaSound == ChargesHold(saved)

\* Every limit of the manifest at once, in every state a crash or a resume leaves:
\* the slots that processes take and the cases that starts were charged.
LimitsKept == WithinCaps /\ QuotaSound

\* The "scheduler deadlock" error is unreachable, as its comment says.
NoSchedulerDeadlock == pc # "deadlock"

\* While a project has work pending and its own cap is not the limit, no other
\* project gets more than one start ahead of its weighted share (choose_next).
\* A restart may return work to a project that had been overtaken rightly.
FairShare ==
  used["crash"] = 0 => \A p, q \in Projects :
    Pending(q) # {} /\ ProjectMax[q] >= GlobalMax =>
      (state.dispatched[p] - 1) * Weight[q] <= state.dispatched[q] * Weight[p]

\* A scheduler that exits by itself leaves no campaign of its own running.
QuietExit == pc = "down" /\ used["crash"] = 0 => AliveProcs = {}

\* The scheduler ends cleanly: never with the deadlock error while work is pending,
\* and never beside a campaign that it started (the last loop of main).
CleanExit == QuietExit /\ NoSchedulerDeadlock

\* A decision in state.json is final, also across restarts (load_state).
TerminalImmutable ==
  [][\A c \in Campaigns : saved.status[c] \in Terminal =>
       saved'.status[c] = saved.status[c]]_saved

\* Every campaign is settled in the end, unless the scheduler is kept drained.
AllSettled ==
  <>[]("DRAIN" \notin markers) => <>(\A c \in Campaigns : saved.status[c] \in Terminal)
=============================================================================
