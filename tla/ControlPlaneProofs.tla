------------------------- MODULE ControlPlaneProofs -------------------------
(***************************************************************************)
(* What ppc-lab-control guarantees for any number of items, clients, pids  *)
(* and crashes.  First the types; then the queue stays in step with the    *)
(* processes: one scheduler per item, every child known, ends final, and a *)
(* true history.                                                           *)
(*                                                                         *)
(* QueueInv is inductive when no cancel command overlaps an iteration of   *)
(* serve (CancelApart) and serve does not die between Popen and the write  *)
(* of the pid (ChildRecorded).  There is one lemma per action, and under   *)
(* it a step for each part of QueueInv that the action can disturb.        *)
(***************************************************************************)
EXTENDS ControlPlane, TLAPS, FiniteSetTheorems

\* archive_terminal is only reached with a terminal status.
AppendTerminal == \A a \in Actors : step[a] = "append" => item[a].status \in Terminal

TypeInv == TypeOK /\ AppendTerminal

\* The copies of items that the handlers make are items again.
LEMMA ItemCopies ==
  ASSUME NEW c \in Items, NEW s \in Status, NEW p \in Pids \cup {NoPid}
  PROVE  /\ [c EXCEPT !.status = s] \in Items
         /\ [c EXCEPT !.status = s, !.pid = p] \in Items
         /\ [c EXCEPT !.status = s].id = c.id
         /\ [c EXCEPT !.status = s, !.pid = p].id = c.id
         /\ [c EXCEPT !.status = s].status = s /\ [c EXCEPT !.status = s].pid = c.pid
         /\ [c EXCEPT !.status = s, !.pid = p].status = s
         /\ [c EXCEPT !.status = s, !.pid = p].pid = p
  BY DEF Items

\* Setting a flag of an item changes nothing else of it.
LEMMA ItemFlags ==
  ASSUME NEW c \in Items
  PROVE  /\ [c EXCEPT !.creq = TRUE] \in Items /\ [c EXCEPT !.hw = TRUE] \in Items
         /\ [c EXCEPT !.creq = TRUE].id = c.id /\ [c EXCEPT !.hw = TRUE].id = c.id
         /\ [c EXCEPT !.creq = TRUE].status = c.status /\ [c EXCEPT !.creq = TRUE].pid = c.pid
         /\ [c EXCEPT !.hw = TRUE].status = c.status /\ [c EXCEPT !.hw = TRUE].pid = c.pid
  BY DEF Items

\* An item without a file.
LEMMA NoItems ==
  /\ \A i \in Ids : NoItem(i) \in Items
  /\ \A i : NoItem(i).id = i /\ NoItem(i).status = "absent"
  /\ 0 \notin Ids
  BY IdsAssumption DEF NoItem, Items, Status, NoPid

\* A copy in hand that names an item is one.
LEMMA HeldCopy ==
  ASSUME NEW it \in Items \cup {NoItem(0)}, it.id \in Ids
  PROVE  /\ it \in Items /\ [it EXCEPT !.hw = TRUE] \in Items
         /\ [it EXCEPT !.hw = TRUE].id = it.id
<1>1. it \in Items
  <2>1. NoItem(0).id = 0 /\ 0 \notin Ids
    BY NoItems
  <2> QED BY <2>1
<1> QED
  BY <1>1 DEF Items

Procs == [Pids -> [item : Ids \cup {0}, st : ProcStates]]

\* SIGTERM ends at most the process it is sent to.
LEMMA Killed ==
  ASSUME proc \in Procs, NEW p
  PROVE  /\ Kill(p) \in Procs
         /\ \A q \in Pids : /\ Kill(p)[q].item = proc[q].item
                            /\ Kill(p)[q].st = "alive" <=> (proc[q].st = "alive" /\ q # p)
<1>1. CASE Alive(p)
  <2>1. p \in Pids /\ Kill(p) = [proc EXCEPT ![p] = [proc[p] EXCEPT !.st = "killed"]]
    BY <1>1 DEF Kill, Alive, Procs
  <2>2. [proc[p] EXCEPT !.st = "killed"] \in
          [item : Ids \cup {0}, st : ProcStates]
    BY <2>1 DEF Procs, ProcStates
  <2>3. /\ [proc[p] EXCEPT !.st = "killed"].item = proc[p].item
        /\ [proc[p] EXCEPT !.st = "killed"].st = "killed"
    BY <2>1 DEF Procs
  <2>4. /\ Kill(p)[p] = [proc[p] EXCEPT !.st = "killed"]
        /\ \A q \in Pids \ {p} : Kill(p)[q] = proc[q]
    BY <2>1 DEF Procs
  <2> QED
    BY <2>1, <2>2, <2>3, <2>4 DEF Procs
<1>2. CASE ~Alive(p)
  BY <1>2 DEF Kill, Alive
<1> QED BY <1>1, <1>2

\* What load_items returns: the items on disk.
LEMMA Loaded ==
  ASSUME TypeOK, NEW c \in load_items
  PROVE  c \in Items /\ c.id \in Ids /\ c = queue[c.id] /\ c.status # "absent"
<1>1. PICK i \in Ids : queue[i].status # "absent" /\ c = queue[i]
  BY DEF load_items
<1> QED
  BY <1>1 DEF TypeOK

-----------------------------------------------------------------------------
(* Type correctness, one lemma for each group of actions *)

\* save_item and the two writes of archive_terminal keep the types.
LEMMA TypeWrites ==
  ASSUME TypeInv, NEW a \in Actors
  PROVE  (SaveItem(a) \/ AppendHistory(a) \/ MarkArchived(a)) => TypeInv'
<1> USE DEF TypeInv, TypeOK, AppendTerminal, Hold, Drop, Finish, svVars
<1>1. /\ item[a] \in Items \cup {NoItem(0)}
      /\ item[a].id \in Ids =>
           /\ item[a] \in Items /\ [item[a] EXCEPT !.hw = TRUE] \in Items
           /\ [item[a] EXCEPT !.hw = TRUE].id = item[a].id
  BY HeldCopy
<1>3. ASSUME SaveItem(a) PROVE TypeInv'
  <2>1. queue' \in [Ids -> Items] /\ \A i \in Ids : queue'[i].id = i
    BY <1>1, <1>3 DEF SaveItem
  <2>2. active' \in [Ids -> Pids \cup {NoPid}]
    BY <1>3 DEF SaveItem, NoPid
  <2>3. /\ item' \in [Actors -> Items \cup {NoItem(0)}] /\ step' \in [Actors -> Steps] /\ AppendTerminal'
    <3>1. CASE item[a].status \in Terminal /\ ~item[a].hw
      <4>1. item' = [item EXCEPT ![a] = item[a]] /\ step' = [step EXCEPT ![a] = "append"]
        BY <1>3, <3>1 DEF SaveItem
      <4> QED BY <1>1, <3>1, <4>1 DEF Steps
    <3>2. CASE ~(item[a].status \in Terminal /\ ~item[a].hw)
      <4>1. item' = [item EXCEPT ![a] = NoItem(0)] /\ step' = [step EXCEPT ![a] = "none"]
        BY <1>3, <3>2 DEF SaveItem
      <4> QED BY <4>1 DEF Steps
    <3> QED BY <3>1, <3>2
  <2> QED
    BY <1>3, <2>1, <2>2, <2>3 DEF SaveItem
<1>4. ASSUME AppendHistory(a) PROVE TypeInv'
  <2>1. history' \in [Ids -> Seq(Terminal)]
    <3>1. item[a].status \in Terminal
      BY <1>4 DEF AppendHistory
    <3>2. \A i \in Ids : Append(history[i], item[a].status) \in Seq(Terminal)
      BY <3>1
    <3>3. history' = [history EXCEPT ![item[a].id] = Append(@, item[a].status)]
      BY <1>4 DEF AppendHistory
    <3> QED BY <3>2, <3>3
  <2>2. item' = item /\ step' \in [Actors -> Steps] /\ AppendTerminal'
    BY <1>4 DEF AppendHistory, Steps
  <2> QED
    BY <1>4, <2>1, <2>2 DEF AppendHistory
<1>5. ASSUME MarkArchived(a) PROVE TypeInv'
  <2>1. queue' \in [Ids -> Items] /\ \A i \in Ids : queue'[i].id = i
    BY <1>1, <1>5 DEF MarkArchived
  <2>2. active' \in [Ids -> Pids \cup {NoPid}]
    BY <1>5 DEF MarkArchived, NoPid
  <2>3. /\ item' \in [Actors -> Items \cup {NoItem(0)}] /\ step' \in [Actors -> Steps] /\ AppendTerminal'
    BY <1>5 DEF MarkArchived, Steps
  <2> QED
    BY <1>5, <2>1, <2>2, <2>3 DEF MarkArchived
<1> QED
  BY <1>3, <1>4, <1>5

\* The parts of TypeInv about the local variables of serve and of the clients.
LEMMA TypeHold ==
  ASSUME TypeInv, NEW a \in Actors, NEW it \in Items \cup {NoItem(0)}, NEW s \in {"none", "save"},
         Hold(a, it, s)
  PROVE  item' \in [Actors -> Items \cup {NoItem(0)}] /\ step' \in [Actors -> Steps] /\ AppendTerminal'
  BY DEF TypeInv, TypeOK, AppendTerminal, Hold, Steps

\* So do the steps of serve up to the reap loop, ...
LEMMA TypeServe ==
  ASSUME TypeInv
  PROVE  (SvStart \/ SvRecover \/ SvRecovered \/ SvTop \/ SvCancel \/ SvCancelled
            \/ SvPoll \/ SvReaped) => TypeInv'
<1> USE DEF SvAt, SvGoto, SvLabels, disk, svVars, hands
<1>0. Server \in Actors
  BY DEF Actors
<1>a. /\ load_items \subseteq Items
      /\ rest[Server] \subseteq Items
      /\ \A S \in SUBSET Items : [rest EXCEPT ![Server] = S] \in [Actors -> SUBSET Items]
  BY <1>0, Loaded DEF TypeInv, TypeOK
<1>b. NoPid \in Pids \cup {NoPid} /\ {"queued", "cancelled", "orphaned"} \cup Terminal \subseteq Status
  BY DEF Status, Terminal
<1>1. ASSUME SvStart PROVE TypeInv'
  <2>1. rest' \in [Actors -> SUBSET Items]
    BY <1>1, <1>a DEF SvStart
  <2> QED
    BY <1>1, <2>1 DEF SvStart, TypeInv, TypeOK, AppendTerminal
<1>2. ASSUME SvRecover PROVE TypeInv'
  <2>1. PICK c \in rest[Server] :
          /\ queue' = [queue EXCEPT ![c.id] =
                      IF Alive(c.pid) THEN [c EXCEPT !.status = "orphaned"]
                                      ELSE [c EXCEPT !.status = "queued", !.pid = NoPid]]
          /\ rest' = [rest EXCEPT ![Server] = @ \ {c}]
    BY <1>2 DEF SvRecover
  <2>2. rest' \in [Actors -> SUBSET Items]
    BY <1>a, <2>1
  <2>3. PICK d \in Items : d.id = c.id /\ queue' = [queue EXCEPT ![c.id] = d]
    <3>1. CASE Alive(c.pid)
      <4>1. [c EXCEPT !.status = "orphaned"] \in Items
            /\ [c EXCEPT !.status = "orphaned"].id = c.id
        BY <1>a, <1>b, ItemCopies
      <4> QED BY <2>1, <3>1, <4>1
    <3>2. CASE ~Alive(c.pid)
      <4>1. [c EXCEPT !.status = "queued", !.pid = NoPid] \in Items
            /\ [c EXCEPT !.status = "queued", !.pid = NoPid].id = c.id
        BY <1>a DEF Items, Status
      <4> QED BY <2>1, <3>2, <4>1
    <3> QED BY <3>1, <3>2
  <2>4. queue' \in [Ids -> Items] /\ \A i \in Ids : queue'[i].id = i
    BY <2>3 DEF TypeInv, TypeOK
  <2> QED
    BY <1>2, <2>2, <2>4 DEF SvRecover, TypeInv, TypeOK, AppendTerminal
<1>3. ASSUME SvRecovered PROVE TypeInv'
  BY <1>3 DEF SvRecovered, TypeInv, TypeOK, AppendTerminal
<1>4. ASSUME SvTop PROVE TypeInv'
  <2>1. rest' \in [Actors -> SUBSET Items] /\ unpolled' \subseteq Ids
        /\ sv' \in SvLabels
    <3>1. CASE "CANCEL" \in markers
      BY <1>4, <1>a, <3>1 DEF SvTop, TypeInv, TypeOK
    <3>2. CASE "CANCEL" \notin markers
      BY <1>4, <3>2 DEF SvTop, TypeInv, TypeOK, ActiveIds
    <3> QED BY <3>1, <3>2
  <2>2. seen' \subseteq {"PAUSE", "DRAIN", "CANCEL"}
    BY <1>4 DEF SvTop, TypeInv, TypeOK
  <2> QED
    BY <1>4, <2>1, <2>2 DEF SvTop, TypeInv, TypeOK, AppendTerminal
<1>5. ASSUME SvCancel PROVE TypeInv'
  <2>1. PICK c \in rest[Server] :
       /\ rest' = [rest EXCEPT ![Server] = @ \ {c}]
       /\ IF c.status = "running"
            THEN runCancel' = runCancel \cup {c.id} /\ UNCHANGED <<proc, item, step>>
            ELSE /\ Hold(Server, [c EXCEPT !.status = "cancelled"], "save")
                 /\ proc' = IF c.status = "orphaned" THEN Kill(c.pid) ELSE proc
                 /\ UNCHANGED runCancel
    BY <1>5 DEF SvCancel
  <2>2. /\ rest' \in [Actors -> SUBSET Items] /\ c \in Items /\ c.id \in Ids
        /\ [c EXCEPT !.status = "cancelled"] \in Items
    BY <1>a, <1>b, <2>1, ItemCopies DEF Items
  <2>3. CASE c.status = "running"
    BY <1>5, <2>1, <2>2, <2>3 DEF SvCancel, TypeInv, TypeOK, AppendTerminal
  <2>4. CASE c.status # "running"
    <3>1. item' \in [Actors -> Items \cup {NoItem(0)}] /\ step' \in [Actors -> Steps]
          /\ AppendTerminal'
      <4>1. Hold(Server, [c EXCEPT !.status = "cancelled"], "save")
        BY <2>1, <2>4
      <4> QED BY <1>0, <2>2, <4>1, TypeHold
    <3>2. proc' \in Procs
      <4>1. proc \in Procs
        BY DEF Procs, TypeInv, TypeOK
      <4>2. proc' = Kill(c.pid) \/ proc' = proc
        BY <2>1, <2>4
      <4> QED BY <4>1, <4>2, Killed
    <3> QED
      BY <1>5, <2>1, <2>2, <2>4, <3>1, <3>2 DEF SvCancel, Procs, TypeInv, TypeOK
  <2> QED BY <2>3, <2>4
<1>6. ASSUME SvCancelled PROVE TypeInv'
  BY <1>6 DEF SvCancelled, ActiveIds, TypeInv, TypeOK, AppendTerminal
<1>7. ASSUME SvPoll PROVE TypeInv'
  <2>1. PICK i \in unpolled :
       /\ unpolled' = unpolled \ {i}
       /\ IF Alive(active[i])
            THEN UNCHANGED <<item, step>>
            ELSE Hold(Server, [queue[i] EXCEPT !.status = Outcome(queue[i], active[i]),
                                               !.pid = NoPid], "save")
    BY <1>7 DEF SvPoll
  <2>2. Outcome(queue[i], active[i]) \in Status
    BY DEF Outcome, Status, Terminal
  <2>3. queue[i] \in Items /\ unpolled' \subseteq Ids
    BY <2>1 DEF TypeInv, TypeOK
  <2>4. item' \in [Actors -> Items \cup {NoItem(0)}] /\ step' \in [Actors -> Steps]
        /\ AppendTerminal'
    <3>1. CASE Alive(active[i])
      BY <2>1, <3>1 DEF TypeInv, TypeOK, AppendTerminal
    <3>2. CASE ~Alive(active[i])
      BY <1>0, <1>b, <2>1, <2>2, <2>3, <3>2, ItemCopies, TypeHold
    <3> QED BY <3>1, <3>2
  <2> QED
    BY <1>7, <2>3, <2>4 DEF SvPoll, TypeInv, TypeOK
<1>8. ASSUME SvReaped PROVE TypeInv'
  BY <1>8 DEF SvReaped, TypeInv, TypeOK, AppendTerminal
<1> QED
  BY <1>1, <1>2, <1>3, <1>4, <1>5, <1>6, <1>7, <1>8

\* ... its dispatch, telemetry, signal handler and death, ...
LEMMA TypeDispatch ==
  ASSUME TypeInv
  PROVE  (SvDispatch \/ SvSaveRunning \/ SvDispatched \/ SvTelemetry \/ SvSignal \/ SvCrash)
           => TypeInv'
<1> USE DEF SvAt, SvGoto, SvLabels, disk, svVars, hands
<1>0. Server \in Actors /\ proc \in Procs
  BY DEF Actors, Procs, TypeInv, TypeOK
<1>1. ASSUME SvDispatch PROVE TypeInv'
  <2>1. PICK c \in choose_queued :
       IF HashMatches(c.id)
         THEN \E p \in Pids :
                /\ Fresh(p)
                /\ proc' = [proc EXCEPT ![p] = [item |-> c.id, st |-> "alive"]]
                /\ Hold(Server, [c EXCEPT !.status = "running", !.pid = p], "none")
                /\ SvGoto("launched")
                /\ late' = IF markers = {} THEN 0 ELSE late + 1
         ELSE /\ Hold(Server, [c EXCEPT !.status = "failed"], "save")
              /\ UNCHANGED <<proc, sv, late>>
    BY <1>1 DEF SvDispatch
  <2>2. c \in Items /\ c.id \in Ids
    BY Loaded DEF TypeInv, choose_queued, Queued
  <2>3. CASE HashMatches(c.id)
    <3>1. PICK p \in Pids :
                /\ proc' = [proc EXCEPT ![p] = [item |-> c.id, st |-> "alive"]]
                /\ Hold(Server, [c EXCEPT !.status = "running", !.pid = p], "none")
                /\ sv' = "launched"
                /\ late' = IF markers = {} THEN 0 ELSE late + 1
      BY <2>1, <2>3
    <3>2. [c EXCEPT !.status = "running", !.pid = p] \in Items
      BY <2>2 DEF Items, Status
    <3>3. item' \in [Actors -> Items \cup {NoItem(0)}] /\ step' \in [Actors -> Steps]
          /\ AppendTerminal'
      BY <1>0, <3>1, <3>2, TypeHold
    <3>4. [item |-> c.id, st |-> "alive"] \in
            [item : Ids \cup {0}, st : ProcStates]
      BY <2>2 DEF ProcStates
    <3>5. proc' \in Procs
      BY <1>0, <3>1, <3>4 DEF Procs
    <3>6. late' \in Nat
      BY <3>1 DEF TypeInv, TypeOK
    <3> QED
      BY <1>1, <3>1, <3>3, <3>5, <3>6 DEF SvDispatch, Procs, TypeInv, TypeOK
  <2>4. CASE ~HashMatches(c.id)
    <3>1. [c EXCEPT !.status = "failed"] \in Items
      BY <2>2 DEF Items, Status, Terminal
    <3>2. item' \in [Actors -> Items \cup {NoItem(0)}] /\ step' \in [Actors -> Steps]
          /\ AppendTerminal'
      <4>1. Hold(Server, [c EXCEPT !.status = "failed"], "save")
        BY <2>1, <2>4
      <4> QED BY <1>0, <3>1, <4>1, TypeHold
    <3> QED
      BY <1>1, <2>1, <2>4, <3>2 DEF SvDispatch, TypeInv, TypeOK
  <2> QED BY <2>3, <2>4
<1>2. ASSUME SvSaveRunning PROVE TypeInv'
  <2>1. item[Server] \in Items \cup {NoItem(0)} /\ Hold(Server, NoItem(0), "none")
    BY <1>0, <1>2 DEF SvSaveRunning, Drop, TypeInv, TypeOK
  <2>2. item' \in [Actors -> Items \cup {NoItem(0)}] /\ step' \in [Actors -> Steps]
        /\ AppendTerminal'
    BY <1>0, <2>1, TypeHold
  <2>3. item[Server].id \in Ids => item[Server] \in Items
    BY <2>1, HeldCopy
  <2>4. queue' \in [Ids -> Items] /\ \A i \in Ids : queue'[i].id = i
    BY <1>2, <2>3 DEF SvSaveRunning, TypeInv, TypeOK
  <2>5. active' \in [Ids -> Pids \cup {NoPid}]
    <3>1. item[Server].id \in Ids => item[Server].pid \in Pids \cup {NoPid}
      BY <2>3 DEF Items
    <3> QED BY <1>2, <3>1 DEF SvSaveRunning, TypeInv, TypeOK
  <2> QED
    BY <1>2, <2>2, <2>4, <2>5 DEF SvSaveRunning, TypeInv, TypeOK
<1>3. ASSUME SvDispatched PROVE TypeInv'
  BY <1>3 DEF SvDispatched, TypeInv, TypeOK, AppendTerminal
<1>4. ASSUME SvTelemetry PROVE TypeInv'
  BY <1>4 DEF SvTelemetry, TypeInv, TypeOK, AppendTerminal
<1>5. ASSUME SvSignal PROVE TypeInv'
  <2>1. proc' \in Procs
    BY <1>0, <1>5 DEF SvSignal, Procs, ProcStates
  <2>2. used' \in [{"crash", "signal", "command", "edit"} -> Nat]
    BY <1>5 DEF SvSignal, Spend, TypeInv, TypeOK
  <2> QED
    BY <1>5, <2>1, <2>2 DEF SvSignal, Procs, TypeInv, TypeOK, AppendTerminal
<1>6. ASSUME SvCrash PROVE TypeInv'
  <2>1. Hold(Server, NoItem(0), "none")
    BY <1>6 DEF SvCrash, Drop
  <2>2. item' \in [Actors -> Items \cup {NoItem(0)}] /\ step' \in [Actors -> Steps]
        /\ AppendTerminal'
    BY <1>0, <2>1, TypeHold
  <2>3. used' \in [{"crash", "signal", "command", "edit"} -> Nat]
    BY <1>6 DEF SvCrash, Spend, TypeInv, TypeOK
  <2>4. /\ rest' \in [Actors -> SUBSET Items] /\ active' \in [Ids -> Pids \cup {NoPid}]
        /\ unpolled' \subseteq Ids /\ seen' \subseteq {"PAUSE", "DRAIN", "CANCEL"}
        /\ stop' \in BOOLEAN /\ sv' \in SvLabels
    BY <1>6 DEF SvCrash, TypeInv, TypeOK
  <2> QED
    BY <1>6, <2>2, <2>3, <2>4 DEF SvCrash, TypeInv, TypeOK
<1> QED
  BY <1>1, <1>2, <1>3, <1>4, <1>5, <1>6

\* ... a scheduler that ends, ...
LEMMA TypeScheduler ==
  ASSUME TypeInv, NEW p \in Pids, ChildExit(p)
  PROVE  TypeInv'
<1> USE DEF disk, svVars, hands
<1>0. proc \in Procs
  BY DEF Procs, TypeInv, TypeOK
<1>1. PICK r \in {"ok", "bad"} : proc' = [proc EXCEPT ![p].st = r]
  BY DEF ChildExit
<1>2. [proc[p] EXCEPT !.st = r] \in
        [item : Ids \cup {0}, st : ProcStates]
  BY <1>0 DEF Procs, ProcStates
<1>3. proc' \in Procs
  BY <1>0, <1>1, <1>2 DEF Procs
<1> QED
  BY <1>3 DEF ChildExit, Procs, TypeInv, TypeOK, AppendTerminal

\* ... submissions and edits of a manifest, ...
LEMMA TypeItem ==
  ASSUME TypeInv, NEW i \in Ids
  PROVE  (EditManifest(i) \/ Submit(i)) => TypeInv'
<1> USE DEF disk, svVars, hands
<1>0. proc \in Procs /\ queue[i] \in Items /\ queue[i].id = i
  BY DEF Procs, TypeInv, TypeOK
<1>1. ASSUME EditManifest(i) PROVE TypeInv'
  <2>1. used' \in [{"crash", "signal", "command", "edit"} -> Nat]
    BY <1>1 DEF EditManifest, Spend, TypeInv, TypeOK
  <2> QED
    BY <1>1, <2>1 DEF EditManifest, TypeInv, TypeOK, AppendTerminal
<1>2. ASSUME Submit(i) PROVE TypeInv'
  <2>1. queue' = [queue EXCEPT ![i] = [queue[i] EXCEPT !.status = "queued", !.seq = nextSeq]]
    BY <1>2 DEF Submit, TypeInv, TypeOK
  <2>2. [queue[i] EXCEPT !.status = "queued", !.seq = nextSeq] \in Items
        /\ [queue[i] EXCEPT !.status = "queued", !.seq = nextSeq].id = i
    BY <1>0 DEF Items, Status, TypeInv, TypeOK
  <2>3. queue' \in [Ids -> Items] /\ \A j \in Ids : queue'[j].id = j
    BY <2>1, <2>2 DEF TypeInv, TypeOK
  <2> QED
    BY <1>2, <2>3 DEF Submit, TypeInv, TypeOK, AppendTerminal
<1> QED
  BY <1>1, <1>2

\* ... the commands that touch markers or walk the queue, ...
LEMMA TypeClient ==
  ASSUME TypeInv, NEW c \in Clients
  PROVE  (Touch(c, "pause", "PAUSE") \/ Touch(c, "drain", "DRAIN") \/ ClResume(c)
            \/ ClCancelAll(c) \/ ClCancelOne(c) \/ ClDone(c)) => TypeInv'
<1> USE DEF disk, svVars, hands
<1>0. c \in Actors
  BY DEF Actors
<1>1. ASSUME Touch(c, "pause", "PAUSE") \/ Touch(c, "drain", "DRAIN") PROVE TypeInv'
  <2>1. used' \in [{"crash", "signal", "command", "edit"} -> Nat]
    BY <1>1 DEF Touch, Begin, Spend, TypeInv, TypeOK
  <2> QED
    BY <1>1, <2>1 DEF Touch, TypeInv, TypeOK, AppendTerminal
<1>2. ASSUME ClResume(c) PROVE TypeInv'
  <2>1. used' \in [{"crash", "signal", "command", "edit"} -> Nat]
    BY <1>2 DEF ClResume, Begin, Spend, TypeInv, TypeOK
  <2> QED
    BY <1>2, <2>1 DEF ClResume, TypeInv, TypeOK, AppendTerminal
<1>3. ASSUME ClCancelAll(c) PROVE TypeInv'
  <2>1. used' \in [{"crash", "signal", "command", "edit"} -> Nat]
        /\ cl' \in [Clients -> Commands \cup {"idle"}]
    BY <1>3 DEF ClCancelAll, Begin, Spend, TypeInv, TypeOK
  <2>2. rest' \in [Actors -> SUBSET Items]
    <3>1. load_items \subseteq Items
      BY Loaded DEF TypeInv
    <3> QED BY <1>3, <3>1 DEF ClCancelAll, TypeInv, TypeOK
  <2> QED
    BY <1>3, <2>1, <2>2 DEF ClCancelAll, TypeInv, TypeOK, AppendTerminal
<1>4. ASSUME ClCancelOne(c) PROVE TypeInv'
  <2>1. PICK d \in rest[c] :
       /\ rest' = [rest EXCEPT ![c] = @ \ {d}]
       /\ IF d.status = "running"
            THEN runCancel' = runCancel \cup {d.id} /\ UNCHANGED <<item, step>>
            ELSE Hold(c, [d EXCEPT !.status = "cancelled"], "save") /\ UNCHANGED runCancel
    BY <1>4 DEF ClCancelOne
  <2>2. d \in Items /\ d.id \in Ids /\ rest' \in [Actors -> SUBSET Items]
    BY <1>0, <2>1 DEF Items, TypeInv, TypeOK
  <2>3. CASE d.status = "running"
    BY <1>4, <2>1, <2>2, <2>3 DEF ClCancelOne, TypeInv, TypeOK, AppendTerminal
  <2>4. CASE d.status # "running"
    <3>1. [d EXCEPT !.status = "cancelled"] \in Items
      BY <2>2 DEF Items, Status, Terminal
    <3>2. Hold(c, [d EXCEPT !.status = "cancelled"], "save")
      BY <2>1, <2>4
    <3>3. item' \in [Actors -> Items \cup {NoItem(0)}] /\ step' \in [Actors -> Steps]
          /\ AppendTerminal'
      BY <1>0, <3>1, <3>2, TypeHold
    <3> QED
      BY <1>4, <2>1, <2>2, <2>4, <3>3 DEF ClCancelOne, TypeInv, TypeOK
  <2> QED BY <2>3, <2>4
<1>5. ASSUME ClDone(c) PROVE TypeInv'
  BY <1>5 DEF ClDone, TypeInv, TypeOK, AppendTerminal
<1> QED
  BY <1>1, <1>2, <1>3, <1>4, <1>5

\* ... and the cancellation of one item.
LEMMA TypeCancel ==
  ASSUME TypeInv, NEW c \in Clients, NEW i \in Ids
  PROVE  ClCancel(c, i) => TypeInv'
<1> USE DEF disk, svVars, hands
<1>0. c \in Actors /\ proc \in Procs /\ queue[i] \in Items /\ queue[i].id = i
  BY DEF Actors, Procs, TypeInv, TypeOK
<1>1. ASSUME ClCancel(c, i) PROVE TypeInv'
  <2>1. used' \in [{"crash", "signal", "command", "edit"} -> Nat]
        /\ cl' \in [Clients -> Commands \cup {"idle"}]
    BY <1>1 DEF ClCancel, Begin, Spend, TypeInv, TypeOK
  <2>2. CASE queue[i].status = "running"
    <3>1. [queue[i] EXCEPT !.creq = TRUE] \in Items
      BY <1>0, ItemFlags
    <3>2. Hold(c, [queue[i] EXCEPT !.creq = TRUE], "save")
      BY <1>1, <2>2 DEF ClCancel
    <3>3. item' \in [Actors -> Items \cup {NoItem(0)}] /\ step' \in [Actors -> Steps]
          /\ AppendTerminal'
      BY <1>0, <3>1, <3>2, TypeHold
    <3> QED
      BY <1>1, <2>1, <2>2, <3>3 DEF ClCancel, TypeInv, TypeOK
  <2>3. CASE queue[i].status # "running"
    <3>1. [queue[i] EXCEPT !.status = "cancelled"] \in Items
      BY <1>0 DEF Items, Status, Terminal
    <3>2. Hold(c, [queue[i] EXCEPT !.status = "cancelled"], "save")
      BY <1>1, <2>3 DEF ClCancel
    <3>3. item' \in [Actors -> Items \cup {NoItem(0)}] /\ step' \in [Actors -> Steps]
          /\ AppendTerminal'
      BY <1>0, <3>1, <3>2, TypeHold
    <3>4. proc' \in Procs
      <4>1. proc' = Kill(queue[i].pid) \/ proc' = proc
        BY <1>1, <2>3 DEF ClCancel
      <4> QED BY <1>0, <4>1, Killed
    <3> QED
      BY <1>1, <2>1, <2>3, <3>3, <3>4 DEF ClCancel, Procs, TypeInv, TypeOK
  <2> QED BY <2>2, <2>3
<1> QED
  BY <1>1

\* Every step preserves TypeInv.
LEMMA TypeInvInductive == TypeInv /\ [Next]_vars => TypeInv'
<1> SUFFICES ASSUME TypeInv, [Next]_vars PROVE TypeInv'
  OBVIOUS
<1>1. CASE UNCHANGED vars
  BY <1>1 DEF vars, disk, svVars, hands, TypeInv, TypeOK, AppendTerminal
<1>2. CASE SvStart \/ SvSignal \/ SvCrash
  BY <1>2, TypeServe, TypeDispatch
<1>3. CASE SvStep
  <2>1. Server \in Actors
    BY DEF Actors
  <2>2. CASE SaveItem(Server) \/ AppendHistory(Server) \/ MarkArchived(Server)
    BY <2>1, <2>2, TypeWrites
  <2>3. CASE SvRecover \/ SvRecovered \/ SvTop \/ SvCancel \/ SvCancelled \/ SvPoll
               \/ SvReaped
    BY <2>3, TypeServe
  <2>4. CASE SvDispatch \/ SvSaveRunning \/ SvDispatched \/ SvTelemetry
    BY <2>4, TypeDispatch
  <2> QED BY <1>3, <2>2, <2>3, <2>4 DEF SvStep
<1>4. ASSUME NEW p \in Pids, ChildExit(p) PROVE TypeInv'
  BY <1>4, TypeScheduler
<1>5. ASSUME NEW i \in Ids, Submit(i) \/ EditManifest(i) PROVE TypeInv'
  BY <1>5, TypeItem
<1>6. ASSUME NEW c \in Clients, ClStep(c) PROVE TypeInv'
  <2>1. c \in Actors
    BY DEF Actors
  <2> QED BY <1>6, <2>1, TypeClient, TypeWrites DEF ClStep
<1>7. ASSUME NEW c \in Clients, ClCommand(c) PROVE TypeInv'
  BY <1>7, TypeClient, TypeCancel DEF ClCommand
<1> QED
  BY <1>1, <1>2, <1>3, <1>4, <1>5, <1>6, <1>7 DEF Next

\* A new control root satisfies TypeInv.
LEMMA TypeInvInit == Init => TypeInv
<1> SUFFICES ASSUME Init PROVE TypeInv
  OBVIOUS
<1>1. queue \in [Ids -> Items] /\ \A i \in Ids : queue[i].id = i
  BY NoItems DEF Init
<1>2. item \in [Actors -> Items \cup {NoItem(0)}] /\ rest \in [Actors -> SUBSET Items]
  BY DEF Init
<1>3. proc \in Procs
  BY DEF Init, Procs, ProcStates
<1>4. step \in [Actors -> Steps] /\ AppendTerminal
  BY DEF Init, Steps, AppendTerminal
<1>5. history \in [Ids -> Seq(Terminal)]
  BY DEF Init
<1> QED
  BY <1>1, <1>2, <1>3, <1>4, <1>5 DEF Init, Procs, SvLabels, TypeInv, TypeOK

\* serve, its schedulers and the commands keep every file and variable of its
\* type, whatever overlaps and wherever the supervisor dies; in particular no
\* copy of an item is ever written under another item's name.
THEOREM ControlTypes == Spec => []TypeOK
<1>1. TypeInv => TypeOK
  BY DEF TypeInv
<1> QED
  BY <1>1, TypeInvInit, TypeInvInductive, PTL DEF Spec

-----------------------------------------------------------------------------
(* The inductive strengthening of NoUntrackedChild.  It needs that no cancel    *)
(* overlaps serve and that serve is not killed with an unrecorded child.        *)

CancelApart == Racing \cap {"cancel", "cancel-all"} = {}
ChildRecorded == "launched" \notin CrashPoints

Held(a) == step[a] # "none"
Cancelling(c) == cl[c] \in {"cancel", "cancel-all"}

\* One actor at a time works on items: a cancelling client, or serve.
OneEditor ==
  /\ \A c \in Clients : Held(c) \/ rest[c] # {} => Cancelling(c)
  /\ \A c \in Clients : Cancelling(c) =>
       /\ Quiet /\ ~Held(Server)
       /\ \A d \in Clients : Cancelling(d) => c = d

\* NoUntrackedChild with the item of the child serve is about to record.
Tracked ==
  \A i \in Ids : \A p \in Live(i) :
    \/ queue[i].status \in {"running", "orphaned"} /\ queue[i].pid = p
    \/ sv = "launched" /\ item[Server].id = i /\ item[Server].pid = p

\* Until its status is saved, a started item is still queued on disk.
LaunchedItem ==
  sv = "launched" =>
    /\ ~Held(Server) /\ item[Server].id \in Ids /\ item[Server].pid \in Pids
    /\ item[Server].status = "running" /\ queue[item[Server].id].status = "queued"

\* What an actor is about to write: the end of an item without a live scheduler,
\* or a cancel request for a running item that is still as it was read.
HeldItem ==
  \A a \in Actors : Held(a) =>
    LET i == item[a].id IN
    /\ i \in Ids
    /\ \/ /\ item[a].status \in Terminal /\ Live(i) = {}
          /\ active[i] = NoPid \/ (a = Server /\ sv = "reap")
       \/ /\ a \in Clients /\ step[a] = "save" /\ item[a].status = "running"
          /\ queue[i].status = "running" /\ queue[i].pid = item[a].pid

\* The copies still to be worked on are what is on disk.
RestFresh ==
  /\ rest[Server] # {} => sv \in {"recover", "cancel"}
  /\ sv = "recover" => \A c \in rest[Server] : c.status = "running"
  /\ \A a \in Actors : \A c \in rest[a] :
       /\ c.id \in Ids /\ c = queue[c.id]
       /\ c.status \in {"queued", "running"} \/ (a = Server /\ c.status = "orphaned")
       /\ Held(a) => item[a].id # c.id

\* serve's table of children agrees with the queue, except for the item whose end
\* the reap loop is writing.
ActiveOnDisk ==
  /\ sv \in {"down", "recover"} => \A i \in Ids : active[i] = NoPid
  /\ \A i \in Ids : active[i] # NoPid =>
       \/ queue[i].status = "running" /\ queue[i].pid = active[i]
       \/ sv = "reap" /\ Held(Server) /\ item[Server].id = i

UnpolledActive ==
  /\ unpolled # {} => sv = "reap"
  /\ \A i \in unpolled : active[i] # NoPid /\ (Held(Server) => item[Server].id # i)

\* recover_state will still look at every item that says running.
RecoverCovers ==
  sv = "recover" => \A i \in Ids : queue[i].status = "running" => queue[i] \in rest[Server]

\* What is about to be saved replaces an item that has not ended, whose requested
\* cancellation it keeps; what is about to be archived is what was saved.
HeldStage ==
  \A a \in Actors : Held(a) =>
    LET c == queue[item[a].id] IN
    IF step[a] = "save"
      THEN /\ c.status \in {"queued", "running", "orphaned"} /\ ~item[a].hw
           /\ (c.creq => item[a].creq) /\ (item[a].creq => item[a].status # "complete")
      ELSE c = item[a]

\* history_written is set at the end only, and so is the status complete never set
\* against a request to cancel.
ItemsClean ==
  /\ \A i \in Ids : /\ queue[i].hw => queue[i].status \in Terminal
                    /\ queue[i].creq => queue[i].status # "complete"
  /\ sv = "launched" => LET it == item[Server] IN
                        ~it.hw /\ it.creq = queue[it.id].creq

\* serve, recover_state and the cancel commands keep the queue, the table of
\* children and the processes in step.
QueueInv ==
  /\ OneEditor /\ Tracked /\ LaunchedItem /\ HeldItem /\ RestFresh
  /\ ActiveOnDisk /\ UnpolledActive
  /\ RunningIsSupervised /\ RecoverCovers /\ HeldStage /\ ItemsClean

\* A launch that overtakes a marker was counted in this iteration: it took a slot.
LateInv ==
  /\ late <= MaxActive /\ (markers = {} => late = 0)
  /\ sv = "reap" /\ seen = {} => late = 0
  /\ sv = "cancel" => seen # {}
  /\ sv = "dispatch" => seen = {} /\ late <= Cardinality(ActiveIds)
  /\ sv = "launched" =>
       seen = {} /\ late <= Cardinality(ActiveIds) + 1 /\ Cardinality(ActiveIds) < MaxActive

\* A line carries the end on disk and is there once; the ended items that nobody is
\* about to archive are not more than the kills.
Appending(i) == \E a \in Actors : step[a] = "append" /\ item[a].id = i
Lost == {i \in Unrecorded : ~Appending(i)}
HistoryInv ==
  /\ \A i \in Ids : history[i] # <<>> =>
       /\ queue[i].status \in Terminal /\ history[i] = <<queue[i].status>>
       /\ ~Appending(i)
  /\ Cardinality(Lost) <= used["crash"]

-----------------------------------------------------------------------------


\* What the types say about who is there and where the functions are defined.
LEMMA Shapes ==
  ASSUME TypeInv
  PROVE  /\ queue \in [Ids -> Items] /\ active \in [Ids -> Pids \cup {NoPid}]
         /\ \A i \in Ids : queue[i].id = i
         /\ item \in [Actors -> Items \cup {NoItem(0)}] /\ step \in [Actors -> Steps]
         /\ rest \in [Actors -> SUBSET Items] /\ proc \in Procs
         /\ cl \in [Clients -> Commands \cup {"idle"}]
         /\ Server \in Actors /\ Server \notin Clients /\ Actors = Clients \cup {Server}
         /\ unpolled \subseteq Ids
  BY ActorAssumption DEF TypeInv, TypeOK, Actors, Procs

\* While serve takes a step, no client is working on an item.
LEMMA ServerAlone ==
  ASSUME TypeInv, QueueInv, CancelApart, SvTurn, NEW c \in Clients
  PROVE  ~Held(c) /\ rest[c] = {} /\ ~Cancelling(c)
  BY Shapes DEF QueueInv, OneEditor, CancelApart, SvTurn, Cancelling

\* While a client works on items, serve sleeps or is down and nobody else does.
LEMMA ClientAlone ==
  ASSUME TypeInv, QueueInv, NEW c \in Clients, Cancelling(c)
  PROVE  /\ sv \in {"down", "top"} /\ ~Held(Server) /\ rest[Server] = {}
         /\ \A d \in Clients \ {c} : ~Held(d) /\ rest[d] = {} /\ ~Cancelling(d)
  BY DEF QueueInv, OneEditor, RestFresh, Quiet

\* Steps that touch neither the queue nor what the actors have in hand, and start
\* no process: markers and manifests, a scheduler that ends, a signal.
LEMMA QueueApart ==
  ASSUME TypeInv, QueueInv, UNCHANGED <<queue, sv, active, unpolled, cl, item, rest, step>>,
         \A i \in Ids : Live(i)' \subseteq Live(i)
  PROVE  QueueInv'
<1>1. OneEditor' /\ LaunchedItem' /\ RestFresh'
  BY DEF QueueInv, OneEditor, LaunchedItem, RestFresh, Held, Cancelling, Quiet
<1>2. ActiveOnDisk' /\ UnpolledActive' /\ RunningIsSupervised' /\ RecoverCovers' /\ HeldStage'
      /\ ItemsClean'
  BY DEF QueueInv, ActiveOnDisk, UnpolledActive, RunningIsSupervised, RecoverCovers, HeldStage,
         ItemsClean, Held
<1>3. Tracked'
  BY DEF QueueInv, Tracked
<1>4. HeldItem'
  BY DEF QueueInv, HeldItem, Held
<1> QED
  BY <1>1, <1>2, <1>3, <1>4 DEF QueueInv

\* The steps of serve from one loop to the next.
LEMMA QueueGoto ==
  ASSUME TypeInv, QueueInv, CancelApart,
         SvRecovered \/ SvCancelled \/ SvReaped \/ SvDispatched \/ SvTelemetry
  PROVE  QueueInv'
<1>0. /\ \A c \in Clients : ~Held(c) /\ rest[c] = {} /\ ~Cancelling(c)
      /\ step[Server] = "none" /\ UNCHANGED <<queue, proc, active, cl, item, rest, step>>
      /\ sv \in {"recover", "cancel", "reap", "dispatch", "telemetry"}
  BY ServerAlone DEF SvRecovered, SvCancelled, SvReaped, SvDispatched, SvTelemetry, SvAt,
       disk, hands
<1>1. /\ rest[Server] = {} /\ sv' \notin {"recover", "cancel", "launched"}
      /\ sv' = "down" => ActiveIds = {}
      /\ unpolled' = {} \/ (sv' = "reap" /\ unpolled' = ActiveIds)
  <2>1. rest[Server] # {} => sv \in {"recover", "cancel"}
    BY DEF QueueInv, RestFresh
  <2>2. unpolled # {} => sv = "reap"
    BY DEF QueueInv, UnpolledActive
  <2>3. CASE SvRecovered
    BY <2>2, <2>3 DEF SvRecovered, SvAt, SvGoto
  <2>4. CASE SvCancelled
    BY <2>4 DEF SvCancelled, SvAt, SvGoto
  <2>5. CASE SvReaped \/ SvDispatched
    BY <2>1, <2>2, <2>5 DEF SvReaped, SvDispatched, SvAt, SvGoto
  <2>6. CASE SvTelemetry
    BY <2>1, <2>2, <2>6 DEF SvTelemetry, SvAt, SvGoto, ExitNow
  <2> QED
    BY <2>3, <2>4, <2>5, <2>6
<1>2. OneEditor' /\ LaunchedItem' /\ HeldItem' /\ HeldStage' /\ RecoverCovers' /\ ItemsClean'
  BY <1>0, <1>1, Shapes DEF OneEditor, LaunchedItem, HeldItem, HeldStage, RecoverCovers,
       ItemsClean, QueueInv, Held, Cancelling
<1>3. Tracked'
  BY <1>0, <1>1 DEF QueueInv, Tracked, Live, Alive
<1>4. RestFresh'
  BY <1>0, <1>1, Shapes DEF RestFresh
<1>5. ActiveOnDisk' /\ UnpolledActive'
  BY <1>0, <1>1 DEF QueueInv, ActiveOnDisk, UnpolledActive, Held, ActiveIds
<1>6. RunningIsSupervised'
  BY <1>0, <1>1 DEF QueueInv, RunningIsSupervised, RecoverCovers
<1> QED BY <1>2, <1>3, <1>4, <1>5, <1>6 DEF QueueInv

\* The supervisor starts: it has no children yet, and recover_state is to look at
\* every item that says running.
LEMMA QueueStart ==
  ASSUME TypeInv, QueueInv, CancelApart, SvStart
  PROVE  QueueInv'
<1>0. /\ \A c \in Clients : ~Held(c) /\ rest[c] = {} /\ ~Cancelling(c)
      /\ sv = "down" /\ step[Server] = "none"
      /\ UNCHANGED <<queue, proc, unpolled, cl, item, step>>
  BY ServerAlone DEF SvStart, SvAt, disk
<1>1. /\ sv' = "recover" /\ active' = [i \in Ids |-> NoPid]
      /\ rest' = [rest EXCEPT ![Server] = {c \in load_items : c.status = "running"}]
  BY DEF SvStart, SvGoto
<1>2. /\ \A c \in Clients : rest'[c] = {}
      /\ \A c \in rest'[Server] : c.id \in Ids /\ c = queue[c.id] /\ c.status = "running"
      /\ \A i \in Ids : queue[i].status = "running" => queue[i] \in rest'[Server]
  BY <1>0, <1>1, Shapes, Loaded DEF load_items, TypeInv
<1>3. OneEditor' /\ LaunchedItem' /\ HeldItem' /\ HeldStage' /\ ItemsClean'
  BY <1>0, <1>1, <1>2, Shapes
     DEF QueueInv, OneEditor, LaunchedItem, HeldItem, HeldStage, ItemsClean, Held, Cancelling
<1>4. Tracked'
  BY <1>0, <1>1 DEF QueueInv, Tracked, Live, Alive
<1>5. RestFresh' /\ RecoverCovers'
  BY <1>0, <1>1, <1>2, Shapes DEF RestFresh, RecoverCovers, Held
<1>6. ActiveOnDisk' /\ UnpolledActive' /\ RunningIsSupervised'
  BY <1>0, <1>1 DEF QueueInv, ActiveOnDisk, UnpolledActive, RunningIsSupervised
<1> QED
  BY <1>3, <1>4, <1>5, <1>6 DEF QueueInv

\* recover_state: a running item becomes orphaned with its live process, or queued
\* without one.
LEMMA QueueRecover ==
  ASSUME TypeInv, QueueInv, CancelApart, SvRecover
  PROVE  QueueInv'
<1>0. /\ \A c \in Clients : ~Held(c) /\ rest[c] = {} /\ ~Cancelling(c)
      /\ sv = "recover" /\ step[Server] = "none"
      /\ UNCHANGED <<sv, proc, active, unpolled, cl, item, step>>
  BY ServerAlone DEF SvRecover, SvAt, svVars
<1>1. PICK c \in rest[Server] :
        /\ queue' = [queue EXCEPT ![c.id] =
                       IF Alive(c.pid) THEN [c EXCEPT !.status = "orphaned"]
                                       ELSE [c EXCEPT !.status = "queued", !.pid = NoPid]]
        /\ rest' = [rest EXCEPT ![Server] = @ \ {c}]
  BY DEF SvRecover
<1>2. c \in Items /\ c.id \in Ids /\ c = queue[c.id] /\ c.status = "running"
  BY <1>0, Shapes DEF QueueInv, RestFresh
<1>3. /\ \A i \in Ids \ {c.id} : queue'[i] = queue[i]
      /\ \/ /\ Alive(c.pid) /\ queue'[c.id].status = "orphaned" /\ queue'[c.id].pid = c.pid
         \/ ~Alive(c.pid) /\ queue'[c.id].status = "queued"
      /\ queue'[c.id].hw = c.hw /\ queue'[c.id].creq = c.creq
  BY <1>1, <1>2, Shapes DEF Items
<1>4. rest'[Server] = rest[Server] \ {c} /\ \A x \in Clients : rest'[x] = {}
  BY <1>0, <1>1, Shapes
<1>5. OneEditor' /\ LaunchedItem' /\ HeldItem' /\ HeldStage'
  BY <1>0, <1>4, Shapes DEF OneEditor, LaunchedItem, HeldItem, HeldStage, Held, Cancelling
<1>6. ItemsClean'
  BY <1>0, <1>2, <1>3 DEF QueueInv, ItemsClean, Terminal
<1>7. Tracked'
  <2> SUFFICES ASSUME NEW i \in Ids, NEW p \in Live(i)
               PROVE  queue'[i].status \in {"running", "orphaned"} /\ queue'[i].pid = p
    BY <1>0 DEF Tracked, Live, Alive
  <2>1. queue[i].status \in {"running", "orphaned"} /\ queue[i].pid = p /\ Alive(p)
    BY <1>0 DEF QueueInv, Tracked, Live
  <2> QED
    BY <1>2, <1>3, <2>1
<1>8. RestFresh'
  <2>1. \A d \in rest[Server] : d.id \in Ids /\ d = queue[d.id] /\ d.status = "running"
    BY <1>0, Shapes DEF QueueInv, RestFresh
  <2>2. \A d \in rest'[Server] : d.id # c.id
    BY <1>2, <1>4, <2>1
  <2> QED
    BY <1>0, <1>3, <1>4, <2>1, <2>2, Shapes DEF RestFresh, Held
<1>9. RecoverCovers'
  <2>1. ASSUME NEW i \in Ids, queue'[i].status = "running" PROVE queue'[i] \in rest'[Server]
    <3>1. i # c.id /\ queue'[i] = queue[i]
      BY <1>3, <2>1
    <3>2. queue[i] \in rest[Server] /\ queue[i] # c
      BY <1>0, <2>1, <3>1, Shapes DEF QueueInv, RecoverCovers
    <3> QED
      BY <1>4, <3>1, <3>2
  <2> QED
    BY <2>1 DEF RecoverCovers
<1>10. ActiveOnDisk' /\ UnpolledActive' /\ RunningIsSupervised'
  BY <1>0 DEF QueueInv, ActiveOnDisk, UnpolledActive, RunningIsSupervised
<1> QED
  BY <1>5, <1>6, <1>7, <1>8, <1>9, <1>10 DEF QueueInv

\* The top of the loop: what is to be cancelled, or polled, is what is on disk.
LEMMA QueueTop ==
  ASSUME TypeInv, QueueInv, CancelApart, SvTop
  PROVE  QueueInv'
<1>0. /\ \A c \in Clients : ~Held(c) /\ rest[c] = {} /\ ~Cancelling(c)
      /\ sv = "top" /\ step[Server] = "none" /\ rest[Server] = {} /\ unpolled = {}
      /\ UNCHANGED <<queue, proc, active, cl, item, step>>
  BY ServerAlone DEF SvTop, SvAt, disk, QueueInv, RestFresh, UnpolledActive
<1>1. \/ /\ sv' = "cancel" /\ unpolled' = {}
         /\ rest' = [rest EXCEPT ![Server] =
              {c \in load_items : c.status \in {"queued", "running", "orphaned"}}]
      \/ sv' = "reap" /\ unpolled' = ActiveIds /\ rest' = rest
  BY <1>0 DEF SvTop, SvGoto
<1>2. /\ \A c \in Clients : rest'[c] = {}
      /\ \A c \in rest'[Server] : /\ c.id \in Ids /\ c = queue[c.id]
                                  /\ c.status \in {"queued", "running", "orphaned"}
      /\ rest'[Server] # {} => sv' = "cancel"
  BY <1>0, <1>1, Shapes, Loaded DEF TypeInv
<1>3. OneEditor' /\ LaunchedItem' /\ HeldItem' /\ HeldStage' /\ ItemsClean' /\ RecoverCovers'
  BY <1>0, <1>1, <1>2, Shapes
     DEF QueueInv, OneEditor, LaunchedItem, HeldItem, HeldStage, ItemsClean, RecoverCovers, Held,
         Cancelling
<1>4. Tracked'
  BY <1>0, <1>1 DEF QueueInv, Tracked, Live, Alive
<1>5. RestFresh'
  BY <1>0, <1>1, <1>2, Shapes DEF RestFresh, Held
<1>6. ActiveOnDisk' /\ UnpolledActive' /\ RunningIsSupervised'
  BY <1>0, <1>1 DEF QueueInv, ActiveOnDisk, UnpolledActive, RunningIsSupervised, ActiveIds, Held
<1> QED
  BY <1>3, <1>4, <1>5, <1>6 DEF QueueInv

\* SIGTERM to a process takes it, and nobody else, from the live children.
LEMMA Signalled ==
  ASSUME TypeInv, NEW p, proc' = Kill(p) \/ (proc' = proc /\ ~Alive(p))
  PROVE  \A i \in Ids : Live(i)' = Live(i) \ {p}
<1>1. \A q \in Pids : /\ proc'[q].item = proc[q].item
                      /\ proc'[q].st = "alive" <=> (proc[q].st = "alive" /\ q # p)
  <2>1. CASE proc' = Kill(p)
    BY <2>1, Shapes, Killed
  <2>2. CASE proc' = proc /\ ~Alive(p)
    BY <2>2 DEF Alive
  <2> QED BY <2>1, <2>2
<1> QED
  BY <1>1 DEF Live, Alive

\* An actor takes in hand the end of an item that has not ended and has no live
\* scheduler any more.
LEMMA TakesEnd ==
  ASSUME TypeInv, QueueInv, NEW a \in Actors, NEW it \in Items,
         Hold(a, it, "save"), queue' = queue, active' = active,
         \A b \in Actors \ {a} : ~Held(b),
         it.status \in Terminal, ~it.hw, Live(it.id)' = {},
         queue[it.id].status \in {"queued", "running", "orphaned"},
         queue[it.id].creq = it.creq, it.creq => it.status # "complete",
         active[it.id] = NoPid \/ (a = Server /\ sv' = "reap")
  PROVE  /\ HeldItem' /\ HeldStage' /\ Held(a)' /\ item'[a] = it
         /\ \A b \in Actors \ {a} : ~Held(b)' /\ item'[b] = item[b]
<1>1. /\ item'[a] = it /\ step'[a] = "save" /\ it.id \in Ids
      /\ \A b \in Actors \ {a} : step'[b] = "none" /\ item'[b] = item[b]
  BY Shapes DEF Hold, Held, Items
<1>2. HeldItem'
  <2> SUFFICES ASSUME NEW b \in Actors, Held(b)'
               PROVE  (/\ item[b].id \in Ids
                       /\ item[b].status \in Terminal /\ Live(item[b].id) = {}
                       /\ active[item[b].id] = NoPid \/ (b = Server /\ sv = "reap"))'
    BY DEF HeldItem
  <2>1. b = a
    BY <1>1 DEF Held
  <2> QED
    BY <1>1, <2>1
<1>3. HeldStage'
  BY <1>1 DEF HeldStage, Held
<1> QED
  BY <1>1, <1>2, <1>3 DEF Held

\* Global cancellation of an item: what is to be cancelled has no live scheduler
\* but an orphan, which gets SIGTERM.
LEMMA QueueCancel ==
  ASSUME TypeInv, QueueInv, CancelApart, SvCancel
  PROVE  QueueInv'
<1>0. /\ \A c \in Clients : ~Held(c) /\ rest[c] = {} /\ ~Cancelling(c)
      /\ sv = "cancel" /\ step[Server] = "none" /\ unpolled = {}
      /\ UNCHANGED <<queue, sv, active, unpolled, cl>>
  BY ServerAlone DEF SvCancel, SvAt, svVars, QueueInv, UnpolledActive
<1>1. PICK c \in rest[Server] :
       /\ rest' = [rest EXCEPT ![Server] = @ \ {c}]
       /\ IF c.status = "running"
            THEN UNCHANGED <<proc, item, step>>
            ELSE /\ Hold(Server, [c EXCEPT !.status = "cancelled"], "save")
                 /\ proc' = IF c.status = "orphaned" THEN Kill(c.pid) ELSE proc
  BY DEF SvCancel
<1>2. /\ c \in Items /\ c.id \in Ids /\ c = queue[c.id]
      /\ c.status \in {"queued", "running", "orphaned"}
      /\ \A d \in rest[Server] : d.id \in Ids /\ d = queue[d.id]
                                /\ d.status \in {"queued", "running", "orphaned"}
  BY Shapes DEF QueueInv, RestFresh
<1>3. /\ rest'[Server] = rest[Server] \ {c} /\ \A x \in Clients : rest'[x] = {}
      /\ \A d \in rest'[Server] : d.id # c.id
  BY <1>0, <1>1, <1>2, Shapes
<1>4. OneEditor' /\ LaunchedItem' /\ RecoverCovers' /\ ActiveOnDisk' /\ UnpolledActive'
      /\ RunningIsSupervised' /\ ItemsClean' /\ (HeldItem' /\ HeldStage' /\ Tracked' => QueueInv')
  <2>1. \A x \in Clients : step'[x] = step[x]
    BY <1>1, Shapes DEF Hold
  <2>2. OneEditor' /\ LaunchedItem' /\ RecoverCovers' /\ UnpolledActive'
        /\ RunningIsSupervised' /\ ItemsClean'
    BY <1>0, <1>3, <2>1 DEF QueueInv, OneEditor, LaunchedItem, RecoverCovers,
         UnpolledActive, RunningIsSupervised, ItemsClean, Held, Cancelling
  <2>3. ActiveOnDisk'
    BY <1>0 DEF QueueInv, ActiveOnDisk
  <2>4. RestFresh'
    <3>1. step'[Server] = "none" \/ item'[Server].id = c.id
      <4>1. [c EXCEPT !.status = "cancelled"].id = c.id
        BY <1>2 DEF Items
      <4> QED BY <1>0, <1>1, <4>1, Shapes DEF Hold
    <3> QED
      BY <1>0, <1>2, <1>3, <3>1, Shapes DEF RestFresh, Held
  <2> QED
    BY <2>2, <2>3, <2>4 DEF QueueInv
<1>5. CASE c.status = "running"
  <2>1. UNCHANGED <<proc, item, step>>
    BY <1>1, <1>5
  <2> QED
    BY <1>0, <1>4, <2>1, Shapes DEF QueueInv, HeldItem, HeldStage, Tracked, Live, Alive, Held
<1>6. CASE c.status # "running"
  <2> DEFINE it == [c EXCEPT !.status = "cancelled"]
  <2>1. /\ it \in Items /\ it.id = c.id /\ it.status = "cancelled"
        /\ it.hw = c.hw /\ it.creq = c.creq
    BY <1>2 DEF Items, Status, Terminal
  <2>2. Hold(Server, it, "save") /\ proc' = IF c.status = "orphaned" THEN Kill(c.pid) ELSE proc
    BY <1>1, <1>6
  <2>3. \A i \in Ids : \A p \in Live(i) :
          queue[i].status \in {"running", "orphaned"} /\ queue[i].pid = p
    BY <1>0 DEF QueueInv, Tracked
  <2>4. \A i \in Ids : Live(i)' \subseteq Live(i)
    <3>1. CASE c.status = "orphaned"
      BY <2>2, <3>1, Signalled
    <3>2. CASE c.status # "orphaned"
      BY <2>2, <3>2 DEF Live, Alive
    <3> QED BY <3>1, <3>2
  <2>5. Live(c.id)' = {}
    <3>1. CASE c.status = "orphaned"
      <4>1. Live(c.id)' = Live(c.id) \ {c.pid}
        BY <1>2, <2>2, <3>1, Signalled
      <4> QED BY <1>2, <2>3, <4>1
    <3>2. CASE c.status # "orphaned"
      BY <1>2, <1>6, <2>3, <2>4, <3>2
    <3> QED BY <3>1, <3>2
  <2>6. Tracked'
    BY <1>0, <2>3, <2>4 DEF Tracked
  <2>7. active[c.id] = NoPid /\ ~c.hw
    BY <1>0, <1>2, <1>6 DEF QueueInv, ActiveOnDisk, ItemsClean, Terminal
  <2>8. HeldItem' /\ HeldStage'
    <3>1. \A b \in Actors \ {Server} : ~Held(b)
      BY <1>0, Shapes
    <3> HIDE DEF it
    <3> QED
      BY <1>0, <1>2, <2>1, <2>2, <2>5, <2>7, <3>1, Shapes, TakesEnd DEF Terminal
  <2> QED
    BY <1>4, <2>6, <2>8
<1> QED
  BY <1>5, <1>6

\* The reap loop: a child that has ended is taken out of the table once its end is
\* in the queue.
LEMMA QueuePoll ==
  ASSUME TypeInv, QueueInv, CancelApart, SvPoll
  PROVE  QueueInv'
<1>0. /\ \A c \in Clients : ~Held(c) /\ rest[c] = {} /\ ~Cancelling(c)
      /\ sv = "reap" /\ step[Server] = "none" /\ rest[Server] = {}
      /\ UNCHANGED <<queue, proc, sv, active, cl, rest>>
  BY ServerAlone DEF SvPoll, SvAt, disk, QueueInv, RestFresh
<1>1. PICK i \in unpolled :
       /\ unpolled' = unpolled \ {i}
       /\ IF Alive(active[i])
            THEN UNCHANGED <<item, step>>
            ELSE Hold(Server, [queue[i] EXCEPT !.status = Outcome(queue[i], active[i]),
                                               !.pid = NoPid], "save")
  BY DEF SvPoll
<1>2. /\ i \in Ids /\ active[i] # NoPid /\ queue[i] \in Items /\ queue[i].id = i
      /\ queue[i].status = "running" /\ queue[i].pid = active[i]
      /\ \A j \in unpolled : active[j] # NoPid
  BY <1>0, Shapes DEF QueueInv, UnpolledActive, ActiveOnDisk, Held
<1>3. \A j \in Ids : Live(j)' = Live(j)
  BY <1>0 DEF Live, Alive
<1>4. \A x \in Clients : step'[x] = step[x]
  BY <1>1, Shapes DEF Hold
<1>5. OneEditor' /\ LaunchedItem' /\ RestFresh' /\ RecoverCovers' /\ RunningIsSupervised'
      /\ ItemsClean' /\ ActiveOnDisk'
  BY <1>0, <1>4, Shapes DEF QueueInv, OneEditor, LaunchedItem, RestFresh, RecoverCovers,
       RunningIsSupervised, ItemsClean, ActiveOnDisk, Held, Cancelling
<1>6. Tracked'
  BY <1>0, <1>3 DEF QueueInv, Tracked
<1>7. CASE Alive(active[i])
  <2>1. UNCHANGED <<item, step>>
    BY <1>1, <1>7
  <2> QED
    BY <1>0, <1>1, <1>2, <1>5, <1>6, <2>1, Shapes
       DEF QueueInv, HeldItem, HeldStage, UnpolledActive, Held
<1>8. CASE ~Alive(active[i])
  <2> DEFINE it == [queue[i] EXCEPT !.status = Outcome(queue[i], active[i]), !.pid = NoPid]
  <2>1. /\ Outcome(queue[i], active[i]) \in Terminal
        /\ queue[i].creq => Outcome(queue[i], active[i]) # "complete"
    BY DEF Outcome, Terminal
  <2>2. /\ it \in Items /\ it.id = i /\ it.status \in Terminal
        /\ it.hw = queue[i].hw /\ it.creq = queue[i].creq
        /\ queue[i].creq => it.status # "complete"
    BY <1>2, <2>1 DEF Items, Status
  <2>3. Hold(Server, it, "save")
    BY <1>1, <1>8
  <2>4. Live(i)' = {}
    BY <1>0, <1>2, <1>3, <1>8 DEF QueueInv, Tracked, Live
  <2>5. ~queue[i].hw
    BY <1>2 DEF QueueInv, ItemsClean, Terminal
  <2>6. HeldItem' /\ HeldStage' /\ item'[Server] = it
    <3>1. \A b \in Actors \ {Server} : ~Held(b)
      BY <1>0, Shapes
    <3> HIDE DEF it
    <3> QED
      BY <1>0, <1>2, <2>2, <2>3, <2>4, <2>5, <3>1, Shapes, TakesEnd
  <2>7. UnpolledActive'
    <3> HIDE DEF it
    <3> QED
      BY <1>0, <1>1, <1>2, <2>2, <2>6 DEF UnpolledActive
  <2> QED
    BY <1>5, <1>6, <2>6, <2>7 DEF QueueInv
<1> QED
  BY <1>7, <1>8

\* Dispatch: the chosen item has no live scheduler, so the new one is its only one.
LEMMA QueueDispatch ==
  ASSUME TypeInv, QueueInv, CancelApart, SvDispatch
  PROVE  QueueInv'
<1>0. /\ \A c \in Clients : ~Held(c) /\ rest[c] = {} /\ ~Cancelling(c)
      /\ sv = "dispatch" /\ step[Server] = "none" /\ rest[Server] = {} /\ unpolled = {}
      /\ UNCHANGED <<queue, active, unpolled, cl, rest>>
  BY ServerAlone DEF SvDispatch, SvAt, disk, QueueInv, RestFresh, UnpolledActive
<1>1. PICK c \in choose_queued :
       IF HashMatches(c.id)
         THEN \E p \in Pids :
                /\ Fresh(p)
                /\ proc' = [proc EXCEPT ![p] = [item |-> c.id, st |-> "alive"]]
                /\ Hold(Server, [c EXCEPT !.status = "running", !.pid = p], "none")
                /\ SvGoto("launched")
         ELSE /\ Hold(Server, [c EXCEPT !.status = "failed"], "save")
              /\ UNCHANGED <<proc, sv>>
  BY DEF SvDispatch
<1>2. /\ c \in Items /\ c.id \in Ids /\ c = queue[c.id] /\ c.status = "queued"
  BY Loaded DEF TypeInv, choose_queued, Queued
<1>3. /\ \A i \in Ids : \A p \in Live(i) :
           queue[i].status \in {"running", "orphaned"} /\ queue[i].pid = p
      /\ Live(c.id) = {} /\ active[c.id] = NoPid /\ ~c.hw
  BY <1>0, <1>2 DEF QueueInv, Tracked, ActiveOnDisk, ItemsClean, Terminal
<1>4. /\ \A x \in Clients : step'[x] = step[x]
      /\ sv' \in {"dispatch", "launched"}
  BY <1>0, <1>1, Shapes DEF Hold, SvGoto
<1>5. OneEditor' /\ RestFresh' /\ RecoverCovers' /\ UnpolledActive' /\ RunningIsSupervised'
  BY <1>0, <1>4, Shapes DEF QueueInv, OneEditor, RestFresh, RecoverCovers, UnpolledActive,
       RunningIsSupervised, Held, Cancelling
<1>6. ActiveOnDisk'
  BY <1>0, <1>4 DEF QueueInv, ActiveOnDisk
<1>7. CASE HashMatches(c.id)
  <2>1. PICK p \in Pids :
                /\ Fresh(p)
                /\ proc' = [proc EXCEPT ![p] = [item |-> c.id, st |-> "alive"]]
                /\ Hold(Server, [c EXCEPT !.status = "running", !.pid = p], "none")
                /\ sv' = "launched"
    BY <1>1, <1>7 DEF SvGoto
  <2> DEFINE it == [c EXCEPT !.status = "running", !.pid = p]
  <2>2. it.id = c.id /\ it.pid = p /\ it.status = "running" /\ it.hw = c.hw /\ it.creq = c.creq
    BY <1>2 DEF Items
  <2>3. item'[Server] = it /\ step'[Server] = "none"
    BY <2>1, Shapes DEF Hold
  <2>4. \A i \in Ids : Live(i)' \subseteq Live(i) \cup {q \in {p} : i = c.id}
    BY <2>1, Shapes DEF Live, Alive, Procs
  <2> HIDE DEF it
  <2>5. Tracked'
    <3>1. ASSUME NEW i \in Ids, NEW q \in Live(i)', q \notin Live(i)
          PROVE  i = c.id /\ q = p
      BY <2>4, <3>1
    <3> QED
      BY <1>0, <1>3, <2>1, <2>2, <2>3, <3>1 DEF Tracked
  <2>6. LaunchedItem' /\ ItemsClean'
    BY <1>0, <1>2, <1>3, <2>2, <2>3 DEF QueueInv, LaunchedItem, ItemsClean, Held
  <2>7. HeldItem' /\ HeldStage'
    BY <1>0, <1>4, <2>3, Shapes DEF HeldItem, HeldStage, Held
  <2> QED
    BY <1>5, <1>6, <2>5, <2>6, <2>7 DEF QueueInv
<1>8. CASE ~HashMatches(c.id)
  <2> DEFINE it == [c EXCEPT !.status = "failed"]
  <2>1. /\ it \in Items /\ it.id = c.id /\ it.status = "failed"
        /\ it.hw = c.hw /\ it.creq = c.creq
    BY <1>2 DEF Items, Status, Terminal
  <2>2. Hold(Server, it, "save") /\ UNCHANGED <<proc, sv>>
    BY <1>1, <1>8
  <2>3. \A i \in Ids : Live(i)' = Live(i)
    BY <2>2 DEF Live, Alive
  <2>4. HeldItem' /\ HeldStage'
    <3>1. \A b \in Actors \ {Server} : ~Held(b)
      BY <1>0, Shapes
    <3> HIDE DEF it
    <3> QED
      BY <1>0, <1>2, <1>3, <2>1, <2>2, <2>3, <3>1, Shapes, TakesEnd DEF Terminal
  <2>5. Tracked' /\ LaunchedItem' /\ ItemsClean'
    BY <1>0, <1>3, <2>2, <2>3 DEF QueueInv, Tracked, LaunchedItem, ItemsClean
  <2> QED
    BY <1>5, <1>6, <2>4, <2>5 DEF QueueInv
<1> QED
  BY <1>7, <1>8

\* The new child's pid goes into the queue and the table together.
LEMMA QueueSaveRunning ==
  ASSUME TypeInv, QueueInv, CancelApart, SvSaveRunning
  PROVE  QueueInv'
<1> DEFINE it == item[Server]
<1>0. /\ \A c \in Clients : ~Held(c) /\ rest[c] = {} /\ ~Cancelling(c)
      /\ sv = "launched" /\ step[Server] = "none" /\ rest[Server] = {} /\ unpolled = {}
      /\ UNCHANGED <<proc, unpolled, cl, rest>>
  BY ServerAlone DEF SvSaveRunning, SvAt, QueueInv, RestFresh, UnpolledActive
<1>1. /\ it.id \in Ids /\ it.pid \in Pids /\ it.status = "running" /\ ~it.hw
      /\ queue[it.id].status = "queued"
  BY <1>0 DEF QueueInv, LaunchedItem, ItemsClean
<1>2. /\ queue' = [queue EXCEPT ![it.id] = it] /\ active' = [active EXCEPT ![it.id] = it.pid]
      /\ step' = [step EXCEPT ![Server] = "none"] /\ sv' = "dispatch"
  BY DEF SvSaveRunning, Drop, Hold, SvGoto
<1> HIDE DEF it
<1>3. /\ queue'[it.id] = it /\ active'[it.id] = it.pid
      /\ \A i \in Ids \ {it.id} : queue'[i] = queue[i] /\ active'[i] = active[i]
      /\ \A a \in Actors : step'[a] = "none"
  BY <1>0, <1>1, <1>2, Shapes DEF Held
<1>4. OneEditor' /\ LaunchedItem' /\ HeldItem' /\ HeldStage' /\ RecoverCovers'
  BY <1>0, <1>2, <1>3, Shapes DEF OneEditor, LaunchedItem, HeldItem, HeldStage, RecoverCovers, Held,
       Cancelling
<1>5. RestFresh' /\ UnpolledActive'
  BY <1>0, <1>2, Shapes DEF RestFresh, UnpolledActive
<1>6. ItemsClean' /\ ActiveOnDisk' /\ RunningIsSupervised'
  BY <1>0, <1>1, <1>2, <1>3 DEF QueueInv, ItemsClean, ActiveOnDisk, RunningIsSupervised
<1>7. Tracked'
  <2>1. \A i \in Ids : Live(i)' = Live(i)
    BY <1>0 DEF Live, Alive
  <2>2. \A i \in Ids : \A p \in Live(i) :
           \/ queue[i].status \in {"running", "orphaned"} /\ queue[i].pid = p
           \/ it.id = i /\ it.pid = p
    BY DEF QueueInv, Tracked, it
  <2> QED
    BY <1>1, <1>3, <2>1, <2>2 DEF Tracked
<1> QED
  BY <1>4, <1>5, <1>6, <1>7 DEF QueueInv

\* Death of the supervisor: the queue alone still tells which schedulers run.
LEMMA QueueCrash ==
  ASSUME TypeInv, QueueInv, ChildRecorded, SvCrash
  PROVE  QueueInv'
<1>0. /\ sv # "launched" /\ sv' = "down" /\ active' = [i \in Ids |-> NoPid] /\ unpolled' = {}
      /\ UNCHANGED <<queue, proc, cl>> /\ rest' = [rest EXCEPT ![Server] = {}]
      /\ item' = [item EXCEPT ![Server] = NoItem(0)] /\ step' = [step EXCEPT ![Server] = "none"]
  BY DEF SvCrash, SvGoto, Drop, Hold, disk, ChildRecorded, QueueInv, LaunchedItem, Held
<1>1. /\ rest'[Server] = {} /\ step'[Server] = "none"
      /\ \A c \in Clients : rest'[c] = rest[c] /\ step'[c] = step[c] /\ item'[c] = item[c]
  BY <1>0, Shapes
<1>2. OneEditor' /\ LaunchedItem' /\ RecoverCovers' /\ ItemsClean' /\ ActiveOnDisk'
      /\ UnpolledActive' /\ RunningIsSupervised'
  BY <1>0, <1>1, Shapes DEF QueueInv, OneEditor, LaunchedItem, RecoverCovers, ItemsClean,
       ActiveOnDisk, UnpolledActive, RunningIsSupervised, Held, Cancelling, Quiet
<1>3. \A i \in Ids : Live(i)' = Live(i)
  BY <1>0 DEF Live, Alive
<1>4. Tracked'
  BY <1>0, <1>3 DEF QueueInv, Tracked
<1>5. RestFresh'
  BY <1>0, <1>1, Shapes DEF QueueInv, RestFresh, Held
<1>6. HeldItem' /\ HeldStage'
  <2>1. HeldStage'
    BY <1>0, <1>1, Shapes DEF QueueInv, HeldStage, Held
  <2>2. ASSUME NEW a \in Actors, Held(a)' PROVE HeldItem!(a)!2'
    <3>1. a \in Clients /\ Held(a) /\ item'[a] = item[a] /\ step'[a] = step[a]
      BY <1>1, <2>2, Shapes DEF Held
    <3>2. HeldItem!(a)!2
      BY <3>1 DEF QueueInv, HeldItem
    <3> QED
      BY <1>0, <1>3, <3>1, <3>2
  <2> QED BY <2>1, <2>2 DEF HeldItem
<1> QED
  BY <1>2, <1>4, <1>5, <1>6 DEF QueueInv

\* A submission makes an item out of nothing: nobody has it in hand.
LEMMA QueueSubmit ==
  ASSUME TypeInv, QueueInv, NEW i \in Ids, Submit(i)
  PROVE  QueueInv'
<1>0. /\ queue[i].status = "absent" /\ queue[i] \in Items
      /\ UNCHANGED <<proc, sv, active, unpolled, cl, item, rest, step>>
  BY Shapes DEF Submit, svVars, hands
<1>1. /\ queue'[i].status = "queued" /\ queue'[i].hw = queue[i].hw
      /\ \A j \in Ids \ {i} : queue'[j] = queue[j]
  <2>1. queue' = [queue EXCEPT ![i] = [queue[i] EXCEPT !.status = "queued", !.seq = nextSeq]]
    BY Shapes DEF Submit
  <2> QED
    BY <1>0, <2>1, Shapes DEF Items
<1>2. /\ \A a \in Actors : Held(a) => item[a].id \in Ids \ {i}
      /\ \A a \in Actors : \A c \in rest[a] : c.id \in Ids \ {i}
      /\ sv = "launched" => item[Server].id \in Ids \ {i}
  BY <1>0 DEF QueueInv, HeldItem, HeldStage, RestFresh, LaunchedItem, Terminal
<1>3. OneEditor' /\ LaunchedItem' /\ UnpolledActive' /\ RunningIsSupervised' /\ RecoverCovers'
  BY <1>0, <1>1, <1>2 DEF QueueInv, OneEditor, LaunchedItem, UnpolledActive, RunningIsSupervised,
       RecoverCovers, Held, Cancelling, Quiet
<1>4. HeldStage' /\ ItemsClean'
  BY <1>0, <1>1, <1>2 DEF QueueInv, HeldStage, ItemsClean, Held, Terminal
<1>5. RestFresh'
  BY <1>0, <1>1, <1>2 DEF QueueInv, RestFresh, Held
<1>6. ActiveOnDisk'
  BY <1>0, <1>1, <1>2, Shapes DEF QueueInv, ActiveOnDisk, Held
<1>7. Tracked' /\ HeldItem'
  <2>1. \A j \in Ids : Live(j)' = Live(j)
    BY <1>0 DEF Live, Alive
  <2>2. Tracked'
    BY <1>0, <1>1, <1>2, <2>1 DEF QueueInv, Tracked
  <2>3. ASSUME NEW a \in Actors, Held(a)' PROVE HeldItem!(a)!2'
    <3>1. Held(a) /\ item'[a] = item[a] /\ step'[a] = step[a]
      BY <1>0, <2>3 DEF Held
    <3>2. HeldItem!(a)!2
      BY <3>1 DEF QueueInv, HeldItem
    <3> QED
      BY <1>0, <1>1, <1>2, <2>1, <3>1, <3>2
  <2> QED BY <2>2, <2>3 DEF HeldItem
<1> QED
  BY <1>3, <1>4, <1>5, <1>6, <1>7 DEF QueueInv

\* A cancelling client may begin only while serve sleeps or is down, and alone.
LEMMA BeginsAlone ==
  ASSUME TypeInv, QueueInv, CancelApart, NEW c \in Clients, NEW cmd \in {"cancel", "cancel-all"},
         Begin(c, cmd)
  PROVE  /\ \A d \in Clients : ~Held(d) /\ rest[d] = {} /\ ~Cancelling(d)
         /\ sv \in {"down", "top"} /\ step[Server] = "none" /\ rest[Server] = {} /\ unpolled = {}
  BY ServerAlone DEF Begin, CancelApart, Quiet, QueueInv, RestFresh, UnpolledActive

\* command_cancel: the request to cancel a running item, or the end of another one.
LEMMA QueueClCancel ==
  ASSUME TypeInv, QueueInv, CancelApart, NEW c \in Clients, NEW i \in Ids, ClCancel(c, i)
  PROVE  QueueInv'
<1>0. /\ \A d \in Clients : ~Held(d) /\ rest[d] = {} /\ ~Cancelling(d)
      /\ sv \in {"down", "top"} /\ step[Server] = "none" /\ rest[Server] = {} /\ unpolled = {}
      /\ UNCHANGED <<queue, sv, active, unpolled, rest>> /\ cl' = [cl EXCEPT ![c] = "cancel"]
  BY BeginsAlone DEF ClCancel, svVars
<1>1. /\ queue[i] \in Items /\ queue[i].id = i /\ c \in Actors /\ c # Server
      /\ queue[i].status \in {"queued", "running", "orphaned"} /\ ~queue[i].hw
      /\ queue[i].status # "running" => active[i] = NoPid
  BY <1>0, Shapes DEF ClCancel, QueueInv, ItemsClean, ActiveOnDisk, Terminal
<1>2. /\ \A b \in Actors \ {c} : ~Held(b) /\ step'[b] = "none" /\ item'[b] = item[b]
      /\ cl'[c] = "cancel" /\ \A d \in Clients \ {c} : cl'[d] = cl[d]
  BY <1>0, <1>1, Shapes DEF ClCancel, Hold, Held
<1>3. OneEditor' /\ LaunchedItem' /\ RestFresh' /\ RecoverCovers'
  BY <1>0, <1>1, <1>2, Shapes DEF OneEditor, LaunchedItem, RestFresh, RecoverCovers, Held,
       Cancelling, Quiet
<1>4. ActiveOnDisk' /\ UnpolledActive' /\ RunningIsSupervised' /\ ItemsClean'
  BY <1>0 DEF QueueInv, ActiveOnDisk, UnpolledActive, RunningIsSupervised, ItemsClean, Held
<1>5. \A j \in Ids : \A p \in Live(j) :
        queue[j].status \in {"running", "orphaned"} /\ queue[j].pid = p
  BY <1>0 DEF QueueInv, Tracked
<1>6. CASE queue[i].status = "running"
  <2> DEFINE it == [queue[i] EXCEPT !.creq = TRUE]
  <2>1. Hold(c, it, "save") /\ proc' = proc
    BY <1>6 DEF ClCancel
  <2>2. it.id = i /\ it.status = "running" /\ it.pid = queue[i].pid /\ it.creq /\ ~it.hw
    BY <1>1, <1>6 DEF Items
  <2>3. item'[c] = it /\ step'[c] = "save"
    BY <1>1, <2>1, Shapes DEF Hold
  <2> HIDE DEF it
  <2>4. Tracked'
    BY <1>0, <1>5, <2>1 DEF Tracked, Live, Alive
  <2>5. HeldStage'
    BY <1>0, <1>1, <1>2, <1>6, <2>2, <2>3 DEF HeldStage, Held
  <2>6. HeldItem'
    BY <1>0, <1>1, <1>2, <1>6, <2>2, <2>3 DEF HeldItem, Held
  <2> QED
    BY <1>3, <1>4, <2>4, <2>5, <2>6 DEF QueueInv
<1>7. CASE queue[i].status # "running"
  <2> DEFINE it == [queue[i] EXCEPT !.status = "cancelled"]
  <2>1. /\ Hold(c, it, "save")
        /\ proc' = IF queue[i].status = "orphaned" THEN Kill(queue[i].pid) ELSE proc
    BY <1>7 DEF ClCancel
  <2>2. /\ it \in Items /\ it.id = i /\ it.status = "cancelled"
        /\ it.hw = queue[i].hw /\ it.creq = queue[i].creq
    BY <1>1 DEF Items, Status, Terminal
  <2>3. (\A j \in Ids : Live(j)' \subseteq Live(j)) /\ Live(i)' = {}
    <3>1. CASE queue[i].status = "orphaned"
      BY <1>5, <2>1, <3>1, Signalled
    <3>2. CASE queue[i].status # "orphaned"
      <4>1. \A j \in Ids : Live(j)' = Live(j)
        BY <2>1, <3>2 DEF Live, Alive
      <4> QED BY <1>5, <1>7, <3>2, <4>1
    <3> QED BY <3>1, <3>2
  <2>4. Tracked'
    BY <1>0, <1>5, <2>3 DEF Tracked
  <2> HIDE DEF it
  <2>5. HeldItem' /\ HeldStage'
    BY <1>0, <1>1, <1>2, <1>7, <2>1, <2>2, <2>3, TakesEnd DEF Terminal
  <2> QED
    BY <1>3, <1>4, <2>4, <2>5 DEF QueueInv
<1> QED
  BY <1>6, <1>7

\* command_cancel --all loads what is on disk, ...
LEMMA QueueClCancelAll ==
  ASSUME TypeInv, QueueInv, CancelApart, NEW c \in Clients, ClCancelAll(c)
  PROVE  QueueInv'
<1>0. /\ \A d \in Clients : ~Held(d) /\ rest[d] = {} /\ ~Cancelling(d)
      /\ sv \in {"down", "top"} /\ step[Server] = "none" /\ rest[Server] = {} /\ unpolled = {}
      /\ UNCHANGED <<queue, proc, sv, active, unpolled, item, step>>
      /\ cl' = [cl EXCEPT ![c] = "cancel-all"]
      /\ rest' = [rest EXCEPT ![c] = {d \in load_items : d.status \in {"queued", "running"}}]
  BY BeginsAlone DEF ClCancelAll, svVars
<1>1. /\ cl'[c] = "cancel-all" /\ \A d \in Clients \ {c} : cl'[d] = cl[d]
      /\ \A a \in Actors \ {c} : rest'[a] = {}
      /\ \A d \in rest'[c] : d.id \in Ids /\ d = queue[d.id] /\ d.status \in {"queued", "running"}
  BY <1>0, Shapes, Loaded DEF TypeInv
<1>2. OneEditor' /\ LaunchedItem' /\ RecoverCovers' /\ HeldItem' /\ HeldStage'
  BY <1>0, <1>1, Shapes DEF OneEditor, LaunchedItem, RecoverCovers, HeldItem, HeldStage, Held,
       Cancelling, Quiet
<1>3. RestFresh'
  BY <1>0, <1>1, Shapes DEF RestFresh, Held
<1>4. ActiveOnDisk' /\ UnpolledActive' /\ RunningIsSupervised' /\ ItemsClean'
  BY <1>0 DEF QueueInv, ActiveOnDisk, UnpolledActive, RunningIsSupervised, ItemsClean, Held
<1>5. Tracked'
  BY <1>0 DEF QueueInv, Tracked, Live, Alive
<1> QED
  BY <1>2, <1>3, <1>4, <1>5 DEF QueueInv

\* ... works on one item after the other, each queued with no live scheduler, ...
LEMMA QueueClCancelOne ==
  ASSUME TypeInv, QueueInv, NEW c \in Clients, ClCancelOne(c)
  PROVE  QueueInv'
<1>1. PICK d \in rest[c] :
       /\ rest' = [rest EXCEPT ![c] = @ \ {d}]
       /\ IF d.status = "running" THEN UNCHANGED <<item, step>>
          ELSE Hold(c, [d EXCEPT !.status = "cancelled"], "save")
  BY DEF ClCancelOne
<1>0. /\ Cancelling(c) /\ sv \in {"down", "top"} /\ step[Server] = "none" /\ rest[Server] = {}
      /\ \A x \in Clients \ {c} : step[x] = "none" /\ rest[x] = {} /\ ~Cancelling(x)
      /\ step[c] = "none" /\ unpolled = {} /\ c \in Actors /\ c # Server
      /\ UNCHANGED <<queue, proc, sv, active, unpolled, cl>>
  <2>1. Cancelling(c)
    BY <1>1 DEF QueueInv, OneEditor
  <2> QED
    BY <2>1, ClientAlone, Shapes DEF ClCancelOne, svVars, Held, QueueInv, UnpolledActive
<1>2. /\ d \in Items /\ d.id \in Ids /\ d = queue[d.id] /\ d.status \in {"queued", "running"}
      /\ \A e \in rest[c] : e.id \in Ids /\ e = queue[e.id] /\ e.status \in {"queued", "running"}
  BY <1>0, Shapes DEF QueueInv, RestFresh
<1>3. /\ rest'[c] = rest[c] \ {d} /\ \A a \in Actors \ {c} : rest'[a] = {}
      /\ \A e \in rest'[c] : e.id # d.id
  BY <1>0, <1>1, <1>2, Shapes
<1>4. /\ \A b \in Actors \ {c} : ~Held(b) /\ step'[b] = "none" /\ item'[b] = item[b]
      /\ step'[c] = "none" \/ item'[c].id = d.id
  <2>1. [d EXCEPT !.status = "cancelled"].id = d.id
    BY <1>2 DEF Items
  <2>2. \A b \in Actors \ {c} : step[b] = "none"
    BY <1>0, Shapes
  <2>3. \/ UNCHANGED <<item, step>>
        \/ Hold(c, [d EXCEPT !.status = "cancelled"], "save")
    BY <1>1
  <2> QED
    BY <1>0, <2>1, <2>2, <2>3, Shapes DEF Hold, Held
<1>5. \A j \in Ids : Live(j)' = Live(j)
  BY <1>0 DEF Live, Alive
<1>6. OneEditor' /\ LaunchedItem' /\ RecoverCovers'
  BY <1>0, <1>3, <1>4, Shapes DEF OneEditor, LaunchedItem, RecoverCovers, Held, Cancelling, Quiet
<1>7. RestFresh'
  BY <1>0, <1>2, <1>3, <1>4, Shapes DEF RestFresh, Held
<1>8. ActiveOnDisk' /\ UnpolledActive' /\ RunningIsSupervised' /\ ItemsClean'
  BY <1>0 DEF QueueInv, ActiveOnDisk, UnpolledActive, RunningIsSupervised, ItemsClean, Held
<1>9. Tracked'
  BY <1>0, <1>5 DEF QueueInv, Tracked
<1>10. HeldItem' /\ HeldStage'
  <2>1. CASE d.status = "running"
    BY <1>0, <1>1, <1>4, <2>1 DEF HeldItem, HeldStage, Held
  <2>2. CASE d.status # "running"
    <3> DEFINE it == [d EXCEPT !.status = "cancelled"]
    <3>1. /\ it \in Items /\ it.id = d.id /\ it.status = "cancelled"
          /\ it.hw = d.hw /\ it.creq = d.creq
      BY <1>2 DEF Items, Status, Terminal
    <3>2. Hold(c, it, "save")
      BY <1>1, <2>2
    <3>3. Live(d.id) = {} /\ active[d.id] = NoPid /\ ~d.hw
      BY <1>0, <1>2, <2>2 DEF QueueInv, Tracked, ActiveOnDisk, ItemsClean, Terminal
    <3> HIDE DEF it
    <3> QED
      BY <1>0, <1>2, <1>4, <1>5, <3>1, <3>2, <3>3, TakesEnd DEF Terminal
  <2> QED BY <2>1, <2>2
<1> QED
  BY <1>6, <1>7, <1>8, <1>9, <1>10 DEF QueueInv

\* ... and ends with nothing in hand.
LEMMA QueueClDone ==
  ASSUME TypeInv, QueueInv, NEW c \in Clients, ClDone(c)
  PROVE  QueueInv'
<1>0. /\ UNCHANGED <<queue, proc, sv, active, unpolled, item, rest, step>>
      /\ step[c] = "none" /\ rest[c] = {} /\ cl' = [cl EXCEPT ![c] = "idle"]
  BY DEF ClDone, disk, svVars, hands
<1>1. OneEditor'
  BY <1>0, Shapes DEF QueueInv, OneEditor, Held, Cancelling, Quiet
<1>2. LaunchedItem' /\ RestFresh' /\ HeldStage'
  BY <1>0 DEF QueueInv, LaunchedItem, RestFresh, HeldStage, Held
<1>3. ActiveOnDisk' /\ UnpolledActive' /\ RunningIsSupervised' /\ RecoverCovers' /\ ItemsClean'
  BY <1>0 DEF QueueInv, ActiveOnDisk, UnpolledActive, RunningIsSupervised, RecoverCovers,
       ItemsClean, Held
<1>4. Tracked'
  BY <1>0 DEF QueueInv, Tracked, Live, Alive
<1>5. HeldItem'
  BY <1>0 DEF QueueInv, HeldItem, Live, Alive, Held
<1> QED
  BY <1>1, <1>2, <1>3, <1>4, <1>5 DEF QueueInv

\* The actor that writes an item is the only one at work, and its other copies are
\* copies of other items.
LEMMA Writer ==
  ASSUME TypeInv, QueueInv, CancelApart, NEW a \in Actors, Held(a), a = Server => SvTurn
  PROVE  /\ \A b \in Actors \ {a} : step[b] = "none" /\ rest[b] = {}
         /\ item[a].id \in Ids /\ item[a] \in Items /\ sv # "launched"
         /\ \A c \in rest[a] : c.id # item[a].id
         /\ a # Server => Cancelling(a) /\ sv \in {"down", "top"} /\ unpolled = {}
<1>1. item[a].id \in Ids /\ \A c \in rest[a] : c.id # item[a].id
  BY DEF QueueInv, HeldItem, RestFresh
<1>2. item[a] \in Items
  BY <1>1, Shapes, HeldCopy
<1>3. CASE a = Server
  BY <1>1, <1>2, <1>3, ServerAlone, Shapes DEF Held, QueueInv, LaunchedItem
<1>4. CASE a # Server
  <2>1. a \in Clients /\ Cancelling(a)
    BY <1>4, Shapes DEF QueueInv, OneEditor
  <2> QED
    BY <1>1, <1>2, <1>4, <2>1, ClientAlone, Shapes DEF Held, QueueInv, UnpolledActive
<1> QED
  BY <1>3, <1>4

\* save_item: the end of an item without a scheduler, or a cancel request.
LEMMA QueueSave ==
  ASSUME TypeInv, QueueInv, CancelApart, NEW a \in Actors, SaveItem(a)
  PROVE  QueueInv'
<1> DEFINE it == item[a]
           i  == it.id
<1>0. /\ step[a] = "save" /\ queue' = [queue EXCEPT ![i] = it]
      /\ UNCHANGED <<proc, sv, unpolled, cl, rest>>
  BY DEF SaveItem
<1>1. /\ \A b \in Actors \ {a} : step[b] = "none" /\ rest[b] = {}
      /\ i \in Ids /\ it \in Items /\ sv # "launched"
      /\ \A c \in rest[a] : c.id # i
      /\ a # Server => Cancelling(a) /\ sv \in {"down", "top"} /\ unpolled = {}
  BY <1>0, Writer DEF Held, SaveItem
<1>2. /\ ~it.hw /\ (it.creq => it.status # "complete")
      /\ \/ /\ it.status \in Terminal /\ Live(i) = {}
            /\ active[i] = NoPid \/ (a = Server /\ sv = "reap")
         \/ /\ a # Server /\ it.status = "running"
            /\ queue[i].status = "running" /\ queue[i].pid = it.pid
  BY <1>0, Shapes DEF QueueInv, HeldItem, HeldStage, Held
<1>3. /\ queue'[i] = it /\ \A j \in Ids \ {i} : queue'[j] = queue[j]
      /\ \A j \in Ids : Live(j)' = Live(j)
  BY <1>0, <1>1, Shapes DEF Live, Alive
<1>4. /\ \A b \in Actors \ {a} : step'[b] = "none" /\ item'[b] = item[b]
      /\ active' = active
      /\ \/ it.status \in Terminal /\ item'[a] = it /\ step'[a] = "append"
         \/ it.status = "running" /\ step'[a] = "none"
  <2>1. CASE it.status \in Terminal
    BY <1>1, <1>2, <2>1, Shapes DEF SaveItem, Hold
  <2>2. CASE it.status \notin Terminal
    BY <1>1, <1>2, <2>2, Shapes DEF SaveItem, Finish, Drop, Hold
  <2> QED BY <2>1, <2>2
<1> HIDE DEF it, i
<1>5. OneEditor' /\ LaunchedItem'
  <2>1. \A b \in Actors : (step'[b] # "none" => step[b] # "none") /\ rest'[b] = rest[b]
    BY <1>0, <1>4
  <2> QED
    BY <1>0, <1>1, <2>1, Shapes DEF QueueInv, OneEditor, LaunchedItem, Held, Cancelling, Quiet
<1>6. RestFresh'
  <2>1. /\ rest[Server] # {} => sv \in {"recover", "cancel"}
        /\ sv = "recover" => \A c \in rest[Server] : c.status = "running"
        /\ \A b \in Actors : \A c \in rest[b] :
             /\ c.id \in Ids /\ c = queue[c.id]
             /\ c.status \in {"queued", "running"} \/ (b = Server /\ c.status = "orphaned")
    BY DEF QueueInv, RestFresh
  <2>2. \A b \in Actors : \A c \in rest[b] : c.id # i /\ (Held(b)' => item'[b].id # c.id)
    BY <1>0, <1>1, <1>4 DEF Held, i
  <2> QED
    BY <1>0, <1>3, <2>1, <2>2 DEF RestFresh
<1>7. Tracked'
  BY <1>0, <1>1, <1>2, <1>3 DEF QueueInv, Tracked
<1>8. HeldItem' /\ HeldStage'
  BY <1>0, <1>1, <1>2, <1>3, <1>4 DEF HeldItem, HeldStage, Held, i, Terminal
<1>9. ActiveOnDisk' /\ UnpolledActive'
  <2>1. ActiveOnDisk'
    BY <1>0, <1>1, <1>2, <1>3, <1>4, Shapes DEF QueueInv, ActiveOnDisk, Held, i, it, Terminal
  <2>2. UnpolledActive'
    BY <1>0, <1>1, <1>4 DEF QueueInv, UnpolledActive, Held, i, it
  <2> QED BY <2>1, <2>2
<1>10. RunningIsSupervised' /\ RecoverCovers' /\ ItemsClean'
  BY <1>0, <1>1, <1>2, <1>3, <1>4 DEF QueueInv, RunningIsSupervised, RecoverCovers,
       ItemsClean, Terminal
<1> QED
  BY <1>5, <1>6, <1>7, <1>8, <1>9, <1>10 DEF QueueInv

\* archive_terminal, the line of the history.
LEMMA QueueAppend ==
  ASSUME TypeInv, QueueInv, NEW a \in Actors, AppendHistory(a)
  PROVE  QueueInv'
<1>0. /\ UNCHANGED <<queue, proc, sv, active, unpolled, cl, rest, item>>
      /\ step[a] = "append" /\ step' = [step EXCEPT ![a] = "mark"]
  BY Shapes DEF AppendHistory, Hold, svVars
<1>1. /\ \A b \in Actors : (Held(b)' <=> Held(b)) /\ (step'[b] = "save" <=> step[b] = "save")
      /\ Held(Server)' <=> Held(Server) /\ \A c \in Clients : Held(c)' <=> Held(c)
  BY <1>0, Shapes DEF Held
<1>2. OneEditor' /\ LaunchedItem'
  BY <1>0, <1>1, Shapes DEF QueueInv, OneEditor, LaunchedItem, Cancelling, Quiet
<1>3. RestFresh' /\ HeldStage'
  BY <1>0, <1>1 DEF QueueInv, RestFresh, HeldStage
<1>4. ActiveOnDisk' /\ UnpolledActive' /\ RunningIsSupervised' /\ RecoverCovers' /\ ItemsClean'
  BY <1>0, <1>1, Shapes DEF QueueInv, ActiveOnDisk, UnpolledActive, RunningIsSupervised,
       RecoverCovers, ItemsClean
<1>5. \A j \in Ids : Live(j)' = Live(j)
  BY <1>0 DEF Live, Alive
<1>6. Tracked'
  BY <1>0, <1>5 DEF QueueInv, Tracked
<1>7. HeldItem'
  BY <1>0, <1>1, <1>5 DEF QueueInv, HeldItem
<1> QED
  BY <1>2, <1>3, <1>4, <1>6, <1>7 DEF QueueInv

\* archive_terminal, the mark; the reap loop then deletes the item from its table.
LEMMA QueueMark ==
  ASSUME TypeInv, QueueInv, CancelApart, NEW a \in Actors, MarkArchived(a)
  PROVE  QueueInv'
<1> DEFINE it == item[a]
           i  == it.id
           nw == [it EXCEPT !.hw = TRUE]
<1>0. /\ step[a] = "mark" /\ queue' = [queue EXCEPT ![i] = nw]
      /\ UNCHANGED <<proc, sv, unpolled, cl, rest>>
      /\ active' = IF a = Server /\ sv = "reap" THEN [active EXCEPT ![i] = NoPid] ELSE active
      /\ item' = [item EXCEPT ![a] = NoItem(0)] /\ step' = [step EXCEPT ![a] = "none"]
  BY DEF MarkArchived, Finish, Drop, Hold
<1>1. /\ \A b \in Actors \ {a} : step[b] = "none" /\ rest[b] = {}
      /\ i \in Ids /\ it \in Items /\ sv # "launched"
      /\ \A c \in rest[a] : c.id # i
      /\ a # Server => Cancelling(a) /\ sv \in {"down", "top"} /\ unpolled = {}
  BY <1>0, Writer DEF Held, MarkArchived
<1>2. /\ it.status \in Terminal /\ Live(i) = {} /\ queue[i] = it
      /\ active[i] = NoPid \/ (a = Server /\ sv = "reap")
  BY <1>0, Shapes DEF QueueInv, HeldItem, HeldStage, Held
<1>3. nw.status = it.status /\ nw.creq = it.creq
  BY <1>1 DEF Items
<1>4. it.creq => it.status # "complete"
  BY <1>1, <1>2 DEF QueueInv, ItemsClean
<1>5. (\A j \in unpolled : j # i) /\ (sv = "reap" /\ Held(Server) => item[Server].id = i)
  BY <1>0, <1>1, Shapes DEF QueueInv, UnpolledActive, Held
<1> HIDE DEF nw, it, i
<1>6. /\ queue'[i] = nw /\ \A j \in Ids \ {i} : queue'[j] = queue[j] /\ active'[j] = active[j]
      /\ active'[i] = NoPid
      /\ \A j \in Ids : Live(j)' = Live(j)
      /\ \A b \in Actors : step'[b] = "none"
  BY <1>0, <1>1, <1>2, Shapes DEF Live, Alive
<1>7. OneEditor' /\ LaunchedItem' /\ HeldItem' /\ HeldStage'
  BY <1>0, <1>1, <1>6, Shapes DEF QueueInv, OneEditor, LaunchedItem, HeldItem, HeldStage, Held,
       Cancelling, Quiet
<1>8. RestFresh'
  <2>1. \A b \in Actors : \A c \in rest[b] : c.id # i /\ ~Held(b)'
    BY <1>0, <1>1, <1>6 DEF Held
  <2> QED
    BY <1>0, <1>6, <2>1 DEF QueueInv, RestFresh
<1>9. Tracked'
  BY <1>0, <1>1, <1>2, <1>6 DEF QueueInv, Tracked
<1>10. ActiveOnDisk' /\ UnpolledActive'
  BY <1>0, <1>5, <1>6, Shapes DEF QueueInv, ActiveOnDisk, UnpolledActive, Held
<1>11. RunningIsSupervised' /\ RecoverCovers' /\ ItemsClean'
  BY <1>0, <1>1, <1>2, <1>3, <1>4, <1>6 DEF QueueInv, RunningIsSupervised, RecoverCovers,
       ItemsClean, Terminal
<1> QED
  BY <1>7, <1>8, <1>9, <1>10, <1>11 DEF QueueInv

\* Every step preserves QueueInv, when no cancel overlaps serve and serve is not
\* killed between Popen and the write of the pid.
LEMMA QueueInvInductive ==
  ASSUME CancelApart, ChildRecorded, TypeInv, QueueInv, [Next]_vars
  PROVE  QueueInv'
<1>1. CASE UNCHANGED vars
  <2>1. UNCHANGED <<queue, sv, active, unpolled, cl, item, rest, step, proc>>
    BY <1>1 DEF vars, disk, svVars, hands
  <2> QED
    BY <2>1, QueueApart DEF Live, Alive
<1>2. CASE SvStart \/ SvCrash
  BY <1>2, QueueStart, QueueCrash
<1>3. CASE SvSignal
  <2>1. \A i \in Ids : Live(i)' \subseteq Live(i)
    BY <1>3, Shapes DEF SvSignal, Live, Alive, Procs
  <2> QED
    BY <1>3, <2>1, QueueApart DEF SvSignal, hands
<1>4. CASE SvStep
  <2>1. Server \in Actors
    BY DEF Actors
  <2>2. CASE SaveItem(Server) \/ AppendHistory(Server) \/ MarkArchived(Server)
    BY <2>1, <2>2, QueueSave, QueueAppend, QueueMark
  <2>3. CASE SvRecover \/ SvTop \/ SvCancel \/ SvPoll \/ SvDispatch \/ SvSaveRunning
    BY <2>3, QueueRecover, QueueTop, QueueCancel, QueuePoll, QueueDispatch, QueueSaveRunning
  <2>4. CASE SvRecovered \/ SvCancelled \/ SvReaped \/ SvDispatched \/ SvTelemetry
    BY <2>4, QueueGoto
  <2> QED BY <1>4, <2>2, <2>3, <2>4 DEF SvStep
<1>5. ASSUME NEW p \in Pids, ChildExit(p) PROVE QueueInv'
  <2>1. \A i \in Ids : Live(i)' \subseteq Live(i)
    <3>1. PICK r \in {"ok", "bad"} : proc' = [proc EXCEPT ![p].st = r]
      BY <1>5 DEF ChildExit
    <3>2. \A q \in Pids : /\ proc'[q].item = proc[q].item
                          /\ proc'[q].st = "alive" => proc[q].st = "alive"
      BY <3>1, Shapes DEF Procs
    <3> QED
      BY <3>2 DEF Live, Alive
  <2> QED
    BY <1>5, <2>1, QueueApart DEF ChildExit, disk, svVars, hands
<1>6. ASSUME NEW i \in Ids, Submit(i) PROVE QueueInv'
  BY <1>6, QueueSubmit
<1>7. ASSUME NEW i \in Ids, EditManifest(i) PROVE QueueInv'
  BY <1>7, QueueApart DEF EditManifest, svVars, hands, Live, Alive
<1>8. ASSUME NEW c \in Clients, ClStep(c) PROVE QueueInv'
  <2>1. c \in Actors
    BY DEF Actors
  <2> QED
    BY <1>8, <2>1, QueueClCancelOne, QueueClDone, QueueSave, QueueAppend, QueueMark DEF ClStep
<1>9. ASSUME NEW c \in Clients, ClCommand(c) PROVE QueueInv'
  <2>1. CASE Touch(c, "pause", "PAUSE") \/ Touch(c, "drain", "DRAIN") \/ ClResume(c)
    BY <2>1, QueueApart DEF Touch, ClResume, svVars, hands, Live, Alive
  <2> QED
    BY <1>9, <2>1, QueueClCancelAll, QueueClCancel DEF ClCommand
<1> QED
  BY <1>1, <1>2, <1>3, <1>4, <1>5, <1>6, <1>7, <1>8, <1>9 DEF Next

\* In a new control root nothing runs and nobody has anything in hand.
LEMMA QueueInvInit == Init => QueueInv
<1> SUFFICES ASSUME Init PROVE QueueInv
  OBVIOUS
<1>1. /\ \A i \in Ids : queue[i].status = "absent" /\ ~queue[i].hw /\ ~queue[i].creq /\ Live(i) = {}
      /\ \A a \in Actors : step[a] = "none" /\ rest[a] = {}
      /\ \A c \in Clients : step[c] = "none" /\ rest[c] = {} /\ cl[c] = "idle"
      /\ step[Server] = "none" /\ rest[Server] = {}
  BY DEF Init, NoItem, Actors, Live, Alive
<1>2. sv = "down" /\ unpolled = {} /\ \A i \in Ids : active[i] = NoPid
  BY DEF Init
<1> QED
  BY <1>1, <1>2 DEF QueueInv, OneEditor, Tracked, LaunchedItem, HeldItem, RestFresh, ActiveOnDisk,
       UnpolledActive, RunningIsSupervised, RecoverCovers, HeldStage, ItemsClean, Held, Cancelling

\* As long as no cancel command overlaps an iteration of serve, and serve is not killed
\* between Popen and save_item, two schedulers of one queue item are never alive at
\* once, whatever crashes, restarts, signals, submissions and edits happen.
THEOREM OneChild ==
  ASSUME CancelApart, ChildRecorded
  PROVE  Spec => []OneLiveChildPerItem
<1>1. TypeInv /\ QueueInv => OneLiveChildPerItem
  BY DEF QueueInv, OneLiveChildPerItem, Tracked, LaunchedItem
<1>2. TypeInv /\ QueueInv /\ [Next]_vars => QueueInv'
  BY QueueInvInductive
<1> QED
  BY <1>1, <1>2, TypeInvInit, TypeInvInductive, QueueInvInit, PTL DEF Spec

-----------------------------------------------------------------------------
(* What a step may do to the file of an item *)

\* What a step may do to the file of an item: its end is final, and so is a request to
\* cancel it.
ItemKept(i) ==
  /\ queue[i].status \in Terminal => queue'[i].status = queue[i].status
  /\ queue[i].creq => queue'[i].creq /\ queue'[i].status # "complete"

\* Only save_item ends an item.
NotEnded == \A i \in Ids : queue'[i].status \in Terminal => queue'[i].status = queue[i].status

\* save_item writes over an item that has not ended.
LEMMA SaveKeeps ==
  ASSUME TypeInv, QueueInv, NEW a \in Actors, SaveItem(a)
  PROVE  /\ \A i \in Ids : ItemKept(i)
         /\ item[a].id \in Ids /\ queue[item[a].id].status \notin Terminal /\ ~item[a].hw
         /\ queue'[item[a].id] = item[a]
         /\ \A i \in Ids \ {item[a].id} : queue'[i] = queue[i]
<1>1. /\ item[a].id \in Ids /\ queue[item[a].id].status \notin Terminal /\ ~item[a].hw
      /\ queue[item[a].id].creq => item[a].creq /\ item[a].status # "complete"
  BY DEF QueueInv, HeldItem, HeldStage, Held, SaveItem, Terminal
<1>2. /\ queue'[item[a].id] = item[a]
      /\ \A i \in Ids \ {item[a].id} : queue'[i] = queue[i]
  BY <1>1, Shapes DEF SaveItem
<1> QED
  BY <1>1, <1>2 DEF QueueInv, ItemsClean, ItemKept

\* The mark of archive_terminal changes nothing else of the item.
LEMMA MarkKeeps ==
  ASSUME TypeInv, QueueInv, NEW a \in Actors, MarkArchived(a)
  PROVE  \A i \in Ids : queue'[i].status = queue[i].status /\ queue'[i].creq = queue[i].creq
<1> DEFINE it == item[a]
<1>1. it.id \in Ids /\ queue[it.id] = it
  BY DEF QueueInv, HeldItem, HeldStage, Held, MarkArchived
<1>2. queue' = [queue EXCEPT ![it.id] = [it EXCEPT !.hw = TRUE]]
  BY DEF MarkArchived
<1>3. it \in Items
  BY <1>1, Shapes
<1>4. [it EXCEPT !.hw = TRUE].status = it.status /\ [it EXCEPT !.hw = TRUE].creq = it.creq
  BY <1>3 DEF Items
<1> HIDE DEF it
<1> QED
  BY <1>1, <1>2, <1>4, Shapes

\* The other writes to the queue: recover_state, the new child, a submission.
LEMMA OtherKeeps ==
  ASSUME TypeInv, QueueInv, SvRecover \/ SvSaveRunning \/ \E i \in Ids : Submit(i)
  PROVE  (\A i \in Ids : ItemKept(i)) /\ NotEnded
<1>1. CASE SvRecover
  <2>1. PICK c \in rest[Server] : queue' = [queue EXCEPT ![c.id] =
                       IF Alive(c.pid) THEN [c EXCEPT !.status = "orphaned"]
                                       ELSE [c EXCEPT !.status = "queued", !.pid = NoPid]]
    BY <1>1 DEF SvRecover
  <2>2. c \in Items /\ c.id \in Ids /\ c = queue[c.id] /\ c.status = "running"
    BY <1>1, Shapes DEF QueueInv, RestFresh, SvRecover, SvAt
  <2>3. /\ \A i \in Ids \ {c.id} : queue'[i] = queue[i]
        /\ queue'[c.id].status \in {"orphaned", "queued"} /\ queue'[c.id].creq = c.creq
    BY <2>1, <2>2, Shapes DEF Items
  <2> QED
    BY <2>2, <2>3 DEF QueueInv, ItemsClean, ItemKept, NotEnded, Terminal
<1>2. CASE SvSaveRunning
  <2> DEFINE it == item[Server]
  <2>1. /\ it.id \in Ids /\ it.status = "running" /\ it.creq = queue[it.id].creq
        /\ queue[it.id].status = "queued"
    BY <1>2 DEF QueueInv, LaunchedItem, ItemsClean, SvSaveRunning, SvAt
  <2>2. queue'[it.id] = it /\ \A i \in Ids \ {it.id} : queue'[i] = queue[i]
    BY <1>2, <2>1, Shapes DEF SvSaveRunning
  <2> HIDE DEF it
  <2> QED
    BY <2>1, <2>2 DEF QueueInv, ItemsClean, ItemKept, NotEnded, Terminal
<1>3. ASSUME NEW i \in Ids, Submit(i) PROVE (\A j \in Ids : ItemKept(j)) /\ NotEnded
  <2>1. queue' = [queue EXCEPT ![i] = [queue[i] EXCEPT !.status = "queued", !.seq = nextSeq]]
    BY <1>3, Shapes DEF Submit
  <2>2. queue[i] \in Items /\ queue[i].status = "absent"
    BY <1>3, Shapes DEF Submit
  <2>3. /\ \A j \in Ids \ {i} : queue'[j] = queue[j]
        /\ queue'[i].status = "queued" /\ queue'[i].creq = queue[i].creq
    BY <2>1, <2>2, Shapes DEF Items
  <2> QED
    BY <2>2, <2>3 DEF QueueInv, ItemsClean, ItemKept, NotEnded, Terminal
<1> QED
  BY <1>1, <1>2, <1>3

\* Nothing else writes to the queue.
LEMMA QueueWrites ==
  ASSUME [Next]_vars
  PROVE  \/ queue' = queue
         \/ \E a \in Actors : SaveItem(a) \/ MarkArchived(a)
         \/ SvRecover \/ SvSaveRunning \/ \E i \in Ids : Submit(i)
<1> USE DEF disk
<1>1. CASE UNCHANGED vars
  BY <1>1 DEF vars
<1>2. CASE SvStart \/ SvSignal \/ SvCrash
  BY <1>2 DEF SvStart, SvSignal, SvCrash
<1>3. CASE SvStep
  BY <1>3 DEF SvStep, SvRecovered, SvTop, SvCancel, SvCancelled, SvPoll, SvReaped, SvDispatch,
       SvDispatched, SvTelemetry, AppendHistory, Actors
<1>4. ASSUME NEW p \in Pids, ChildExit(p) PROVE queue' = queue
  BY <1>4 DEF ChildExit
<1>5. ASSUME NEW i \in Ids, EditManifest(i) PROVE queue' = queue
  BY <1>5 DEF EditManifest
<1>6. ASSUME NEW c \in Clients, ClStep(c)
      PROVE  queue' = queue \/ SaveItem(c) \/ MarkArchived(c)
  BY <1>6 DEF ClStep, ClCancelOne, ClDone, AppendHistory
<1>7. ASSUME NEW c \in Clients, ClCommand(c) PROVE queue' = queue
  BY <1>7 DEF ClCommand, Touch, ClResume, ClCancelAll, ClCancel
<1> QED
  BY <1>1, <1>2, <1>3, <1>4, <1>5, <1>6, <1>7 DEF Next, Actors

\* Whatever stale copy is written, a terminal item keeps its status and a recorded
\* cancel request is kept: the queue changes as TerminalStays and CancelSticks say.
LEMMA ItemsKept ==
  ASSUME TypeInv, QueueInv, [Next]_vars
  PROVE  \A i \in Ids : ItemKept(i)
<1>1. CASE queue' = queue
  BY <1>1 DEF QueueInv, ItemsClean, ItemKept
<1>2. ASSUME NEW a \in Actors, SaveItem(a) PROVE \A i \in Ids : ItemKept(i)
  BY <1>2, SaveKeeps
<1>3. ASSUME NEW a \in Actors, MarkArchived(a) PROVE \A i \in Ids : ItemKept(i)
  BY <1>3, MarkKeeps DEF QueueInv, ItemsClean, ItemKept
<1> QED
  BY <1>1, <1>2, <1>3, OtherKeeps, QueueWrites

\* With cancel commands kept apart from serve's iterations, and no crash between Popen
\* and save_item, an item that has ended is never revived or given another end: no
\* copy an actor still holds is older than that end.
THEOREM EndsAreFinal ==
  ASSUME CancelApart, ChildRecorded
  PROVE  Spec => TerminalStays
<1>1. TypeInv /\ QueueInv /\ [Next]_vars =>
        [\A i \in Ids : queue[i].status \in Terminal => queue'[i].status = queue[i].status]_queue
  BY ItemsKept DEF ItemKept
<1>2. TypeInv /\ QueueInv /\ [Next]_vars => QueueInv'
  BY QueueInvInductive
<1> QED
  BY <1>1, <1>2, TypeInvInit, TypeInvInductive, QueueInvInit, PTL DEF Spec, TerminalStays

\* Under the same hypotheses a cancel request recorded by command_cancel is never lost
\* by recover_state, a relaunch or the reap loop, and its item never completes.
THEOREM RequestsStick ==
  ASSUME CancelApart, ChildRecorded
  PROVE  Spec => CancelSticks
<1>1. TypeInv /\ QueueInv /\ [Next]_vars =>
        [\A i \in Ids : queue[i].creq => queue'[i].creq /\ queue'[i].status # "complete"]_queue
  BY ItemsKept DEF ItemKept
<1>2. TypeInv /\ QueueInv /\ [Next]_vars => QueueInv'
  BY QueueInvInductive
<1> QED
  BY <1>1, <1>2, TypeInvInit, TypeInvInductive, QueueInvInit, PTL DEF Spec, CancelSticks

-----------------------------------------------------------------------------
(* The history *)

\* Kills are counted, and no step uncounts one.
LEMMA KillsCounted ==
  ASSUME TypeInv, [Next]_vars
  PROVE  /\ used["crash"] \in Nat /\ used'["crash"] \in Nat
         /\ used'["crash"] >= used["crash"]
         /\ SvCrash => used'["crash"] = used["crash"] + 1
<1>1. used \in [{"crash", "signal", "command", "edit"} -> Nat]
  BY DEF TypeInv, TypeOK
<1>2. \/ used' = used /\ ~SvCrash
      \/ \E k \in {"crash", "signal", "command", "edit"} :
           used' = [used EXCEPT ![k] = @ + 1] /\ (SvCrash => k = "crash")
  <2>1. SvCrash => used' = [used EXCEPT !["crash"] = @ + 1]
    BY DEF SvCrash, Spend
  <2>2. CASE ~SvCrash
    <3>1. ASSUME NEW c \in Clients, ClCommand(c)
          PROVE  used' = [used EXCEPT !["command"] = @ + 1]
      BY <3>1 DEF ClCommand, Touch, ClResume, ClCancelAll, ClCancel, Begin, Spend
    <3>2. ASSUME NEW c \in Clients, ClStep(c) PROVE used' = used
      BY <3>2 DEF ClStep, ClCancelOne, ClDone, SaveItem, AppendHistory, MarkArchived
    <3>3. ASSUME NEW i \in Ids, Submit(i) \/ EditManifest(i)
          PROVE  used' = used \/ used' = [used EXCEPT !["edit"] = @ + 1]
      BY <3>3 DEF Submit, EditManifest, Spend
    <3>4. ASSUME NEW p \in Pids, ChildExit(p) PROVE used' = used
      BY <3>4 DEF ChildExit
    <3>5. SvSignal => used' = [used EXCEPT !["signal"] = @ + 1]
      BY DEF SvSignal, Spend
    <3>6. SvStep => used' = used
      BY DEF SvStep, SvRecover, SvRecovered, SvTop, SvCancel, SvCancelled, SvPoll, SvReaped,
        SvDispatch, SvSaveRunning, SvDispatched, SvTelemetry, SaveItem, AppendHistory, MarkArchived
    <3>7. SvStart \/ UNCHANGED vars => used' = used
      BY DEF SvStart, vars
    <3> QED
      BY <2>2, <3>1, <3>2, <3>3, <3>4, <3>5, <3>6, <3>7 DEF Next
  <2> QED
    BY <2>1, <2>2
<1> QED
  BY <1>1, <1>2

\* A subset of a set of items is finite and not larger.
LEMMA FewerItems ==
  ASSUME NEW S \in SUBSET Ids, NEW T \in SUBSET S
  PROVE  Cardinality(T) \in Nat /\ Cardinality(S) \in Nat /\ Cardinality(T) <= Cardinality(S)
  BY FS_Subset, FS_CardinalityType, IdsAssumption

\* Steps that end no item and neither reach nor leave the append.
LEMMA HistoryApart ==
  ASSUME HistoryInv, history' = history,
         used["crash"] \in Nat, used'["crash"] \in Nat, used'["crash"] >= used["crash"],
         \A i \in Ids : queue'[i].status = queue[i].status
                         \/ {queue[i].status, queue'[i].status} \cap Terminal = {},
         \A a \in Actors : \/ step[a] # "append" /\ step'[a] # "append"
                           \/ step'[a] = step[a] /\ item'[a] = item[a]
  PROVE  HistoryInv'
<1>1. \A i \in Ids : Appending(i)' <=> Appending(i)
  BY DEF Appending
<1>2. Lost' = Lost
  BY <1>1 DEF Lost, Unrecorded
<1>3. Cardinality(Lost) \in Nat
  BY FewerItems DEF Lost, Unrecorded
<1> QED
  BY <1>1, <1>2, <1>3 DEF HistoryInv

\* The three writes: the end is saved, then its line appended, then the mark set.
LEMMA HistoryWrites ==
  ASSUME TypeInv, QueueInv, HistoryInv, CancelApart, [Next]_vars, NEW a \in Actors,
         SaveItem(a) \/ AppendHistory(a) \/ MarkArchived(a)
  PROVE  HistoryInv'
<1>0. /\ step[a] \in {"save", "append", "mark"} /\ item[a].id \in Ids
      /\ \A b \in Actors \ {a} : step[b] = "none" /\ step'[b] = "none"
  BY Writer, Shapes DEF Held, SaveItem, AppendHistory, MarkArchived, Finish, Drop, Hold
<1>a. PICK i \in Ids : i = item[a].id
  BY <1>0
<1>k. used["crash"] \in Nat /\ used' = used
  BY KillsCounted DEF SaveItem, AppendHistory, MarkArchived
<1>1. CASE SaveItem(a)
  <2>1. /\ queue[i].status \notin Terminal /\ ~item[a].hw /\ queue'[i] = item[a]
        /\ \A j \in Ids \ {i} : queue'[j] = queue[j]
        /\ history' = history /\ step[a] = "save"
    BY <1>1, <1>a, SaveKeeps DEF SaveItem
  <2>2. IF item[a].status \in Terminal THEN step'[a] = "append" /\ item'[a] = item[a]
                                        ELSE step'[a] = "none"
    BY <1>1, <2>1, Shapes DEF SaveItem, Finish, Drop, Hold
  <2>3. \A j \in Ids \ {i} : ~Appending(j) /\ ~Appending(j)'
    BY <1>0, <1>a, <2>1, <2>2 DEF Appending
  <2>4. queue'[i].status \in Terminal => Appending(i)'
    BY <1>a, <2>1, <2>2 DEF Appending
  <2>5. history[i] = <<>>
    BY <2>1 DEF HistoryInv
  <2>6. Lost' = Lost
    BY <2>1, <2>3, <2>4 DEF Lost, Unrecorded
  <2> QED
    BY <1>k, <2>1, <2>3, <2>5, <2>6 DEF HistoryInv
<1>2. CASE AppendHistory(a)
  <2>1. /\ step[a] = "append" /\ item' = item /\ queue' = queue /\ step'[a] = "mark"
        /\ history' = [history EXCEPT ![i] = Append(@, item[a].status)]
    BY <1>2, <1>a, Shapes DEF AppendHistory, Hold
  <2>2. item[a].status \in Terminal /\ queue[i].status = item[a].status
    BY <1>a, <2>1 DEF QueueInv, HeldItem, HeldStage, Held
  <2>3. Appending(i) /\ \A j \in Ids : ~Appending(j)' /\ (j # i => ~Appending(j))
    BY <1>0, <1>a, <2>1 DEF Appending
  <2>4. history[i] = <<>>
    BY <2>3 DEF HistoryInv
  <2>5. history'[i] = <<queue[i].status>> /\ \A j \in Ids \ {i} : history'[j] = history[j]
    BY <2>1, <2>2, <2>4 DEF TypeInv, TypeOK
  <2>6. history'[i] # <<>>
    BY <2>5
  <2>7. Lost' = Lost
    BY <2>1, <2>3, <2>5, <2>6 DEF Lost, Unrecorded
  <2> QED
    BY <1>k, <2>1, <2>2, <2>3, <2>5, <2>7 DEF HistoryInv
<1>3. CASE MarkArchived(a)
  <2>1. \A j \in Ids : queue'[j].status = queue[j].status
    BY <1>3, MarkKeeps
  <2>2. history' = history /\ step[a] = "mark" /\ step'[a] = "none"
    BY <1>3, Shapes DEF MarkArchived, Finish, Drop, Hold
  <2>3. \A b \in Actors : step[b] # "append" /\ step'[b] # "append"
    BY <1>0, <2>2
  <2>4. used["crash"] \in Nat /\ used'["crash"] \in Nat /\ used'["crash"] >= used["crash"]
    BY <1>k
  <2> QED
    BY <2>1, <2>2, <2>3, <2>4, HistoryApart
<1> QED
  BY <1>1, <1>2, <1>3

\* A kill drops what serve had in hand: one more end may stay without its line.
LEMMA HistoryCrash ==
  ASSUME TypeInv, QueueInv, HistoryInv, SvCrash
  PROVE  HistoryInv'
<1>1. /\ history' = history /\ queue' = queue /\ item' = [item EXCEPT ![Server] = NoItem(0)]
      /\ step' = [step EXCEPT ![Server] = "none"]
  BY DEF SvCrash, Drop, Hold, disk
<1>2. used["crash"] \in Nat /\ used'["crash"] = used["crash"] + 1
  BY KillsCounted DEF Next
<1>3. \A i \in Ids : Appending(i)' => Appending(i)
  BY <1>1, Shapes DEF Appending
<1>4. Lost' \subseteq Lost \cup {item[Server].id}
  <2> SUFFICES ASSUME NEW i \in Lost', i \notin Lost PROVE i = item[Server].id
    OBVIOUS
  <2>1. i \in Unrecorded /\ Appending(i) /\ ~Appending(i)'
    BY <1>1 DEF Lost, Unrecorded
  <2>2. PICK a \in Actors : step[a] = "append" /\ item[a].id = i
    BY <2>1 DEF Appending
  <2>3. a # Server => step'[a] = "append" /\ item'[a] = item[a]
    BY <1>1, <2>2, Shapes
  <2> QED
    BY <2>1, <2>2, <2>3 DEF Appending
<1>5. IsFiniteSet(Lost) /\ Cardinality(Lost) \in Nat
  BY FS_Subset, FS_CardinalityType, IdsAssumption DEF Lost, Unrecorded
<1>6. /\ IsFiniteSet(Lost \cup {item[Server].id})
      /\ Cardinality(Lost \cup {item[Server].id}) <= Cardinality(Lost) + 1
      /\ Cardinality(Lost \cup {item[Server].id}) \in Nat
  <2>1. CASE item[Server].id \in Lost
    <3>1. Lost \cup {item[Server].id} = Lost
      BY <2>1
    <3> QED BY <1>5, <3>1
  <2>2. CASE item[Server].id \notin Lost
    <3>1. /\ IsFiniteSet(Lost \cup {item[Server].id})
          /\ Cardinality(Lost \cup {item[Server].id}) = Cardinality(Lost) + 1
      BY <1>5, <2>2, FS_AddElement, Zenon
    <3> QED BY <1>5, <3>1
  <2> QED BY <2>1, <2>2
<1>7. Cardinality(Lost') \in Nat /\ Cardinality(Lost') <= Cardinality(Lost) + 1
  BY <1>4, <1>5, <1>6, FS_Subset, FS_CardinalityType
<1>8. Cardinality(Lost') <= used'["crash"]
  BY <1>2, <1>5, <1>7 DEF HistoryInv
<1> QED
  BY <1>1, <1>3, <1>8 DEF HistoryInv

\* The steps that take an item in hand, drop nothing that is being appended.
LEMMA HistoryHands ==
  ASSUME TypeInv, QueueInv, [Next]_vars, ~SvCrash,
         ~\E a \in Actors : SaveItem(a) \/ AppendHistory(a) \/ MarkArchived(a)
  PROVE  /\ history' = history
         /\ \A a \in Actors : \/ step[a] # "append" /\ step'[a] # "append"
                              \/ step'[a] = step[a] /\ item'[a] = item[a]
<1> DEFINE Ok == /\ history' = history
                 /\ \A a \in Actors : \/ step[a] # "append" /\ step'[a] # "append"
                                      \/ step'[a] = step[a] /\ item'[a] = item[a]
<1> USE DEF disk, hands
<1>1. CASE UNCHANGED vars
  BY <1>1 DEF vars
<1>2. CASE SvStart \/ SvSignal
  BY <1>2 DEF SvStart, SvSignal
<1>4. CASE SvRecover \/ SvRecovered \/ SvTop \/ SvCancelled \/ SvReaped
           \/ SvDispatched \/ SvTelemetry
  BY <1>4 DEF SvRecover, SvRecovered, SvTop, SvCancelled, SvReaped, SvDispatched, SvTelemetry
<1>5. CASE SvCancel \/ SvPoll \/ SvDispatch \/ SvSaveRunning
  <2>1. step[Server] = "none" /\ history' = history
    BY <1>5 DEF SvCancel, SvPoll, SvDispatch, SvSaveRunning, SvAt
  <2>2. UNCHANGED <<item, step>> \/ \E it, s : s # "append" /\ Hold(Server, it, s)
    <3>1. CASE SvCancel
      BY <3>1 DEF SvCancel
    <3>2. CASE SvPoll
      BY <3>2 DEF SvPoll
    <3>3. CASE SvDispatch
      BY <3>3 DEF SvDispatch
    <3>4. CASE SvSaveRunning
      BY <3>4 DEF SvSaveRunning, Drop
    <3> QED BY <1>5, <3>1, <3>2, <3>3, <3>4
  <2> QED
    BY <2>1, <2>2, Shapes DEF Hold
<1>6. ASSUME NEW p \in Pids, ChildExit(p) PROVE Ok
  BY <1>6 DEF ChildExit
<1>7. ASSUME NEW i \in Ids, Submit(i) \/ EditManifest(i) PROVE Ok
  BY <1>7 DEF Submit, EditManifest
<1>8. ASSUME NEW c \in Clients, ClCancelOne(c) \/ ClDone(c) PROVE Ok
  <2>1. step[c] = "none" /\ history' = history /\ c \in Actors
        /\ (UNCHANGED <<item, step>> \/ \E it : Hold(c, it, "save"))
    BY <1>8, Shapes DEF ClCancelOne, ClDone
  <2> QED
    BY <2>1, Shapes DEF Hold
<1>9. ASSUME NEW c \in Clients, ClCommand(c) PROVE Ok
  <2>1. CASE Touch(c, "pause", "PAUSE") \/ Touch(c, "drain", "DRAIN") \/ ClResume(c)
             \/ ClCancelAll(c)
    BY <2>1 DEF Touch, ClResume, ClCancelAll
  <2>2. ASSUME NEW i \in Ids, ClCancel(c, i) PROVE Ok
    <3>1. cl[c] = "idle" /\ step[c] = "none" /\ c \in Actors
      BY <2>2, Shapes DEF ClCancel, Begin, QueueInv, OneEditor, Cancelling, Held
    <3>2. history' = history /\ \E it : Hold(c, it, "save")
      BY <2>2 DEF ClCancel
    <3> QED
      BY <3>1, <3>2, Shapes DEF Hold
  <2> QED
    BY <1>9, <2>1, <2>2 DEF ClCommand
<1> HIDE DEF Ok
<1>10. ASSUME SvStep PROVE Ok
  BY <1>4, <1>5, <1>10, Shapes DEF SvStep, Ok
<1>11. ASSUME NEW c \in Clients, ClStep(c) PROVE Ok
  BY <1>8, <1>11, Shapes DEF ClStep
<1> QED
  BY <1>1, <1>2, <1>6, <1>7, <1>9, <1>10, <1>11 DEF Next, Ok

\* Every step preserves HistoryInv.
LEMMA HistoryInvInductive ==
  ASSUME CancelApart, TypeInv, QueueInv, HistoryInv, [Next]_vars
  PROVE  HistoryInv'
<1>1. CASE \E a \in Actors : SaveItem(a) \/ AppendHistory(a) \/ MarkArchived(a)
  BY <1>1, HistoryWrites
<1>2. CASE SvCrash
  BY <1>2, HistoryCrash
<1>3. CASE ~SvCrash /\ ~\E a \in Actors : SaveItem(a) \/ AppendHistory(a) \/ MarkArchived(a)
  <2>1. \A i \in Ids : queue'[i].status = queue[i].status
                      \/ {queue[i].status, queue'[i].status} \cap Terminal = {}
    <3>1. CASE queue' = queue
      BY <3>1
    <3>2. CASE queue' # queue
      BY <1>3, <3>2, QueueWrites, OtherKeeps DEF ItemKept, NotEnded
    <3> QED BY <3>1, <3>2
  <2> QED
    BY <1>3, <2>1, HistoryHands, HistoryApart, KillsCounted
<1> QED
  BY <1>1, <1>2, <1>3

\* The history is true and each kill costs at most one line, for any number of items,
\* clients and kills, those between the write of an end and its line included, if no
\* cancel overlaps serve and serve is not killed with an unrecorded child
\* (archive_terminal).
THEOREM HistoryIsFaithful ==
  ASSUME CancelApart, ChildRecorded
  PROVE  Spec => []HistoryFaithful
<1>1. HistoryInv => HistoryFaithful
  <2> SUFFICES ASSUME HistoryInv, BetweenWrites PROVE HistoryFaithful
    BY DEF HistoryFaithful
  <2>1. Lost = Unrecorded
    BY DEF Lost, Appending, BetweenWrites
  <2> QED
    BY <2>1 DEF HistoryInv, HistoryFaithful
<1>2. Init => HistoryInv
  <2> SUFFICES ASSUME Init PROVE HistoryInv
    OBVIOUS
  <2>1. Lost = {}
    BY DEF Init, Lost, Unrecorded, NoItem, Terminal
  <2> QED
    BY <2>1, FS_EmptySet DEF Init, HistoryInv
<1>3. TypeInv /\ QueueInv /\ [Next]_vars => QueueInv'
  BY QueueInvInductive
<1>4. TypeInv /\ QueueInv /\ HistoryInv /\ [Next]_vars => HistoryInv'
  BY HistoryInvInductive
<1> QED
  BY <1>1, <1>2, <1>3, <1>4, TypeInvInit, TypeInvInductive, QueueInvInit, PTL DEF Spec

-----------------------------------------------------------------------------
(* Launches after a marker *)

\* The number of children is a number, and a new one adds one.
LEMMA ActiveCount ==
  ASSUME TypeInv
  PROVE  /\ Cardinality(ActiveIds) \in Nat
         /\ \A i \in Ids \ ActiveIds :
              Cardinality(ActiveIds \cup {i}) = Cardinality(ActiveIds) + 1
<1>1. IsFiniteSet(ActiveIds)
  BY IdsAssumption, FS_Subset DEF ActiveIds
<1> QED
  BY <1>1, FS_CardinalityType, FS_AddElement

\* Steps that stay where serve is, launch nothing and leave the table alone, with a
\* marker added at most.
LEMMA LateApart ==
  ASSUME TypeInv, LateInv, UNCHANGED <<sv, seen, active>>,
         (late' = late /\ markers \subseteq markers') \/ late' = 0
  PROVE  LateInv'
<1>1. ActiveIds' = ActiveIds
  BY DEF ActiveIds
<1> QED
  BY <1>1, ActiveCount, MaxActiveAssumption DEF LateInv, TypeInv, TypeOK

\* Every step preserves LateInv.
LEMMA LateInvInductive ==
  ASSUME TypeInv, QueueInv, LateInv, [Next]_vars
  PROVE  LateInv'
<1> USE DEF disk, svVars
<1>0. late \in Nat /\ MaxActive \in Nat \ {0} /\ Cardinality(ActiveIds) \in Nat
  BY ActiveCount, MaxActiveAssumption DEF TypeInv, TypeOK
<1>1. CASE UNCHANGED vars
  BY <1>1, LateApart DEF vars
<1>2. CASE SvStart \/ SvCrash \/ SvRecovered \/ SvDispatched \/ SvTelemetry
  <2>1. sv' \in {"recover", "down", "top", "telemetry"} /\ UNCHANGED <<late, markers>>
    BY <1>2 DEF SvStart, SvCrash, SvRecovered, SvDispatched, SvTelemetry, SvGoto
  <2> QED
    BY <2>1 DEF LateInv
<1>3. CASE SvRecover \/ SvCancel \/ SvPoll
  BY <1>3, LateApart DEF SvRecover, SvCancel, SvPoll
<1>4. CASE SvTop
  <2>1. /\ UNCHANGED <<late, markers>> /\ markers \subseteq seen'
        /\ (sv' = "cancel" /\ "CANCEL" \in markers) \/ sv' = "reap"
    BY <1>4 DEF SvTop, SvGoto
  <2> QED
    BY <2>1 DEF LateInv
<1>5. CASE SvCancelled
  BY <1>5 DEF SvCancelled, SvAt, SvGoto, LateInv
<1>6. CASE SvReaped
  <2>1. /\ UNCHANGED <<late, markers, seen, active>> /\ sv = "reap"
        /\ (sv' = "dispatch" /\ seen = {}) \/ sv' = "telemetry"
    BY <1>6 DEF SvReaped, SvAt, SvGoto
  <2>2. ActiveIds' = ActiveIds
    BY <2>1 DEF ActiveIds
  <2> QED
    BY <1>0, <2>1, <2>2 DEF LateInv
<1>7. CASE SvDispatch
  <2>1. /\ sv = "dispatch" /\ Cardinality(ActiveIds) < MaxActive
        /\ UNCHANGED <<markers, seen, active>>
        /\ \/ sv' = "launched" /\ late' = IF markers = {} THEN 0 ELSE late + 1
           \/ sv' = sv /\ late' = late
    BY <1>7 DEF SvDispatch, SvAt, SvGoto
  <2>2. ActiveIds' = ActiveIds
    BY <2>1 DEF ActiveIds
  <2>3. seen = {} /\ late <= Cardinality(ActiveIds) /\ (markers = {} => late = 0)
    BY <2>1 DEF LateInv
  <2> QED
    BY <1>0, <2>1, <2>2, <2>3 DEF LateInv
<1>8. CASE SvSaveRunning
  <2> DEFINE i == item[Server].id
  <2>1. /\ sv = "launched" /\ sv' = "dispatch" /\ UNCHANGED <<late, markers, seen>>
        /\ active' = [active EXCEPT ![i] = item[Server].pid]
    BY <1>8 DEF SvSaveRunning, SvAt, SvGoto
  <2>2. i \in Ids /\ item[Server].pid # NoPid /\ active[i] = NoPid
    BY <2>1, ActorAssumption DEF QueueInv, LaunchedItem, ActiveOnDisk, NoPid
  <2> HIDE DEF i
  <2>3. ActiveIds' = ActiveIds \cup {i} /\ i \in Ids \ ActiveIds
    BY <2>1, <2>2, Shapes DEF ActiveIds
  <2>4. Cardinality(ActiveIds') = Cardinality(ActiveIds) + 1
    BY <2>3, ActiveCount
  <2>5. Cardinality(ActiveIds)' = Cardinality(ActiveIds) + 1
    BY <2>4
  <2> QED
    BY <1>0, <2>1, <2>5 DEF LateInv
<1>9. ASSUME NEW a \in Actors, SaveItem(a) \/ AppendHistory(a) \/ MarkArchived(a) PROVE LateInv'
  <2>1. UNCHANGED <<sv, seen, late, markers>> /\ (active' = active \/ sv = "reap")
    BY <1>9 DEF SaveItem, AppendHistory, MarkArchived, Finish
  <2>2. CASE active' = active
    BY <2>1, <2>2, LateApart
  <2>3. CASE sv = "reap"
    BY <2>1, <2>3 DEF LateInv
  <2> QED BY <2>1, <2>2, <2>3
<1>10. CASE SvSignal
  BY <1>10, LateApart DEF SvSignal
<1>11. ASSUME NEW p \in Pids, ChildExit(p) PROVE LateInv'
  BY <1>11, LateApart DEF ChildExit
<1>12. ASSUME NEW i \in Ids, Submit(i) \/ EditManifest(i) PROVE LateInv'
  BY <1>12, LateApart DEF Submit, EditManifest
<1>13. ASSUME NEW c \in Clients, ClStep(c) \/ ClCommand(c) PROVE LateInv'
  <2>1. CASE ClCancelOne(c) \/ ClDone(c)
    BY <2>1, LateApart DEF ClCancelOne, ClDone
  <2>2. CASE ClCommand(c)
    BY <2>2, LateApart DEF ClCommand, Touch, ClResume, ClCancelAll, ClCancel
  <2>3. c \in Actors
    BY DEF Actors
  <2> QED
    BY <1>9, <1>13, <2>1, <2>2, <2>3 DEF ClStep
<1>14. CASE SvStep
  BY <1>2, <1>3, <1>4, <1>5, <1>6, <1>7, <1>8, <1>9, <1>14, Shapes DEF SvStep
<1> QED
  BY <1>1, <1>2, <1>10, <1>11, <1>12, <1>13, <1>14 DEF Next

\* serve's picture of its children is right after every step, crashes and restarts
\* included: every live scheduler is named by its queue item (or about to be), every
\* running item is one of serve's own children, and a PAUSE, DRAIN or CANCEL marker
\* is overtaken by at most MaxActive launches.
THEOREM ChildrenKnown ==
  ASSUME CancelApart, ChildRecorded
  PROVE  Spec => []ChildrenAccounted
<1>1. TypeInv /\ QueueInv /\ LateInv => ChildrenAccounted
  BY DEF QueueInv, Tracked, LateInv, ChildrenAccounted, NoUntrackedChild, LateLaunchBound
<1>2. Init => LateInv
  BY MaxActiveAssumption DEF Init, LateInv
<1>3. TypeInv /\ QueueInv /\ [Next]_vars => QueueInv'
  BY QueueInvInductive
<1>4. TypeInv /\ QueueInv /\ LateInv /\ [Next]_vars => LateInv'
  BY LateInvInductive
<1> QED
  BY <1>1, <1>2, <1>3, <1>4, TypeInvInit, TypeInvInductive, QueueInvInit, PTL DEF Spec
=============================================================================
