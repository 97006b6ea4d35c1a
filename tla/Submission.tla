----------------------------- MODULE Submission -----------------------------
(***************************************************************************)
(* command_submit of ppc-lab-control, step by step.  A submission reads    *)
(* next_seq from control.json, derives its id from it unless --id is       *)
(* given, tests that queue/<id>.json does not exist, writes that file and  *)
(* then writes next_seq back.  No lock is taken, so two submissions may    *)
(* interleave, and one may be killed half way.                             *)
(***************************************************************************)
EXTENDS Naturals

CONSTANTS
  Subs,           \* the submit invocations, each made once
  Names,          \* ids given with --id
  SerialSubmit    \* TRUE: nobody submits while another submit is running (an
                  \* assumption on use); kills may come at any step all the same

ASSUME SubmissionAssumption ==
  SerialSubmit \in BOOLEAN /\ Names \cap Nat = {}

VARIABLES
  sub,       \* where each submission is
  seq,      \* the next_seq it read
  id,       \* the item id it uses: a name, or the number in run-%06d
  queue,    \* the item files: [id, seq]
  nextSeq   \* next_seq of control.json

submitVars == <<sub, seq, id, queue, nextSeq>>

Busy == {"check", "item", "state"}
Over == {"done", "exists", "killed"}
ItemIds == Names \cup Nat

SubmitTypeOK ==
  /\ sub \in [Subs -> Busy \cup Over \cup {"new"}]
  /\ seq \in [Subs -> Nat] /\ id \in [Subs -> ItemIds]
  /\ queue \subseteq [id : ItemIds, seq : Nat]
  /\ nextSeq \in Nat \ {0}

SubmitGoto(s, l) == sub' = [sub EXCEPT ![s] = l]

SubmitInit ==
  /\ sub = [s \in Subs |-> "new"]
  /\ seq = [s \in Subs |-> 0] /\ id = [s \in Subs |-> 0]
  /\ queue = {} /\ nextSeq = 1

\* Nothing in the code serialises submissions: it is the caller who may.
MayStart(s) == SerialSubmit => \A t \in Subs : sub[t] \notin Busy

\* control_state: read next_seq and settle on the id.
ReadState(s) ==
  /\ sub[s] = "new" /\ MayStart(s)
  /\ seq' = [seq EXCEPT ![s] = nextSeq]
  /\ \E n \in Names \cup {nextSeq} : id' = [id EXCEPT ![s] = n]
  /\ SubmitGoto(s, "check")
  /\ UNCHANGED <<queue, nextSeq>>

\* `if path.exists()`: an id that is taken is an error.
CheckPath(s) ==
  /\ sub[s] = "check"
  /\ SubmitGoto(s, IF \E r \in queue : r.id = id[s] THEN "exists" ELSE "item")
  /\ UNCHANGED <<seq, id, queue, nextSeq>>

\* save_item: os.replace puts the file in place whatever is there by now.
SaveItem(s) ==
  /\ sub[s] = "item"
  /\ queue' = {r \in queue : r.id # id[s]} \cup {[id |-> id[s], seq |-> seq[s]]}
  /\ SubmitGoto(s, "state")
  /\ UNCHANGED <<seq, id, nextSeq>>

\* (mutant) The old value is written back.
SaveState_same(s) ==
  /\ sub[s] = "state" /\ nextSeq' = seq[s] /\ SubmitGoto(s, "done")
  /\ UNCHANGED <<seq, id, queue>>

\* save_control_state: next_seq = seq + 1, from the value read at the start.
SaveState(s) ==
  /\ sub[s] = "state"
  /\ nextSeq' = seq[s] + 1
  /\ SubmitGoto(s, "done")
  /\ UNCHANGED <<seq, id, queue>>

\* The process is killed.  Between its two writes this leaves an item whose number
\* is handed out again; a later submission without --id then finds that id taken.
SubmitKilled(s) ==
  /\ sub[s] \in Busy
  /\ SubmitGoto(s, "killed")
  /\ UNCHANGED <<seq, id, queue, nextSeq>>

SubmitNext ==
  \E s \in Subs :
    ReadState(s) \/ CheckPath(s) \/ SaveItem(s) \/ SaveState(s) \/ SubmitKilled(s)

SubmitSpec == SubmitInit /\ [][SubmitNext]_submitVars

-----------------------------------------------------------------------------
(* Properties *)

\* Accepted submissions, the ones command_submit reported as queued, have increasing
\* sequence numbers: no two share one, and whoever reads next_seq from now on gets a
\* larger one than all of them, whatever killed submissions left behind.
UniqueSeq ==
  /\ \A s, t \in Subs : sub[s] = "done" /\ sub[t] = "done" /\ seq[s] = seq[t] => s = t
  /\ \A s \in Subs : sub[s] = "done" => seq[s] < nextSeq
=============================================================================
