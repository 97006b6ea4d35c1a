--------------------------- MODULE MCControlRoot ---------------------------
(* One control root with the processes that contend for its two shared     *)
(* files: supervisors for SERVER.lock, submissions for control.json.  A    *)
(* behaviour is about one of the files (topic).                            *)
EXTENDS ServerLock, Submission

VARIABLE topic

rootVars == <<lockVars, submitVars>>

RootInit == LockInit /\ SubmitInit

RootNext ==
  \/ topic = "serve" /\ LockNext /\ UNCHANGED submitVars
  \/ topic = "submit" /\ SubmitNext /\ UNCHANGED lockVars

RootSpec ==
  /\ topic \in {"serve", "submit"} /\ RootInit
  /\ [][RootNext /\ UNCHANGED topic]_<<topic, rootVars>>
=============================================================================
