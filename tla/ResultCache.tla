---------------------------- MODULE ResultCache ----------------------------
(***************************************************************************)
(* What ppc-lab-fleet promises about reuse.  A result file and the shared  *)
(* cache hold results under keys; a key names a job, the content of its    *)
(* input and an engine, and a result is represented by what it was         *)
(* computed from.  Whatever is found under a key, by whom and however much *)
(* later, is the one result that executing that key yields or, in a result *)
(* file only, the note that the execution brought no answer.  The shared   *)
(* cache holds successes only, each of them filed in a result file first,  *)
(* and never loses one.                                                    *)
(***************************************************************************)
CONSTANTS Files, Keys, Succeeds, None,
          Yield    \* [Keys -> results]: what executing a key yields

VARIABLES
  files,   \* [Files -> a record or None]: the result directory
  shared   \* a set of records: the shared cache

Init == files = [f \in Files |-> None] /\ shared = {}

\* The result of k, computed or taken from the cache, is filed under f.
File(f, k) ==
  /\ \E r \in {Yield[k], None} : files' = [files EXCEPT ![f] = [key |-> k, res |-> r]]
  /\ UNCHANGED shared

\* A success that is filed becomes available to everybody.
Publish(k) ==
  /\ Yield[k] \in Succeeds /\ \E f \in Files : files[f] = [key |-> k, res |-> Yield[k]]
  /\ shared' = shared \cup {[key |-> k, res |-> Yield[k]]}
  /\ UNCHANGED files

Next == \/ \E f \in Files, k \in Keys : File(f, k)
        \/ \E k \in Keys : Publish(k)

Spec == Init /\ [][Next]_<<files, shared>>
=============================================================================
