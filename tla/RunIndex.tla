------------------------------ MODULE RunIndex ------------------------------
(***************************************************************************)
(* What the run index of agents/common/run_store.py promises its readers:  *)
(* a map from runs to their last reported status that is changed one run   *)
(* at a time.  RunStore shows that the index file implements it, as long   *)
(* as all its writers live in one process.                                 *)
(***************************************************************************)
CONSTANTS Runs, Status

VARIABLE index

None == "none"    \* a run without an entry
Entry == Status \cup {None}

Init == index = [r \in Runs |-> None]

\* _update_index: one run's entry is set.
Put(r, s) == index' = [index EXCEPT ![r] = s]

\* _remove_from_index: one run's entry is dropped.
Remove(r) == index' = [index EXCEPT ![r] = None]

Next == \E r \in Runs : Remove(r) \/ \E s \in Status : Put(r, s)

Spec == Init /\ [][Next]_index
=============================================================================
