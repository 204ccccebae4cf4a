----------------------------- MODULE XorServer ------------------------------
(***************************************************************************)
(* What the parity device promises the driver: a verify task, once handed  *)
(* over, is XORed into the verify disk exactly once and in one step. No    *)
(* buffer, counter, semaphore or interrupt is visible at this level.       *)
(***************************************************************************)
CONSTANTS TaskIds, Sectors, Value, Xor(_, _)

VARIABLES
  verify,  \* contents of the verify disk
  issued,  \* the tasks ever handed over
  todo     \* those not folded in: [id, delta], delta on some sectors

serverVars == <<verify, issued, todo>>

Deltas == UNION {[S -> Value] : S \in SUBSET Sectors}

Init ==
  /\ verify \in [Sectors -> Value]
  /\ issued = {}
  /\ todo = {}

\* The driver hands over a task under an identity it has not used.
Issue(id, delta) ==
  /\ id \notin issued
  /\ issued' = issued \cup {id}
  /\ todo' = todo \cup {[id |-> id, delta |-> delta]}
  /\ UNCHANGED verify

\* The device folds one in.
Fold(task) ==
  /\ task \in todo
  /\ todo' = todo \ {task}
  /\ verify' = [s \in Sectors |-> IF s \in DOMAIN task.delta
                                  THEN Xor(verify[s], task.delta[s])
                                  ELSE verify[s]]
  /\ UNCHANGED issued

Next ==
  \/ \E id \in TaskIds, delta \in Deltas : Issue(id, delta)
  \/ \E task \in todo : Fold(task)

Spec == Init /\ [][Next]_serverVars

\* No task is left behind.
EveryTaskFolded ==
  \A id \in TaskIds : id \in issued ~> \A task \in todo : task.id # id
=============================================================================
