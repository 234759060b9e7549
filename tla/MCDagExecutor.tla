---------------------------- MODULE MCDagExecutor ----------------------------
(***************************************************************************)
(* Instances of DagExecutor for TLC.                                       *)
(***************************************************************************)
EXTENDS DagExecutor

Plan(size, deps, retries, threshold, handled, gated, actions) ==
  [size |-> size, deps |-> deps, retries |-> retries, threshold |-> threshold,
   handled |-> handled, gated |-> gated, actions |-> actions, capable |-> TRUE]

\* Every dependency graph over n topologically ordered nodes.
Dags(n) == {g \in [1..n -> SUBSET (1..n)] : \A m \in 1..n : \A d \in g[m] : d < m}

\* All graphs over three nodes whose last may pause the run.  Its second node is
\* an action; the first one's handler is not registered in the graphs where the
\* last depends on it, and there one failure is enough for the breaker if the
\* second depends on it too.
GeneralPlans ==
  {Plan(3, g, [n \in 1..3 |-> 1], IF 1 \in g[2] \cap g[3] THEN 1 ELSE 2,
        IF 1 \in g[3] THEN 2..3 ELSE 1..3, {3}, {2}) : g \in Dags(3)}

\* A no_capability plan with a node, as the executor's tests build it; the
\* planner's has none.
Clarify ==
  [size |-> 1, deps |-> [m \in 1..1 |-> {}], retries |-> [m \in 1..1 |-> 1],
   threshold |-> 2, handled |-> {1}, gated |-> {}, actions |-> {}, capable |-> FALSE]

\* A node with retries whose two attempts may run at the same time.
Retried == Plan(2, [n \in 1..2 |-> {}], [n \in 1..2 |-> 2], 2, 1..2, {}, {})

\* Every plan of the planner, its embed node with one attempt: a second one is
\* what Retried is for.
MCPlans == PlansOf(1, 2) \cup {ActionPlan(1), Retried, Clarify} \cup GeneralPlans
PlannerPlans == PlansOf(2, 2)

MCFields == {"password"}
MCSecret == {"password"}
=============================================================================
