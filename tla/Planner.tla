------------------------------- MODULE Planner -------------------------------
(***************************************************************************)
(* agents/orchestrator/planner.py with common/search_wrapper.py: from the  *)
(* kind of a request and the replies of the search API to the plan the     *)
(* executor is given.  Wording, and the rules that tell a command from a   *)
(* question, are left out: a request is blank, a question or a command.    *)
(***************************************************************************)
EXTENDS Integers

\* The shape _build_graph and the planner leave a plan in: nodes numbered by
\* their place in the topological order, so that a dependency comes first.
PlanShape(p) ==
  /\ p.size \in Nat
  /\ p.deps \in [1..p.size -> SUBSET (1..p.size)]
  /\ \A n \in 1..p.size : \A d \in p.deps[n] : d < n
  /\ p.retries \in [1..p.size -> Nat]
  /\ p.threshold \in Nat \ {0}
  /\ p.handled \subseteq 1..p.size     \* nodes whose handler_key is registered
  /\ p.gated \subseteq 1..p.size       \* nodes whose handler may ask a human
  /\ p.actions \subseteq 1..p.size     \* nodes of type execute_action
  /\ p.capable \in BOOLEAN             \* FALSE: plan.status = "no_capability"
  /\ ~p.capable => p.size <= 1 /\ p.gated = {}

-----------------------------------------------------------------------------
(* search_wrapper.search                                                   *)

MaxAttempts == 3
Reply == {"results", "empty", "malformed", "client_error", "server_error", "raised"}

\* A reply with a body ends the loop, and so does a 4xx; anything else is
\* tried again.
EndsSearch(reply) == reply \in {"results", "empty", "malformed", "client_error"}

\* How many requests go out when the API would reply like this.
Attempts(replies) ==
  IF \E k \in 1..MaxAttempts : EndsSearch(replies[k])
  THEN CHOOSE k \in 1..MaxAttempts :
         EndsSearch(replies[k]) /\ \A j \in 1..(k - 1) : ~EndsSearch(replies[j])
  ELSE MaxAttempts

LastReply(replies) == replies[Attempts(replies)]

\* A body that is JSON but not of the API's shape (a list, "results" null) is
\* only looked at behind the attempts, and raises out of search.
SearchRaises(hasKey, replies) == hasKey /\ LastReply(replies) = "malformed"

\* Without an API key, and after the last failed attempt, the search has simply
\* found nothing.
Found(hasKey, replies) == hasKey /\ LastReply(replies) = "results"

-----------------------------------------------------------------------------
(* build_plan.  retries is DAGNode's default, threshold the breaker's.      *)

Pages == 1    \* the node "fetch"
Embed == 2    \* the node "embed"

ResearchPlan(retries, threshold) ==
  [size |-> 2, deps |-> [n \in 1..2 |-> IF n = Embed THEN {Pages} ELSE {}],
   retries |-> [n \in 1..2 |-> IF n = Pages THEN 1 ELSE retries],
   threshold |-> threshold, handled |-> 1..2, gated |-> {Pages}, actions |-> {},
   capable |-> TRUE]

ActionPlan(threshold) ==
  [size |-> 1, deps |-> [n \in 1..1 |-> {}], retries |-> [n \in 1..1 |-> 1],
   threshold |-> threshold, handled |-> {1}, gated |-> {}, actions |-> {1},
   capable |-> TRUE]

NoCapability(threshold) ==
  [size |-> 0, deps |-> [n \in 1..0 |-> {}], retries |-> [n \in 1..0 |-> 0],
   threshold |-> threshold, handled |-> {}, gated |-> {}, actions |-> {},
   capable |-> FALSE]

\* A question is researched whatever the search has found; a command needs a
\* page to start from.  A blank transcript is refused before it is searched.
BuildPlan(request, found, retries, threshold) ==
  CASE request = "question" -> ResearchPlan(retries, threshold)
    [] request = "command" /\ found -> ActionPlan(threshold)
    [] request = "command" /\ ~found -> NoCapability(threshold)

\* Every plan POST /trigger can hand to execute_plan; where the search raises
\* there is none, and the client is told of a server error.
PlansOf(retries, threshold) ==
  {BuildPlan(request, found, retries, threshold) :
     request \in {"question", "command"},
     found \in {f \in BOOLEAN :
                  \E hasKey \in BOOLEAN, replies \in [1..MaxAttempts -> Reply] :
                    ~SearchRaises(hasKey, replies) /\ f = Found(hasKey, replies)}}
=============================================================================
