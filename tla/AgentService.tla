---------------------------- MODULE AgentService ----------------------------
(***************************************************************************)
(* What the agent promises of the requests it accepts (agent/snmp_agent.c, *)
(* the comment of netsnmp_handle_request): each is worked on once and      *)
(* answered once, a SET alone, and nothing else while a SET is worked on.  *)
(***************************************************************************)
EXTENDS Naturals

CONSTANT Requests

VARIABLES stage,        \* "new", "refused", "waiting", "active" or "answered"
          sets          \* the SETs accepted and not answered yet

avars == <<stage, sets>>

AInit ==
    /\ stage = [r \in Requests |-> "new"]
    /\ sets = {}

Move(r, from, to) == stage[r] = from /\ stage' = [stage EXCEPT ![r] = to]

Refuse(r) == Move(r, "new", "refused") /\ UNCHANGED sets

Accept(r) == Move(r, "new", "waiting") /\ sets' \in {sets, sets \cup {r}}

Start(r) ==
    /\ \A s \in Requests \ {r} : stage[s] = "active" => {r, s} \cap sets = {}
    /\ Move(r, "waiting", "active")
    /\ UNCHANGED sets

Answer(r) ==
    /\ Move(r, "active", "answered")
    /\ sets' = sets \ {r}

ANext == \E r \in Requests : Refuse(r) \/ Accept(r) \/ Start(r) \/ Answer(r)

ASpec == AInit /\ [][ANext]_avars

=============================================================================
