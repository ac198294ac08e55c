-------------------------------- MODULE Quota --------------------------------
(***************************************************************************)
(* What the rate limit of the agents promises (api/v1/agents.py 139-156):  *)
(* one counter, which decides each request in one step in the order they   *)
(* reach it, and is renewed from time to time.  An answer once given is    *)
(* not taken back; a request may be lost before it is answered, and be     *)
(* charged or not.                                                         *)
(***************************************************************************)
EXTENDS Naturals

CONSTANTS Requests, Limit

VARIABLES
  used,     \* requests charged since the quota was renewed
  verdict   \* per request: asked, decided, answered, or lost

Init ==
  /\ used = 0
  /\ verdict = [r \in Requests |-> "asked"]

\* The answer follows with the decision or later.
Decisions == IF used < Limit THEN {"granted", "accepted"} ELSE {"refused", "rejected"}

Decide(r) ==
  /\ verdict[r] = "asked"
  /\ used' = used + 1
  /\ \E v \in Decisions : verdict' = [verdict EXCEPT ![r] = v]

Answer(r) ==
  /\ \/ verdict[r] = "granted" /\ verdict' = [verdict EXCEPT ![r] = "accepted"]
     \/ verdict[r] = "refused" /\ verdict' = [verdict EXCEPT ![r] = "rejected"]
  /\ UNCHANGED used

Lose(r) ==
  /\ verdict[r] \in {"asked", "granted", "refused"}
  /\ verdict' = [verdict EXCEPT ![r] = "failed"]
  /\ used' = used \/ (verdict[r] = "asked" /\ used' = used + 1)

Renew == used > 0 /\ used' = 0 /\ UNCHANGED verdict

Next == Renew \/ \E r \in Requests : Decide(r) \/ Answer(r) \/ Lose(r)

Spec == Init /\ [][Next]_<<used, verdict>>
===============================================================================
