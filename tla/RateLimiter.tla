----------------------------- MODULE RateLimiter -----------------------------
(***************************************************************************)
(* backend/app/api/v1/agents.py, _check_rate_limit: how many messages an   *)
(* user may send to the agents in an hour.                                 *)
(*                                                                         *)
(* The state is one Redis key per user, agent:rl:{user}; users share       *)
(* nothing, so one user is modelled, with any number of requests at once,  *)
(* served by any number of backend processes.  A request increments the    *)
(* key (which creates it), gives it its expiry when it was the one that    *)
(* created it, and is accepted when its count is within the limit.  Each   *)
(* command is a round trip that may fail: Redis refuses it, or the process *)
(* stops, before or after the command took effect.  A life of the key,     *)
(* from its creation to its expiry, is numbered by window.                 *)
(***************************************************************************)
EXTENDS Integers, FiniteSets

CONSTANTS Requests,  \* the user's requests
          Limit,     \* settings.agent_messages_per_hour: 20 in the code
          Window,    \* ticks to the expiry: 3600 s in the code
          MaxTime    \* bound: ticks of the clock

ASSUME RateLimiterAssumption ==
  /\ Limit \in Nat /\ Window \in Nat \ {0}
  /\ MaxTime \in Nat

VARIABLES
  count,   \* value of the key, 0 when it does not exist
  ttl,     \* ticks until the key expires, Never when it has no expiry
  window,  \* history: the lives of the key that ended
  now,     \* the clock
  pc,      \* per request: where _check_rate_limit is
  got,     \* per request: what incr returned
  life,    \* history, per request: the window its increment fell in
  stamp    \* history, per request: the time of its increment

keyVars == <<count, ttl, window, now>>
reqVars == <<pc, got, life, stamp>>
vars == <<keyVars, reqVars>>

Never == -1

Init ==
  /\ count = 0 /\ ttl = Never /\ window = 0 /\ now = 0
  /\ pc = [r \in Requests |-> "incr"]
  /\ got = [r \in Requests |-> 0]
  /\ life = [r \in Requests |-> 0]
  /\ stamp = [r \in Requests |-> 0]

-------------------------------------------------------------------------------
\* Mutant: nobody is the first.
Nobody(n) == n = 0

\* if count == 1: the request that created the key gives it its expiry.
ExpiresIf(n) == n = 1

\* Mutant: one message more than the limit.
OneMore(n) == n > Limit + 1

\* if count > settings.agent_messages_per_hour.
OverLimit(n) == n > Limit

\* What is left of _check_rate_limit once the expiry is dealt with.
Verdict(n) == IF OverLimit(n) THEN "ttl" ELSE "accepted"

\* incr takes effect; the request will see n.
Increment(r) ==
  /\ count' = count + 1
  /\ got' = [got EXCEPT ![r] = count + 1]
  /\ life' = [life EXCEPT ![r] = window]
  /\ stamp' = [stamp EXCEPT ![r] = now]
  /\ UNCHANGED <<ttl, window, now>>

\* count = await redis.incr(key).
Incr(r) ==
  /\ pc[r] = "incr"
  /\ Increment(r)
  /\ pc' = [pc EXCEPT ![r] = IF ExpiresIf(count + 1) THEN "expire" ELSE Verdict(count + 1)]

\* It was applied, but its answer never reached the request.
IncrUnanswered(r) ==
  /\ pc[r] = "incr"
  /\ Increment(r)
  /\ pc' = [pc EXCEPT ![r] = "failed"]

\* Mutants: every expiry is one tick long, or one tick longer.
ShortExpiry == 1
LongExpiry == Window + 1

\* await redis.expire(key, 3600), which does nothing to a key that is gone.
Expiry == Window

SetExpiry == ttl' = IF count > 0 THEN Expiry ELSE ttl

\* Mutant: the key is read again once the expiry is set.
Reread(r) == count

\* count is what incr returned, whatever others have added since.
Seen(r) == got[r]

Expire(r) ==
  /\ pc[r] = "expire"
  /\ SetExpiry
  /\ pc' = [pc EXCEPT ![r] = Verdict(Seen(r))]
  /\ UNCHANGED <<count, window, now, got, life, stamp>>

ExpireUnanswered(r) ==
  /\ pc[r] = "expire"
  /\ SetExpiry
  /\ pc' = [pc EXCEPT ![r] = "failed"]
  /\ UNCHANGED <<count, window, now, got, life, stamp>>

\* remaining = await redis.ttl(key), for the text of the answer 429.
Reject(r) ==
  /\ pc[r] = "ttl"
  /\ pc' = [pc EXCEPT ![r] = "rejected"]
  /\ UNCHANGED <<keyVars, got, life, stamp>>

\* The command did not reach Redis: 500, or nobody left to answer.
Fail(r) ==
  /\ pc[r] \in {"incr", "expire", "ttl"}
  /\ pc' = [pc EXCEPT ![r] = "failed"]
  /\ UNCHANGED <<keyVars, got, life, stamp>>

\* A second passes in Redis; a key whose time is over is gone.
Tick ==
  /\ now < MaxTime
  /\ now' = now + 1
  /\ \/ /\ ttl = Never
        /\ UNCHANGED <<count, ttl, window>>
     \/ /\ ttl > 1
        /\ ttl' = ttl - 1
        /\ UNCHANGED <<count, window>>
     \/ /\ ttl = 1
        /\ count' = 0 /\ ttl' = Never /\ window' = window + 1
  /\ UNCHANGED reqVars

Request(r) ==
  Incr(r) \/ IncrUnanswered(r) \/ Expire(r) \/ ExpireUnanswered(r) \/ Reject(r) \/ Fail(r)

Next == Tick \/ \E r \in Requests : Request(r)

Spec == Init /\ [][Next]_vars

-------------------------------------------------------------------------------
(* Properties. *)

Stages == {"incr", "expire", "ttl", "accepted", "rejected", "failed"}

\* Every variable holds a value of its type, and a key that does not exist has no
\* expiry.
TypeOK ==
  /\ count \in Nat /\ ttl \in 1 .. Window \cup {Never} /\ window \in Nat /\ now \in Nat
  /\ pc \in [Requests -> Stages]
  /\ got \in [Requests -> Nat]
  /\ life \in [Requests -> Nat]
  /\ stamp \in [Requests -> Nat]
  /\ count = 0 => ttl = Never

AcceptedIn(w) == {r \in Requests : pc[r] = "accepted" /\ life[r] = w}

\* However the requests of a user interleave, over any number of processes, and
\* whatever commands fail, at most Limit of those that fall in one life of the key
\* are accepted (agents.py 147-151).
LimitPerWindow == \A w \in 0 .. window : Cardinality(AcceptedIn(w)) <= Limit

AcceptedFrom(t) ==
  {r \in Requests : pc[r] = "accepted" /\ stamp[r] \in t .. t + Window - 1}

\* Windows are not shorter than an hour, so no hour, wherever it starts, touches more
\* than two of them: at most twice the limit is accepted in any hour.
TwiceInAnyHour == \A t \in 0 .. now : Cardinality(AcceptedFrom(t)) <= 2 * Limit

\* A key without an expiry can only be there on account of the request that created
\* it: that one is about to send EXPIRE, or was cut short before Redis had it.  No
\* interleaving of the others, in this window or across its end, leaves one behind or
\* takes an expiry away (agents.py 147-149).  The key of a request that was cut short
\* keeps counting: "window resets every hour" (agents.py:149) does not hold for it.
UnsetOnlyByCreator ==
  count > 0 /\ ttl = Never =>
    \E r \in Requests : got[r] = 1 /\ life[r] = window /\ pc[r] \in {"expire", "failed"}

\* The decision on r, from the moment its increment makes it.
StageOf(r) ==
  IF pc[r] = "incr" THEN "asked"
  ELSE IF pc[r] = "expire" /\ got[r] <= Limit THEN "granted"
  ELSE IF pc[r] \in {"expire", "ttl"} THEN "refused"
  ELSE pc[r]

Q == INSTANCE Quota WITH used <- count, verdict <- [r \in Requests |-> StageOf(r)]

\* Two or three commands per request, of any number of processes at once and with
\* any of them failing, come to the same as a counter that decides each request in
\* one step (agents.py 147-156): who is served is settled by the order of the
\* increments, and by nothing that happens between a request's commands.
AtomicQuota == Q!Spec

===============================================================================
