-------------------------- MODULE RateLimiterProofs --------------------------
(***************************************************************************)
(* Theorems about RateLimiter, for any set of requests, limit and window,  *)
(* whatever commands fail.                                                 *)
(***************************************************************************)
EXTENDS RateLimiter, FiniteSetTheorems, TLAPS

LEMMA InitTypes == Init => TypeOK
  BY RateLimiterAssumption DEF Init, TypeOK, Never, Stages

LEMMA NextTypes == TypeOK /\ [Next]_vars => TypeOK'
<1> SUFFICES ASSUME TypeOK, [Next]_vars PROVE TypeOK'
  OBVIOUS
<1> USE RateLimiterAssumption DEF TypeOK, Never, Stages, vars, keyVars, reqVars
<1>1. CASE Tick
  BY <1>1 DEF Tick
<1>2. ASSUME NEW r \in Requests, Request(r) PROVE TypeOK'
  <2>1. CASE Incr(r)
    BY <2>1 DEF Incr, Increment, Verdict
  <2>2. CASE IncrUnanswered(r)
    BY <2>2 DEF IncrUnanswered, Increment
  <2>3. CASE Expire(r)
    BY <2>3 DEF Expire, SetExpiry, Expiry, Verdict, Seen
  <2>4. CASE ExpireUnanswered(r)
    BY <2>4 DEF ExpireUnanswered, SetExpiry, Expiry
  <2>5. CASE Reject(r)
    BY <2>5 DEF Reject
  <2>6. CASE Fail(r)
    BY <2>6 DEF Fail
  <2>7. QED
    BY <1>2, <2>1, <2>2, <2>3, <2>4, <2>5, <2>6 DEF Request
<1>3. CASE UNCHANGED vars
  BY <1>3
<1>4. QED
  BY <1>1, <1>2, <1>3 DEF Next

\* Every variable holds a value of its type (agents.py 144-156).
THEOREM RateTypes == Spec => []TypeOK
  BY InitTypes, NextTypes, PTL DEF Spec

-------------------------------------------------------------------------------
\* The counts that incr returned in one life of the key are all different, and a
\* request that waits for its verdict or was accepted has one.

Counted(r) == got[r] # 0

CountInv ==
  /\ \A r \in Requests : pc[r] \in {"expire", "accepted"} => Counted(r)
  /\ \A r \in Requests : pc[r] = "accepted" => got[r] <= Limit
  /\ \A r \in Requests : life[r] <= window
  /\ \A r \in Requests : life[r] = window => got[r] <= count
  /\ \A r, s \in Requests :
       Counted(r) /\ r # s /\ life[r] = life[s] => got[r] # got[s]

LEMMA InitCount == Init => CountInv
  BY DEF Init, CountInv, Counted

LEMMA NextCount == TypeOK /\ CountInv /\ [Next]_vars => CountInv'
<1> SUFFICES ASSUME TypeOK, CountInv, [Next]_vars PROVE CountInv'
  OBVIOUS
<1> USE RateLimiterAssumption DEF CountInv, Counted, vars, keyVars, reqVars
<1>1. CASE Tick
  BY <1>1 DEF Tick, TypeOK
<1>2. ASSUME NEW r \in Requests, Request(r) PROVE CountInv'
  <2>a. ASSUME pc[r] = "incr", Increment(r), NEW stage,
               pc' = [pc EXCEPT ![r] = stage],
               stage = "accepted" => count + 1 <= Limit
        PROVE  CountInv'
    <3>1. got'[r] = count + 1 /\ life'[r] = window
      BY <2>a DEF TypeOK, Increment
    <3>2. \A s \in Requests \ {r} :
            got'[s] = got[s] /\ life'[s] = life[s] /\ pc'[s] = pc[s]
      BY <2>a DEF TypeOK, Increment
    <3>3. pc'[r] = stage
      BY <2>a DEF TypeOK
    <3>4. count' = count + 1 /\ window' = window /\ count \in Nat /\ window \in Nat
      BY <2>a DEF TypeOK, Increment
    <3>5. \A s \in Requests : got[s] \in Nat /\ life[s] \in Nat
      BY DEF TypeOK
    <3>6. QED
      BY <2>a, <3>1, <3>2, <3>3, <3>4, <3>5
  <2>1. CASE Incr(r)
    <3> DEFINE stage == IF ExpiresIf(count + 1) THEN "expire" ELSE Verdict(count + 1)
    <3>1. stage = "accepted" => count + 1 <= Limit
      BY DEF TypeOK, Verdict, OverLimit
    <3>2. QED
      BY <2>1, <2>a, <3>1 DEF Incr
  <2>2. CASE IncrUnanswered(r)
    BY <2>2, <2>a DEF IncrUnanswered
  <2>3. CASE Expire(r)
    BY <2>3 DEF Expire, TypeOK, Verdict, OverLimit, Seen
  <2>4. CASE ExpireUnanswered(r)
    BY <2>4 DEF ExpireUnanswered, TypeOK
  <2>5. CASE Reject(r)
    BY <2>5 DEF Reject, TypeOK
  <2>6. CASE Fail(r)
    BY <2>6 DEF Fail, TypeOK
  <2>7. QED
    BY <1>2, <2>1, <2>2, <2>3, <2>4, <2>5, <2>6 DEF Request
<1>3. CASE UNCHANGED vars
  BY <1>3
<1>4. QED
  BY <1>1, <1>2, <1>3 DEF Next

\* Accepted requests of one life have different counts between 1 and Limit.
LEMMA FewAccepted ==
  ASSUME TypeOK, CountInv, NEW w
  PROVE  IsFiniteSet(AcceptedIn(w)) /\ Cardinality(AcceptedIn(w)) <= Limit
<1> DEFINE f == [r \in AcceptedIn(w) |-> got[r]]
<1>1. \A r \in AcceptedIn(w) : got[r] \in 1 .. Limit
  BY RateLimiterAssumption DEF AcceptedIn, CountInv, Counted, TypeOK
<1>2. \A r, s \in AcceptedIn(w) : r # s => got[r] # got[s]
  BY <1>1 DEF AcceptedIn, CountInv, Counted
<1>3. f \in Injection(AcceptedIn(w), 1 .. Limit)
  BY <1>1, <1>2 DEF Injection, IsInjective
<1>4. Limit \in Nat /\ IsFiniteSet(1 .. Limit) /\ Cardinality(1 .. Limit) = Limit
  BY RateLimiterAssumption, FS_Interval
<1> DEFINE T == 1 .. Limit
<1> HIDE DEF f, T
<1>5. IsFiniteSet(AcceptedIn(w)) /\ Cardinality(AcceptedIn(w)) <= Cardinality(T)
  <2>1. f \in Injection(AcceptedIn(w), T) /\ IsFiniteSet(T)
    BY <1>3, <1>4 DEF T
  <2>2. QED
    BY <2>1, FS_Injection
<1>6. QED
  BY <1>4, <1>5 DEF T

\* However requests interleave and whatever fails, at most Limit of those counted in
\* one life of the key are accepted (agents.py 147-151).
THEOREM RateLimitHolds == Spec => []LimitPerWindow
<1>1. TypeOK /\ CountInv => LimitPerWindow
  BY FewAccepted DEF LimitPerWindow
<1>2. QED
  BY <1>1, InitTypes, NextTypes, InitCount, NextCount, PTL DEF Spec

-------------------------------------------------------------------------------
\* Two lives of the key that are not neighbours are an hour apart: the one between
\* lasted that long, for its expiry was set after it had begun.

ApartInv ==
  /\ \A r \in Requests : stamp[r] <= now
  /\ \A r \in Requests :
       life[r] < window /\ ttl # Never => stamp[r] + Window <= now + ttl
  /\ \A r \in Requests : life[r] + 2 <= window => stamp[r] + Window <= now
  /\ \A r, s \in Requests :
       Counted(r) /\ Counted(s) /\ life[r] + 2 <= life[s] => stamp[r] + Window <= stamp[s]

LEMMA InitApart == Init => ApartInv
  BY RateLimiterAssumption DEF Init, ApartInv, Counted

LEMMA NextApart == TypeOK /\ CountInv /\ ApartInv /\ [Next]_vars => ApartInv'
<1> SUFFICES ASSUME TypeOK, CountInv, ApartInv, [Next]_vars PROVE ApartInv'
  OBVIOUS
<1> USE RateLimiterAssumption DEF ApartInv, Counted, vars, keyVars, reqVars
<1>1. CASE Tick
  <2>1. UNCHANGED <<life, stamp, got>> /\ now' = now + 1
    BY <1>1 DEF Tick
  <2>2. \A r \in Requests : life[r] \in Nat /\ stamp[r] \in Nat
    BY DEF TypeOK
  <2>3. CASE ttl = Never /\ UNCHANGED <<count, ttl, window>>
    BY <2>1, <2>2, <2>3 DEF TypeOK
  <2>4. CASE ttl > 1 /\ ttl' = ttl - 1 /\ UNCHANGED <<count, window>>
    BY <2>1, <2>2, <2>4 DEF TypeOK, Never
  <2>5. CASE ttl = 1 /\ count' = 0 /\ ttl' = Never /\ window' = window + 1
    BY <2>1, <2>2, <2>5 DEF TypeOK, Never
  <2>6. QED
    BY <1>1, <2>3, <2>4, <2>5 DEF Tick
<1>2. ASSUME NEW r \in Requests, Request(r) PROVE ApartInv'
  <2>a. ASSUME Increment(r) PROVE ApartInv'
    <3>1. life'[r] = window /\ stamp'[r] = now
      BY <2>a DEF TypeOK, Increment
    <3>2. \A s \in Requests \ {r} :
            got'[s] = got[s] /\ life'[s] = life[s] /\ stamp'[s] = stamp[s]
      BY <2>a DEF TypeOK, Increment
    <3>3. UNCHANGED <<ttl, window, now>>
      BY <2>a DEF Increment
    <3>4. \A s \in Requests : life[s] \in Nat /\ stamp[s] \in Nat /\ life[s] <= window
      BY DEF TypeOK, CountInv
    <3>5. window \in Nat /\ now \in Nat /\ ttl \in Int
      BY DEF TypeOK, Never
    <3>6. QED
      BY <3>1, <3>2, <3>3, <3>4, <3>5
  <2>b. ASSUME SetExpiry, UNCHANGED <<window, now, got, life, stamp>> PROVE ApartInv'
    BY <2>b DEF SetExpiry, Expiry, TypeOK, Never
  <2>1. CASE Incr(r)
    BY <2>1, <2>a DEF Incr
  <2>2. CASE IncrUnanswered(r)
    BY <2>2, <2>a DEF IncrUnanswered
  <2>3. CASE Expire(r)
    BY <2>3, <2>b DEF Expire
  <2>4. CASE ExpireUnanswered(r)
    BY <2>4, <2>b DEF ExpireUnanswered
  <2>5. CASE Reject(r)
    BY <2>5 DEF Reject
  <2>6. CASE Fail(r)
    BY <2>6 DEF Fail
  <2>7. QED
    BY <1>2, <2>1, <2>2, <2>3, <2>4, <2>5, <2>6 DEF Request
<1>3. CASE UNCHANGED vars
  BY <1>3
<1>4. QED
  BY <1>1, <1>2, <1>3 DEF Next

\* What is accepted in an hour was counted in two neighbouring lives.
LEMMA TwoLives ==
  ASSUME TypeOK, CountInv, ApartInv, NEW t \in Nat
  PROVE  \E w \in Int : AcceptedFrom(t) \subseteq AcceptedIn(w) \cup AcceptedIn(w + 1)
<1> USE RateLimiterAssumption
<1>1. \A r \in Requests : life[r] \in Nat /\ stamp[r] \in Nat
  BY DEF TypeOK
<1>2. \A r, s \in AcceptedFrom(t) : life[s] <= life[r] + 1
  BY <1>1 DEF AcceptedFrom, CountInv, ApartInv
<1>3. CASE AcceptedFrom(t) = {}
  BY <1>3
<1>4. ASSUME NEW r \in AcceptedFrom(t)
      PROVE  \E w \in Int : AcceptedFrom(t) \subseteq AcceptedIn(w) \cup AcceptedIn(w + 1)
  <2>1. life[r] \in Nat /\ AcceptedFrom(t) \subseteq Requests
    BY <1>1 DEF AcceptedFrom
  <2>2. CASE \A s \in AcceptedFrom(t) : life[s] >= life[r]
    <3>1. \A s \in AcceptedFrom(t) : life[s] = life[r] \/ life[s] = life[r] + 1
      BY <1>1, <1>2, <2>1, <2>2
    <3>2. QED
      BY <2>1, <3>1 DEF AcceptedFrom, AcceptedIn
  <2>3. CASE \E s \in AcceptedFrom(t) : life[s] < life[r]
    <3>1. PICK s \in AcceptedFrom(t) : life[s] < life[r]
      BY <2>3
    <3>2. life[s] = life[r] - 1 /\ life[s] \in Int
      BY <1>1, <1>2, <2>1, <3>1
    <3>3. \A q \in AcceptedFrom(t) : life[q] = life[s] \/ life[q] = life[s] + 1
      BY <1>1, <1>2, <2>1, <3>1, <3>2
    <3>4. QED
      BY <2>1, <3>2, <3>3 DEF AcceptedFrom, AcceptedIn
  <2>4. QED
    BY <1>1, <2>1, <2>2, <2>3
<1>5. QED
  BY <1>3, <1>4

\* In any hour, wherever it starts, at most twice the limit is accepted.
THEOREM RateTwiceAnyHour == Spec => []TwiceInAnyHour
<1>1. ASSUME TypeOK, CountInv, ApartInv PROVE TwiceInAnyHour
  <2> SUFFICES ASSUME NEW t \in 0 .. now
               PROVE  Cardinality(AcceptedFrom(t)) <= 2 * Limit
    BY DEF TwiceInAnyHour
  <2>1. t \in Nat
    BY <1>1 DEF TypeOK
  <2>2. PICK w \in Int : AcceptedFrom(t) \subseteq AcceptedIn(w) \cup AcceptedIn(w + 1)
    BY <1>1, <2>1, TwoLives
  <2> DEFINE A == AcceptedIn(w)
             B == AcceptedIn(w + 1)
  <2>3. IsFiniteSet(A) /\ Cardinality(A) <= Limit
    BY <1>1, FewAccepted
  <2>4. IsFiniteSet(B) /\ Cardinality(B) <= Limit
    BY <1>1, FewAccepted
  <2> HIDE DEF A, B
  <2>5. /\ IsFiniteSet(A \cup B) /\ IsFiniteSet(A \cap B)
        /\ Cardinality(A \cup B) = Cardinality(A) + Cardinality(B) - Cardinality(A \cap B)
    BY <2>3, <2>4, FS_Union, FS_Intersection
  <2>6. Cardinality(AcceptedFrom(t)) <= Cardinality(A \cup B)
    BY <2>2, <2>5, FS_Subset DEF A, B
  <2>7. /\ Cardinality(A) \in Nat /\ Cardinality(B) \in Nat
        /\ Cardinality(A \cap B) \in Nat /\ Cardinality(A \cup B) \in Nat
    BY <2>3, <2>4, <2>5, FS_CardinalityType
  <2>8. IsFiniteSet(AcceptedFrom(t)) /\ Cardinality(AcceptedFrom(t)) \in Nat
    BY <2>2, <2>5, FS_Subset, FS_CardinalityType DEF A, B
  <2>9. QED
    BY <2>3, <2>4, <2>5, <2>6, <2>7, <2>8, RateLimiterAssumption
<1>2. QED
  BY <1>1, InitTypes, NextTypes, InitCount, NextCount, InitApart, NextApart, PTL DEF Spec

-------------------------------------------------------------------------------
\* A key without an expiry is its creator's doing.

LEMMA InitReset == Init => UnsetOnlyByCreator
  BY DEF Init, UnsetOnlyByCreator

LEMMA NextReset == TypeOK /\ UnsetOnlyByCreator /\ [Next]_vars => UnsetOnlyByCreator'
<1> SUFFICES ASSUME TypeOK, UnsetOnlyByCreator, [Next]_vars, count' > 0, ttl' = Never
             PROVE  \E r \in Requests :
                      got'[r] = 1 /\ life'[r] = window' /\ pc'[r] \in {"expire", "failed"}
  BY DEF UnsetOnlyByCreator
<1> USE RateLimiterAssumption DEF UnsetOnlyByCreator, vars, keyVars, reqVars, Never
<1>1. CASE Tick
  BY <1>1 DEF Tick, TypeOK
<1>2. ASSUME NEW r \in Requests, Request(r)
      PROVE  \E s \in Requests :
               got'[s] = 1 /\ life'[s] = window' /\ pc'[s] \in {"expire", "failed"}
  <2>1. CASE Incr(r) \/ IncrUnanswered(r)
    <3>1. /\ pc[r] = "incr" /\ ttl = Never /\ window' = window /\ count \in Nat
          /\ got'[r] = count + 1 /\ life'[r] = window
          /\ \A s \in Requests \ {r} :
               got'[s] = got[s] /\ life'[s] = life[s] /\ pc'[s] = pc[s]
      BY <2>1 DEF Incr, IncrUnanswered, Increment, TypeOK
    <3>2. CASE count = 0
      <4>1. pc'[r] \in {"expire", "failed"}
        BY <2>1, <3>2 DEF Incr, IncrUnanswered, ExpiresIf, TypeOK
      <4>2. QED
        BY <3>1, <3>2, <4>1
    <3>3. CASE count # 0
      <4>1. PICK s \in Requests :
              got[s] = 1 /\ life[s] = window /\ pc[s] \in {"expire", "failed"}
        BY <3>1, <3>3
      <4>2. s # r
        BY <3>1, <4>1
      <4>3. QED
        BY <3>1, <4>1, <4>2
    <3>4. QED
      BY <3>2, <3>3
  <2>2. CASE Expire(r) \/ ExpireUnanswered(r)
    BY <2>2 DEF Expire, ExpireUnanswered, SetExpiry, Expiry
  <2>3. CASE Reject(r) \/ Fail(r)
    <3>1. /\ count > 0 /\ ttl = Never /\ window' = window /\ got' = got /\ life' = life
          /\ pc[r] \in {"incr", "expire", "ttl"}
          /\ \A s \in Requests \ {r} : pc'[s] = pc[s]
          /\ pc[r] # "ttl" => pc'[r] = "failed"
      BY <2>3 DEF Reject, Fail, TypeOK
    <3>2. PICK s \in Requests :
            got[s] = 1 /\ life[s] = window /\ pc[s] \in {"expire", "failed"}
      BY <3>1
    <3>3. pc'[s] \in {"expire", "failed"}
      BY <3>1, <3>2
    <3>4. QED
      BY <3>1, <3>2, <3>3
  <2>4. QED
    BY <1>2, <2>1, <2>2, <2>3 DEF Request
<1>3. CASE UNCHANGED vars
  BY <1>3
<1>4. QED
  BY <1>1, <1>2, <1>3 DEF Next

\* Whatever commands fail, a key that nobody will give an expiry any more was left so
\* by the request that created it, which was cut short (agents.py 147-149).
THEOREM RateUnsetOnlyByCreator == Spec => []UnsetOnlyByCreator
  BY InitTypes, NextTypes, InitReset, NextReset, PTL DEF Spec

-------------------------------------------------------------------------------
\* The refinement: an increment decides, what follows it only answers.

Decided == [r \in Requests |-> StageOf(r)]

LEMMA InitQuota == Init => Q!Init
  BY DEF Init, Q!Init, StageOf

\* A step of request r leaves the decisions on the others as they are.
LEMMA OthersStay ==
  ASSUME TypeOK, NEW r \in Requests, NEW v,
         \A s \in Requests \ {r} : pc'[s] = pc[s] /\ got'[s] = got[s],
         StageOf(r)' = v
  PROVE  Decided' = [Decided EXCEPT ![r] = v]
<1>1. \A s \in Requests \ {r} : StageOf(s)' = StageOf(s)
  BY DEF StageOf
<1>2. \A s \in Requests : Decided'[s] = [Decided EXCEPT ![r] = v][s]
  BY <1>1 DEF Decided
<1>3. QED
  BY <1>2 DEF Decided

LEMMA NextQuota ==
  TypeOK /\ [Next]_vars => [Q!Next]_<<count, Decided>>
<1> SUFFICES ASSUME TypeOK, [Next]_vars PROVE [Q!Next]_<<count, Decided>>
  OBVIOUS
<1> USE RateLimiterAssumption
<1>1. CASE Tick
  <2>1. UNCHANGED Decided
    BY <1>1 DEF Tick, reqVars, Decided, StageOf
  <2>2. CASE UNCHANGED count
    BY <2>1, <2>2
  <2>3. CASE ttl = 1 /\ count' = 0
    <3>1. count > 0
      BY <2>3 DEF TypeOK, Never
    <3>2. Q!Renew
      BY <2>1, <2>3, <3>1 DEF Q!Renew, Decided
    <3>3. QED
      BY <3>2 DEF Q!Next
  <2>4. QED
    BY <1>1, <2>2, <2>3 DEF Tick
<1>2. ASSUME NEW r \in Requests, Request(r) PROVE [Q!Next]_<<count, Decided>>
  <2> USE DEF TypeOK
  <2>a. \A s \in Requests \ {r} : pc'[s] = pc[s] /\ got'[s] = got[s]
    BY <1>2 DEF Request, Incr, IncrUnanswered, Expire, ExpireUnanswered, Reject, Fail, Increment
  <2>1. CASE Incr(r)
    <3>1. Decided[r] = "asked" /\ count' = count + 1 /\ got'[r] = count + 1
      BY <2>1 DEF Incr, Increment, Decided, StageOf
    <3>2. StageOf(r)' \in IF count < Limit THEN {"granted", "accepted"}
                                          ELSE {"refused", "rejected"}
      BY <2>1, <3>1 DEF Incr, Increment, Verdict, OverLimit, StageOf
    <3>3. Decided' = [Decided EXCEPT ![r] = StageOf(r)']
      BY <2>a, OthersStay
    <3>4. Q!Decide(r)
      BY <3>1, <3>2, <3>3 DEF Q!Decide, Q!Decisions, Decided
    <3>5. QED
      BY <3>4 DEF Q!Next
  <2>2. CASE IncrUnanswered(r)
    <3>1. Decided[r] = "asked" /\ count' = count + 1 /\ StageOf(r)' = "failed"
      BY <2>2 DEF IncrUnanswered, Increment, Decided, StageOf
    <3>2. Decided' = [Decided EXCEPT ![r] = "failed"]
      BY <2>a, <3>1, OthersStay
    <3>3. Q!Lose(r)
      BY <3>1, <3>2 DEF Q!Lose, Decided
    <3>4. QED
      BY <3>3 DEF Q!Next
  <2>3. CASE Expire(r)
    <3>1. count' = count /\ pc[r] = "expire" /\ got'[r] = got[r]
          /\ pc'[r] = IF got[r] > Limit THEN "ttl" ELSE "accepted"
      BY <2>3 DEF Expire, Verdict, OverLimit, Seen
    <3>2. CASE got[r] <= Limit
      <4>1. Decided[r] = "granted" /\ StageOf(r)' = "accepted"
        BY <3>1, <3>2 DEF Decided, StageOf
      <4>2. Decided' = [Decided EXCEPT ![r] = "accepted"]
        BY <2>a, <4>1, OthersStay
      <4>3. Q!Answer(r)
        BY <3>1, <4>1, <4>2 DEF Q!Answer, Decided
      <4>4. QED
        BY <4>3 DEF Q!Next
    <3>3. CASE got[r] > Limit
      <4>1. StageOf(r) = "refused" /\ StageOf(r)' = "refused"
        BY <3>1, <3>3 DEF StageOf
      <4>2. Decided' = [Decided EXCEPT ![r] = "refused"]
        BY <2>a, <4>1, OthersStay
      <4>3. Decided' = Decided
        BY <4>1, <4>2 DEF Decided
      <4>4. QED
        BY <3>1, <4>3
    <3>4. QED
      BY <3>2, <3>3
  <2>4. CASE ExpireUnanswered(r)
    <3>1. count' = count /\ Decided[r] \in {"granted", "refused"} /\ StageOf(r)' = "failed"
      BY <2>4 DEF ExpireUnanswered, Decided, StageOf
    <3>2. Decided' = [Decided EXCEPT ![r] = "failed"]
      BY <2>a, <3>1, OthersStay
    <3>3. Q!Lose(r)
      BY <3>1, <3>2 DEF Q!Lose, Decided
    <3>4. QED
      BY <3>3 DEF Q!Next
  <2>5. CASE Reject(r)
    <3>1. count' = count /\ Decided[r] = "refused" /\ StageOf(r)' = "rejected"
      BY <2>5 DEF Reject, keyVars, Decided, StageOf
    <3>2. Decided' = [Decided EXCEPT ![r] = "rejected"]
      BY <2>a, <3>1, OthersStay
    <3>3. Q!Answer(r)
      BY <3>1, <3>2 DEF Q!Answer, Decided
    <3>4. QED
      BY <3>3 DEF Q!Next
  <2>6. CASE Fail(r)
    <3>1. count' = count /\ Decided[r] \in {"asked", "granted", "refused"} /\ StageOf(r)' = "failed"
      BY <2>6 DEF Fail, keyVars, Decided, StageOf
    <3>2. Decided' = [Decided EXCEPT ![r] = "failed"]
      BY <2>a, <3>1, OthersStay
    <3>3. Q!Lose(r)
      BY <3>1, <3>2 DEF Q!Lose, Decided
    <3>4. QED
      BY <3>3 DEF Q!Next
  <2>7. QED
    BY <1>2, <2>1, <2>2, <2>3, <2>4, <2>5, <2>6 DEF Request
<1>3. CASE UNCHANGED vars
  BY <1>3 DEF vars, keyVars, reqVars, Decided, StageOf
<1>4. QED
  BY <1>1, <1>2, <1>3 DEF Next

\* The limiter implements a counter that decides each request in one step, for any
\* number of requests and processes and any failures (agents.py 147-156).
THEOREM RateDecidesAtOnce == Spec => AtomicQuota
<1>1. TypeOK /\ [Next]_vars => [Q!Next]_<<count, [r \in Requests |-> StageOf(r)]>>
  BY NextQuota DEF Decided
<1>2. QED
  BY <1>1, InitTypes, NextTypes, InitQuota, PTL DEF Spec, AtomicQuota, Q!Spec

===============================================================================
