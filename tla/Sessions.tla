------------------------------ MODULE Sessions ------------------------------
(***************************************************************************)
(* Who may do what, and for how long: logins and refreshes (api/v1/auth),  *)
(* the check of a request (security/rbac), and the handshake and life of   *)
(* the WebSockets (api/v1/ws, news, lab).  Tokens are never revoked; the   *)
(* user's row is changed by an administrator, outside this program.        *)
(***************************************************************************)
EXTENDS Integers, FiniteSets

CONSTANTS
    Users,
    Sockets,
    Topics,         \* what a socket is for: a symbol, all symbols, news, a strategy
    Strategies,     \* the topics that are strategies
    AccessLife,     \* 30 minutes, in ticks
    RefreshLife,    \* 7 days, in ticks
    MaxWait,        \* the ticks a login or refresh may wait for the database
    NoUser,
    MaxTime, MaxChanges     \* bounds of the model

ASSUME SessionsAssumption ==
    /\ NoUser \notin Users /\ Topics # {} /\ Strategies \subseteq Topics
    /\ {AccessLife, RefreshLife, MaxWait, MaxTime, MaxChanges} \subseteq Nat
    /\ AccessLife + MaxWait < RefreshLife

Ranks == 0 .. 2     \* viewer, trader, admin
NoOp == [stage |-> "none", rank |-> 0, age |-> 0]

VARIABLES
    clock,
    role, active,   \* the row of each user
    tokens,         \* the tokens issued and not expired
    op,             \* the login or refresh of each user that waits for the database
    changes,        \* how often an administrator changed a row: for the bound
    stopped,        \* when each user last ceased to be active with a rank: history
    sock,           \* the sockets: stage, user, topic, whether the client is there
    pending,        \* <<socket, topic>>: a message on the topic waits in the socket's pubsub
    silent,         \* the topics nothing will be published on again
    removed,        \* the strategies that are no longer in the registry
    answers         \* Redis still answers

database == <<role, active, changes, stopped>>
sockets == <<sock, pending, silent, removed, answers>>
vars == <<clock, database, tokens, op, sockets>>

Access(u, rank) == [type |-> "access", sub |-> u, rank |-> rank, exp |-> clock + AccessLife]
Refresh(u) == [type |-> "refresh", sub |-> u, rank |-> 0, exp |-> clock + RefreshLife]

\* jwt.decode: the signature is right, and the token has not expired.
Decodes(t) == t.exp >= clock

\* Mutant: the type of the token is not looked at.
AnyToken(t) == Decodes(t)

\* get_current_user, and require_role on top of it.  A token without a role counts as a viewer's.
CurrentUser(t) == Decodes(t) /\ t.type = "access"
RequireRole(t, minimum) == CurrentUser(t) /\ t.rank >= minimum

Holds(u, rank) == active[u] /\ role[u] >= rank
LastHeld(u, rank) == IF Holds(u, rank) THEN clock ELSE stopped[u][rank]

Closed == [stage |-> "closed", user |-> NoUser, topic |-> CHOOSE t \in Topics : TRUE, here |-> FALSE]

Init ==
    /\ clock = 0
    /\ role \in [Users -> Ranks] /\ active = [u \in Users |-> TRUE] /\ changes = 0
    /\ stopped = [u \in Users |-> [r \in Ranks |-> -1]]
    /\ tokens = {} /\ op = [u \in Users |-> NoOp]
    /\ sock = [s \in Sockets |-> Closed] /\ pending = {}
    /\ silent = {} /\ removed = {} /\ answers = TRUE

-----------------------------------------------------------------------------
(* Logins and refreshes: select, await, check, (commit, await,) issue. *)

LoginRead(u) ==
    /\ op[u].stage = "none" /\ active[u]
    /\ op' = [op EXCEPT ![u] = [stage |-> "read", rank |-> role[u], age |-> 0]]
    /\ UNCHANGED <<clock, database, tokens, sockets>>

RefreshAsk(u, t) ==
    /\ op[u].stage = "none" /\ t.sub = u
    /\ Decodes(t) /\ t.type = "refresh"
    /\ op' = [op EXCEPT ![u] = [NoOp EXCEPT !.stage = "asked"]]
    /\ UNCHANGED <<clock, database, tokens, sockets>>

RefreshRead(u) ==
    /\ op[u].stage = "asked"
    /\ op' = [op EXCEPT ![u] =
           IF active[u] THEN [stage |-> "read", rank |-> role[u], age |-> 0] ELSE NoOp]
    /\ UNCHANGED <<clock, database, tokens, sockets>>

\* The commit of a login keeps the row as it was read.
Issue(u) ==
    /\ op[u].stage = "read"
    /\ tokens' = tokens \union {Access(u, op[u].rank), Refresh(u)}
    /\ op' = [op EXCEPT ![u] = NoOp]
    /\ UNCHANGED <<clock, database, sockets>>

\* The password is wrong, the commit fails, or the client is gone.
GiveUp(u) ==
    /\ op[u].stage # "none"
    /\ op' = [op EXCEPT ![u] = NoOp]
    /\ UNCHANGED <<clock, database, tokens, sockets>>

-----------------------------------------------------------------------------
(* The administrator and the clock *)

Change(u, rank, on) ==
    /\ changes < MaxChanges /\ changes' = changes + 1
    /\ <<rank, on>> # <<role[u], active[u]>>
    /\ role' = [role EXCEPT ![u] = rank]
    /\ active' = [active EXCEPT ![u] = on]
    /\ stopped' = [stopped EXCEPT ![u] = [r \in Ranks |->
           IF Holds(u, r) THEN clock ELSE stopped[u][r]]]
    /\ UNCHANGED <<clock, tokens, op, sockets>>

Tick ==
    /\ clock < MaxTime
    /\ \A u \in Users : op[u].stage = "read" => op[u].age < MaxWait
    /\ clock' = clock + 1
    /\ op' = [u \in Users |-> IF op[u].stage = "read" THEN [op[u] EXCEPT !.age = @ + 1] ELSE op[u]]
    /\ tokens' = {t \in tokens : t.exp > clock}
    /\ UNCHANGED <<database, sockets>>

-----------------------------------------------------------------------------
(* WebSockets: the token is looked at once, in the handshake.  The awaits on
   Redis have no time limit: each returns, raises, or, once Redis is gone, waits. *)

Admits(t) == Decodes(t) /\ t.type = "access"

Stage(s, stage) == sock' = [sock EXCEPT ![s].stage = stage]
Queue(s) == {s} \X Topics
Keep == UNCHANGED <<clock, database, tokens, op, silent, removed, answers>>

Handshake(s, t, topic) ==
    /\ sock[s].stage = "closed"
    /\ Admits(t)
    /\ topic \notin removed
    /\ sock' = [sock EXCEPT ![s] =
           [stage |-> "accepted", user |-> t.sub, topic |-> topic, here |-> TRUE]]
    /\ UNCHANGED pending /\ Keep

Subscribe(s) ==
    /\ sock[s].stage = "accepted" /\ answers
    /\ Stage(s, "listening")
    /\ UNCHANGED pending /\ Keep

\* The subscription is outside the try: nothing closes the pubsub.
SubscribeFails(s) ==
    /\ sock[s].stage = "accepted"
    /\ Stage(s, "leaked")
    /\ UNCHANGED pending /\ Keep

\* The client leaves; the handler learns of it when it next sends.
Leave(s) ==
    /\ sock[s].here
    /\ sock' = [sock EXCEPT ![s].here = FALSE]
    /\ UNCHANGED pending /\ Keep

\* Mutant: subscribed before it is accepted.
Open(s) == sock[s].stage # "closed"

Listening(s) == sock[s].stage = "listening"

\* The sockets of strategies all subscribe to the one channel of every signal.
Hears(s, topic) == sock[s].topic = topic \/ {sock[s].topic, topic} \subseteq Strategies

Publish(topic) ==
    /\ answers /\ topic \notin silent
    /\ pending' = pending \union
           ({s \in Sockets : Listening(s) /\ Hears(s, topic)} \X {topic})
    /\ UNCHANGED sock /\ Keep

\* Mutant: an error of a send is passed over, like one of the text.
GoesOn(s) == sock[s]

AfterSend(s) == IF sock[s].here THEN sock[s] ELSE [sock[s] EXCEPT !.stage = "closing"]

\* One turn of the loop over pubsub.listen(): the message is sent.  To send to a
\* client that is gone raises WebSocketDisconnect, which leaves the loop.
Send(s) ==
    /\ <<s, sock[s].topic>> \in pending
    /\ sock' = [sock EXCEPT ![s] = AfterSend(s)]
    /\ pending' = pending \ (IF sock[s].here THEN {<<s, sock[s].topic>>} ELSE Queue(s))
    /\ Keep

\* The handler of a strategy reads the signals of all, sends on those of its own, and
\* goes on after any error but a disconnect.
PassOver(s, topic) ==
    /\ sock[s].topic \in Strategies
    /\ <<s, topic>> \in pending
    /\ pending' = pending \ {<<s, topic>>}
    /\ UNCHANGED sock /\ Keep

\* listen() raises: every handler comes to its finally clause.
ListenFails(s) ==
    /\ Listening(s)
    /\ Stage(s, "closing")
    /\ pending' = pending \ Queue(s)
    /\ Keep

\* finally: unsubscribe, then close.
Release(s) ==
    /\ sock[s].stage = "closing" /\ answers
    /\ sock' = [sock EXCEPT ![s] = Closed]
    /\ UNCHANGED pending /\ Keep

\* unsubscribe raises, and close is not reached.
ReleaseFails(s) ==
    /\ sock[s].stage = "closing"
    /\ Stage(s, "leaked")
    /\ UNCHANGED pending /\ Keep

\* A symbol no longer trades.
Silence(topic) ==
    /\ silent' = silent \union {topic}
    /\ UNCHANGED <<clock, database, tokens, op, sock, pending, removed, answers>>

\* DELETE /strategies/{id}: no more signals, and its socket is refused from then on.
RemoveStrategy(topic) ==
    /\ topic \in Strategies
    /\ silent' = silent \union {topic} /\ removed' = removed \union {topic}
    /\ UNCHANGED <<clock, database, tokens, op, sock, pending, answers>>

\* Redis stops for good: what waits for it does so for ever, or raises.
RedisStops ==
    /\ answers /\ answers' = FALSE
    /\ UNCHANGED <<clock, database, tokens, op, sock, pending, silent, removed>>

-----------------------------------------------------------------------------

Login(u) == LoginRead(u) \/ RefreshRead(u) \/ Issue(u) \/ GiveUp(u)
             \/ \E t \in tokens : RefreshAsk(u, t)

Socket(s) ==
    \/ \E t \in tokens, topic \in Topics : Handshake(s, t, topic)
    \/ Subscribe(s) \/ SubscribeFails(s) \/ Leave(s) \/ Send(s) \/ ListenFails(s)
    \/ Release(s) \/ ReleaseFails(s)
    \/ \E topic \in Topics : PassOver(s, topic)

Next ==
    \/ \E u \in Users : Login(u) \/ \E rank \in Ranks, on \in BOOLEAN : Change(u, rank, on)
    \/ Tick
    \/ \E s \in Sockets : Socket(s)
    \/ \E topic \in Topics : Publish(topic) \/ Silence(topic) \/ RemoveStrategy(topic)
    \/ RedisStops

Spec == Init /\ [][Next]_vars

\* While Redis answers, a handler goes on when it can, and something happens on a topic
\* that is not silent.  No handler for ever gets errors that are not a disconnect where
\* it sends: starlette turns an OSError of the connection into a disconnect.
FairSpec ==
    /\ Spec
    /\ \A s \in Sockets :
           WF_vars(Subscribe(s)) /\ SF_vars(Send(s)) /\ WF_vars(Release(s))
    /\ \A topic \in Topics : WF_vars(Publish(topic))

-----------------------------------------------------------------------------

Token == [type : {"access", "refresh"}, sub : Users, rank : Ranks, exp : Nat]

\* Every variable holds a value of its type; a message waits only for a socket
\* that has subscribed.
TypeOK ==
    /\ clock \in 0 .. MaxTime
    /\ role \in [Users -> Ranks] /\ active \in [Users -> BOOLEAN] /\ changes \in 0 .. MaxChanges
    /\ stopped \in [Users -> [Ranks -> -1 .. MaxTime]]
    /\ tokens \subseteq Token
    /\ op \in [Users -> [stage : {"none", "asked", "read"}, rank : Ranks, age : 0 .. MaxWait]]
    /\ sock \in [Sockets -> [stage : {"closed", "accepted", "listening", "closing", "leaked"},
                             user : Users \union {NoUser}, topic : Topics, here : BOOLEAN]]
    /\ pending \subseteq {s \in Sockets : Listening(s)} \X Topics
    /\ silent \subseteq Topics /\ removed \subseteq Strategies /\ answers \in BOOLEAN

\* u was active with that rank at some time, at most one access token ago.
Lately(u, rank) ==
    LastHeld(u, rank) >= 0 /\ clock <= LastHeld(u, rank) + AccessLife + MaxWait

\* However logins, refreshes and changes of the row interleave, who is allowed
\* something was entitled to it at most an access token's life, and the wait of
\* the request that issued it, ago: refreshing does not prolong a role that was
\* taken away (auth.py:84-91, rbac.py:38-68).  The same of whom a handshake admits,
\* which decodes the token by itself (ws.py:25-32, 63-70, news.py:41-48, lab.py:186-193).
RoleLag ==
    /\ \A t \in tokens, minimum \in Ranks : RequireRole(t, minimum) => Lately(t.sub, minimum)
    /\ \A t \in tokens : Admits(t) => Lately(t.sub, 0)

\* When a client has left, its handler ends: it releases the subscription, or loses it
\* to a command of Redis that raises.  Unless nothing is ever published for it again, or
\* Redis never answers again (ws.py:40-54, lab.py:204-222).
GoneIsNoticed ==
    \A s \in Sockets :
        (sock[s].stage # "closed" /\ ~sock[s].here)
            ~> \/ sock[s].stage \in {"closed", "leaked"}
               \/ sock[s].topic \in silent \/ ~answers
=============================================================================
