# A TLA+ specification of QuantBR

QuantBR takes market data of the Brazilian exchange B3 from UDP multicast to a
trading screen.  A C++ process (`feed/`) parses the feed, keeps order books and
publishes JSON over ZMQ; a Python backend (`backend/app/`, one asyncio event loop)
accumulates order flow, computes signals, runs the users' own strategies and fans
everything out through Redis; a React application (`frontend/src/`) shows it.

This directory holds TLA+ modules for the parts whose correctness depends on order,
concurrency or failure, the TLC configurations that check them on small instances, and
TLAPS proofs of the results that hold for every value of the constants.

## The system: components, state, operations

| Component | Source | State | Operations | What makes it hard | Status |
|---|---|---|---|---|---|
| Session manager | `feed/src/session_manager.cpp` | `running_`, one socket and one thread per channel | `start`, `stop`, `recv_loop` | two threads share everything below without a lock; a thread dies on the first failed `recv` | modelled |
| UMDF parser | `feed/src/umdf_parser.cpp` | `last_seq_` | `parse`, gap, quote, trade and heartbeat callbacks | loss, repetition and reordering of packets on two channels; a race on `last_seq_`; wrap-around | modelled |
| Order books | `feed/src/order_book.cpp` | levels, last trade, traded quantity and value per security | `apply_bid`, `apply_ask`, `apply_trade`, `snapshot` | read-modify-write from two threads | modelled |
| ZMQ publisher | `feed/src/zmq_publisher.cpp` | the socket's unfinished message | `publish_snapshot`, `publish_trade` | a frame is two sends | modelled |
| Feed subscriber | `backend/app/feed/subscriber.py` | `_running`, delta and volume profile per symbol | `start`, `stop`, `_handle_snapshot`, `_handle_trade` | a chain of awaited Redis calls, each of which can fail | modelled |
| Signal engine, indicators | `backend/app/signals`, `backend/app/indicators` | windows and running sums per symbol | `on_trade`, `session_reset` | incremental against reference computation; state left over a reset | partly: no `BookImbalance`, no strengths |
| Order flow accumulators | `backend/app/indicators/{delta,volume_profile}.py` | sums, history, price levels | `update`, `result` | ties and borders of the value area | modelled |
| Strategy registry | `backend/app/quantlab/registry.py`, `api/v1/lab.py` | the dict of live strategies and their counters | `add`, `remove`, `dispatch_trade`, `dispatch_quote` | the dict is iterated across awaits while requests change it | modelled |
| Sandbox | `backend/app/quantlab/sandbox.py`, `sdk.py` | a pool of 4 threads, one global registration hook | `run`, `_exec`, `register` | a script past its limit keeps its thread and shares the hook | modelled |
| Agent rate limit | `backend/app/api/v1/agents.py` | a counter with an expiry in Redis | `_check_rate_limit` | increment and expiry are two commands | modelled |
| Sessions | `backend/app/security`, `api/v1/auth.py` | signed tokens only | login, refresh, authorise | a token outlives a change of the user | modelled |
| Fan-out | `backend/app/api/v1/{ws,news,lab}.py` | a Redis subscription per socket | handshake, relay, close | a client that left is noticed only by a send | modelled |
| News fetcher | `backend/app/market_data/news_fetcher.py` | the set of ids seen, four cached lists | the cycle, `stop` | lists written one after another, publishes that fail | modelled |
| Reference fetcher | `backend/app/market_data/fetcher.py` | none of its own | three periodic loops | - | not modelled |
| REST readers | `backend/app/api/v1/{market,orderflow,news,reference,signals}.py` | none | reads of Redis keys | - | not modelled |
| Lifespan, health, audit, models | `backend/app/main.py`, `api/health.py`, `security/audit.py`, `models`, `db` | handles | start up and shut down | - | not modelled |
| STEP client | `feed/src/step_client.cpp` | socket, session, sequence number, receive buffer | `connect`, `disconnect`, orders, `recv_loop` | framing of a byte stream, reconnecting | not modelled |
| Web client | `frontend/src/api`, `store`, `hooks` | tokens, the socket, market state | request with refresh, connect and reconnect | callbacks of a socket or a request that is no longer current | not modelled |
| Panels | `frontend/src/components` and others | view state | rendering | - | not modelled |

How they interact: the exchange multicasts packets to the two receive threads; the
threads call the parser, whose callbacks change the books and publish frames; the ZMQ
socket carries frames to the subscriber, which alone drives delta, profile, engine and
registry; registry and subscriber write Redis, which the REST readers and the sockets
read; HTTP requests change the registry and run the sandbox on the same event loop,
between the awaits of the subscriber's handler; the web client opens one socket and
any number of requests, which share the tokens of the session.

## The modules

| Module | Models | Composed with |
|---|---|---|
| `OrderBook` | one L2 book as a value, its methods as operators | extended by `UmdfFeed` |
| `UmdfFeed` | the C++ feed process: main, session manager, receive threads, parser, callbacks, publisher | `OrderBook` |
| `FeedSubscriber` | the task that hands each frame to the chain of consumers | |
| `Indicators` | incremental averages, RSI, bands, VWAP, delta and volume profile as operators | extended by `SignalEngine` |
| `SignalEngine` | the engine, its three signals, and the studies computed beside it, against reference definitions | `Indicators` |
| `StrategyRegistry` | dispatch of market events to the users' strategies, and the requests that change them | |
| `Sandbox` | submissions, the pool of workers, the time limit, the registration hook | |
| `RateLimiter` | the counter of messages of one user to the agents | implements `Quota` |
| `Quota` | abstract: a counter that decides each request in one step | |
| `NewsFetcher` | the cycle of the news aggregator | |
| `Sessions` | tokens, logins, refreshes, role checks, and the sockets that tokens open | |
| `UmdfFeedProofs`, `FeedSubscriberProofs`, `SignalEngineProofs`, `StrategyRegistryProofs`, `SandboxProofs`, `RateLimiterProofs`, `NewsFetcherProofs`, `SessionsProofs` | theorems about the module each is named for | extend it |
| `MC...` | values of the constants and symmetry for the runs | extend the module each is named for |

### UmdfFeed: state and actions against the code

Each shared access of a receive thread is an action of its own, because nothing in the
C++ code keeps another thread from running between two of them.  Where the thread
stands is `pc[c]`:

| `pc[c]` | Action | Code |
|---|---|---|
| `loop` | `LoopTest` | the test of `running_`, `session_manager.cpp:110` |
| `recv` | `Recv`, `RecvFails` | `recv` with a datagram, or with 0 or an error, on a closed socket or an open one, 111-112 |
| `check` | `CheckSeq` | `last_seq_` read and compared, gap callback, `umdf_parser.cpp:23-25` |
| `store` | `StoreSeq` | `last_seq_ = seq`, and a heartbeat's return, 26-36 |
| `entry` | `BeginQuote`, `BeginTrade`, `SkipEntry`, `EndPacket` | the entry loops; `get_or_create` or `find` of the callbacks in `main.cpp:55-70` |
| `apply` | `StoreSide`, `StoreTrade` | `apply_bid`, `apply_ask`, `apply_trade` |
| `snap` | `TakeSnapshot` | `book.snapshot()` |
| `topic`, `payload` | `SendTopic`, `SendPayload` | the two `zmq_send` of `send_frame` |

`main()` is `mpc`: `StartChannel`, `Started`, `StepConnect`, `Shutdown`, `StopClose`,
`StopJoin`.  Of the STEP client it constructs, connects and disconnects (`main.cpp:104-136`)
only the connect is a step, since it keeps `main()` from its signal loop for as long as
it takes.  A
racing read-modify-write of a book is a choice: it lands on top of the other one or
loses it (`held` is the book as the thread read it).  Corruption of the `std::map`
itself is undefined behaviour that ends the process; the model ends no such behaviour
early, and a safety property cannot tell the two apart.

The network may lose any datagram on any channel, and `Repeat` brings a packet again or
late: UDP multicast promises neither order nor single delivery, and both sockets are
bound to `INADDR_ANY` on one port (`session_manager.cpp:63-68`), so that each may hear
the other's group.  The one order assumed is that of a socket's buffer, which hands over
what it holds as it came.  A datagram therefore has an index of its own, by arrival, and
`number` gives the packet it carries; `HandledOnceInOrder` speaks of datagrams received,
`DuplicatesIgnored` and `GapsReported` of packet numbers.

`sent`, `number`, `stored`, `opening`, `failed`, `gaps` and `log` are histories; no guard
depends on them except `sent` and `number`, which are what the network carries.  A message
that runs past its datagram ends the packet like its last entry does, and one too short for
its body is an entry of type `other`; the wrap-around of the `uint16` body size
(`umdf_parser.cpp:53`) is left out.  Doubles are natural numbers, byte order and field
offsets are left out, and the JSON of a frame is the record it prints.

### StrategyRegistry

Everything runs on one event loop.  `stage` says where the dispatch is: `next` while
its synchronous code runs, one of four awaits while a signal is published.  `Add`,
`Remove` and `Patch` are the HTTP requests and are guarded by `Free`: they run at an
await and never inside synchronous code.  The dict is the array of entries CPython
keeps, with holes where keys were removed and a rebuild when it is full, and `iter` is
its iterator, with the two checks after which it raises.  `Skip`, `Quiet`, `Throws`,
`Signals` and `Misread` are what may become of a record; `Published` and `PublishFails`
are the outcomes of an await; a command that raises may have taken effect
(`AnswerLost`) or not (`NotApplied`), and `untrimmed` counts the pushes whose publication
failed before the list was trimmed again.  `requests` counts the requests served, for the bound
`MaxRequests`.

### FeedSubscriber

`at` is the await the task is at; `Answer` is that await returning, with the
synchronous code after it up to the next one, and `Fail` is its exception, whether or
not Redis did what it was told.  `flow` is, per symbol and consumer, the sequence of
trades the consumer was given: delta, profile and indicators are functions of it.
`Stop` leaves a handler under way alone as `stop()` does; `Crash` ends it anywhere.
`ReceiveFails` is the `ZMQError` that ends the loop with `_running` still set.
Redis outlives a restart, memory does not.

### Indicators and SignalEngine

Prices are whole ticks and every fraction is a numerator beside its denominator, so
thresholds are comparisons of products and nothing is rounded: RSI keeps the sums of gains
and losses over a common `scale`, the bands compare squares instead of a root, and the value
area compares ten parts with seven.  The area grows by one level of the set of levels at a
time, the heavier of the next below and the next above, as the loop over the sorted array
does.  The rounding of doubles is the one thing this leaves out.  `OnTrade` is the whole
`on_trade`: all five indicators, the three signals in order, and the memory `prevAbove` of
the VWAP cross; beside it the accumulators the subscriber keeps.  A trade without a known
aggressor (`"U"`) counts as a sale wherever the code tests for `"B"` only.  The reference
definitions at the end of the module are written from the trades of the session; they share
only `Positive`, `Side` and `VWAPCrossSignal` with the indicators, none of which keeps a sum:
Wilder's average in closed form, the variance from pairs, the VWAP side from weighted
distances.

### Sandbox

The event loop is `loop`: `run()` is not awaited, so while one script is waited for
nothing else is served.  `pc[s]` is where the submission is: `queued`, `cancelled` or
`done` as its future says, or a line of `_exec` while a thread runs it.  Each access to
the global hook is a step of its own (`LoadHook`, `InstallHook`, `RestoreHook`; and
`Register`, `CallHook`, since `register()` reads the hook twice), because threads past
their limit run beside the current one.  `last[s]` is the end of the list `registered`
of one `_exec`, `saved[s]` its `original_hook`.  What a script computes is open: it may
register, raise, end, or never do anything.  `Build` is the constructor that
`registry.add` calls on the event loop.

### RateLimiter and Quota

One user, one key, any number of requests on any number of processes.  Each of the
commands `incr`, `expire` and `ttl` is an action, and may be refused, or applied with
the answer lost.  `Tick` is the clock of Redis.  `window`,
`life` and `stamp` are histories.  `Quota` is what users are promised: one counter that
decides each request when it reaches it.  The mapping takes the key's value as the
counter and the stage of a request, together with the count it was given, as its
verdict (`StageOf`).

### NewsFetcher

`phase` is the await the cycle is at: idle, one of the four keys, or the push loop. `Gather`
is everything before the first write, with any source failing; the dates that order the items
are arbitrary, and an item is its id with its impact.  `Store`, `StoreFails`, `Push`,
`PushFails`, `Note` and `Finish` are the awaits and their failures; a command that raises may
have taken effect.  `Expire` may come at any time: a key lives 300 seconds, and nothing
bounds the length of a cycle.  `Restart` is a new process: Redis stays, `seen` is empty.

### Sessions

`clock`, `tokens` and the row of each user (`role`, `active`) are apart, as they are in
the code: a token is never looked up again.  A login or refresh is three steps, since
it awaits the database between reading the row and issuing (`op`).  `Change` is the
administrator.

A socket is `closed`, `accepted`, `listening`, `closing` (in the `finally` clause) or
`leaked`; `Handshake` looks at the token and nothing does afterwards.  `Send` is a turn
of the loop over `pubsub.listen()`; `PassOver` is the turn of a strategy's handler that
sends nothing, because the signal is another strategy's or an error other than a
disconnect was caught (`lab.py:209-217`).  Every await on Redis may return, raise, or
wait for ever: `SubscribeFails` (outside the `try`, so nothing is closed), `ListenFails`,
`ReleaseFails` (`unsubscribe` raises and `close` is skipped), and `RedisStops`, after
which no subscription, release or publication happens.  A send to a client that left is
taken to raise `WebSocketDisconnect`, which is what the handlers expect.  `silent` holds
the topics on which nothing will be published any more, `removed` the strategies that are
no longer in the registry; only the latter are refused by a handshake (`lab.py:196`).

## The runs

| Run | Question | Answer |
|---|---|---|
| `feed_single` | With one receive thread, do books, tape, frames and snapshots say what the socket received, each entry once, over loss, repetition and reordering, and is a packet reported whose predecessor nobody delivered? | yes, but for the first it compares |
| `feed_live` | Is it safe to destroy books and publisher after `stop()`, does `stop()` return, and is a buffered packet parsed when the other channel is dead? | yes, unless its own `recv` fails |
| `feed_duplicates` | Is what channel B repeats ignored (`docs/feed.md:169`)? | no: a trade counts twice |
| `subscriber_chain` | Over failures, crashes and expiring keys, do consumers, keys, channels and lists agree? | yes, but for handlers that were cut short |
| `engine_reference` | Do incremental indicators and signals agree with their definitions over whole tapes, does the value area stop at seven tenths? | yes, but for the first cross after a reset |
| `engine_reset` | Is the engine quiet after a reset (`test_signals.py:45`)? | no: the first trade can signal a cross with the old session |
| `registry` | Whatever requests arrive during a dispatch, is nobody called twice or after its removal, does an undisturbed one reach everyone, and is every signal stored, lost with an error, or under way, also when a command raises after it took effect? | yes |
| `registry_every` | Does every strategy receive every event (`registry.py:3`)? | no: an add or remove during a publication ends the dispatch |
| `sandbox_pool` | With scripts past their limit still running, does a lone script get its own class, does a queued one never run unawaited, is the hook restored? | yes |
| `limit_window` | Does the limit hold under concurrency and failure, and is a request decided in one step? | yes, and twice the limit in any hour |
| `news` | Do the four lists agree, and is a hot item published once, over failures and restarts? | yes, within the excuses `PushedOnce` counts |
| `sessions` | How long does a role outlive its removal, in requests, refreshes and handshakes? Does the handler of a client that left come to its end? | an access token's life and one wait; yes, unless its topic is silent or Redis stops, and it may lose its subscription |

### Bounds

- `feed_single`: three packets of four shapes and one repeat cover insert, change,
  erase, a delete with a quantity, a trade with and without a book, an entry that is
  skipped, and several entries in one packet; two securities show that books do not mix.
  `Depth` 1 makes the second price level fall out of the snapshot.  The three packets
  also leave room for a loss between two of them and for one that comes late.  Two threads
  on one `last_seq_` are beyond this run: the theorem `FeedReportsGaps` is for any number.
- `feed_live`: one packet on two channels puts both threads in the same callbacks at
  once; a stray datagram ends a thread, or not.  The safety property of this run is
  proved for any number of packets.
- `subscriber_chain`: three frames of four kinds, two signals, a queue of one and two
  starts let a queue overflow, a list overflow, a signal be cut from the next, and a
  second process find the keys of the first.  One symbol: nothing in the handlers
  reaches from one symbol's state to another's.
- `engine_reference`: five trades of five kinds over two symbols with one reset.  The
  periods are 2, 5, 2 and 3 instead of 14, 20, 9 and 21: five trades fill every window,
  pass the seed of RSI and make the average forget; the bands need five values to have
  one 1.8 deviations out.  Prices 1 to 4 with volumes 0 to 3 give profiles with ties and with
  areas that grow on both sides and to both borders.
- `registry`: three ids and room for two make the dict fill up, rebuild without holes,
  and hold a key that was added behind the iterator; two events, five requests and
  lists of one make a list overflow, fail to be trimmed, and be trimmed later.
- `sandbox_pool`: three scripts and two workers: both workers can be lost with one
  submission left, or one lost while two others run beside it in turn.
- `limit_window`: five requests against a limit of two, over a clock of more than two
  windows, let two lives of the key touch within one hour.
- `news`: two sources, two ids, three cycles in two lives; a set bounded by one
  member is cut as soon as both ids were seen, so an id is cut and seen again.
- `sessions`: one user, one change of the row, and one socket, for a strategy, whose handler
  has every step of the others and more.  A refresh token lives three ticks, an access token
  one and a wait one, so within three ticks a role is lost, refreshed from a stale row, and
  expires.  A second socket would add nothing to the first: handlers share only Redis, and
  the signals of other strategies come to the same as the messages a handler passes over.
- The runs that end in a violation are as small as its trace needs.

### Fairness

- `feed_live`: weak fairness of each receive thread, of a `recv` that was woken by the
  closing of its socket, and of `StopClose \/ StopJoin`: the operating system runs a
  thread that can run.  Nothing is assumed of packets, signals or the order of the
  threads, and nothing makes `recv` fail on an open socket.
- `sessions`: while Redis answers, a handler whose command can return does so
  (weak fairness of `Subscribe` and `Release`, both disabled once Redis has stopped), and
  something is published on a topic that is not silent.  `Send` is strongly fair: of all
  the messages of its topic a handler does not fail to send every one by an error that is
  no disconnect.  What Redis owes is in the property, not in the fairness: its clients
  set no time limit, so `GoneIsNoticed` excuses a Redis that never answers again.

No liveness is claimed of registry, subscriber and news, whose every step waits for Redis,
nor of the sandbox, where the scripts and constructors of users may never end.

## What is proved

From the named assumptions on the constants alone, for every value of them:

- `FeedTypes`: `TypeInv` strengthens the type invariant by where the threads stand:
  the packet a thread parses has been multicast and the entry it is in exists.
  Without that, the type of `books` is not inductive.
- `FeedStopsClean`: `StopInv` says that a channel the loop of
  `stop()` has passed has no live thread, and that an unfinished message belongs to a
  thread between its two sends.  When `mpc` is `stopped` all channels are passed.
- `FeedReportsGaps`, under `NoWrap` (`MaxPackets + 1 < SeqMod`, fewer packets in a session
  than sequence numbers), for any channels, repeats and reorderings: `GapInv` relates what a
  thread has compared but not stored to what was stored and reported.  `last_seq_` is always
  the number of some stored packet; a thread that finds no gap has seen the predecessor's
  number there, so the predecessor was stored.  Without `NoWrap` the theorem is false: after
  a wrap `last_seq_` is 0, which also means "no packet yet" (`umdf_parser.cpp:23`), and a
  loss right after it is silent; TLC shows it with `SeqMod` 4 and `MaxPackets` 6.
- `FeedHandlesOnceInOrder`, with one open channel (`One`, which the run's `Lone` implies) as
  the three that follow: `WireInv` keeps the datagrams of a buffer in the order of their
  arrival, which need not be the feed's, and behind the one being parsed, and `LogInv` what
  is handled among what was received.  `OrderInv` is then inductive: the log is sorted, all
  of it comes before where the thread stands, and an entry of a stored packet is in the log
  or still ahead of the thread.
- `FeedBookShowsLatestQuote`: `BookInv` adds that the thread changes a book as it is
  now (`Reading`), so a level is what the last quote for it in the log said.
- `FeedSnapshotIsBook`: `FrameInv` says that the frames a thread has not sent yet are
  those of its entry, and that a half-sent message is the topic of the first of them.
  By `SnapInv` the last snapshot sent of a book is the book, or the thread is on its way to
  send it or to change the book.
- `FeedTapeFollowsFeed`: `TapeInv` counts: as many trades are on the wire as in the
  log, one less while the thread owes one, and those of equal rank agree (`Tally`,
  `Told`).
- `SubscriberTypes`; `SubscriberConsumersAgree`: `FlowInv` says that what each
  consumer was given is in the order of the frames, and ends in the frame of the
  handler exactly for the consumers that had their turn.  Two consumers next to each
  other then differ by handlers that were cut short and the one under way, and the chain of
  six closes over `Agree`.
- `SubscriberKeyBeforeChannel`: `KeyInv` says that a channel about to be told has its
  key set to the handler's frame, or expired.
- `SubscriberListsBounded`: `ListInv` has the exact excuse of a list that is too long:
  the entry at its head is the handler's, awaiting its trim, or of a handler cut short.
- `SubscriberKeysFresh`: `FreshInv` says that a key shows its accumulator unless the
  handler is at the very await that sets it, or the last one was cut short.
- `EngineInvariance`: everything the engine and the accumulators hold is a function of the
  session or of the tape (`SymbolHolds`), whatever trades, symbols and periods.
  `EngineTypes`, `EngineSignalsMatchReference`, `EngineStudiesMatchTape` and
  `EngineValueArea` are read off it.  Per indicator there is one lemma that carries it over a
  trade: the running sums of the averages and the profile are sums over the trades of the
  window, RSI's recursion is Wilder's closed form, the variance of the bands is the one of
  the pairs, the deltas are those of the tape.  The value area ends since each step leaves
  fewer levels outside (`IterationExists`, `IterationKeeps`).
- Sums, powers and the growth of the area recur.  Their inductions are made in set
  form: strict inclusion of finite sets is well-founded, so a set of counterexamples
  has a smallest member (`SmallestSubset`), and from it follow what the recursive
  functions compute at each argument and that a sum may be added in any order
  (`SumFunctionOnSet`).
- `RegistryTypes`: `DictInv` adds that no key is twice in the dict.  `InsertKeeps` is
  what the others rest on: an insertion, with a rebuild or without, keeps the keys in
  their order, and none moves to a later place (by an injection into `1 .. k`).
- `RegistryCalledOnce`, `RegistryNotCalledOnceRemoved`: `CalledInv` says that what a
  dispatch called is removed or at a place the iterator has passed, and no key is a
  removed id.  A rebuild moves keys back, so passed keys stay passed, and what the
  iterator yields is ahead of it.
- `RegistryReachesAll`: `ReachInv` says that without an addition or a removal the
  iterator's count of keys left is the number of keys ahead of it, and that every
  steady strategy was called or is among them.  So it does not fail, and when nothing
  is ahead all were called.
- `RegistrySignalsAccounted`: `SignalsInv` has the exact bound of a list (what is
  untrimmed, and one more while it awaits its trim), that each loss and each untrimmed
  push has an error of its own, and that an id not handed out yet has no signals, which
  is why the fresh record of an addition agrees with the histories.
- `RateTypes`; `RateLimitHolds`: `CountInv` says that the counts `incr` returned in
  one life of the key are distinct and that an accepted request has one within the
  limit, so accepted requests inject into `1 .. Limit`.
- `RateTwiceAnyHour`: `ApartInv` says that increments in lives of the key that are not
  neighbours are a window apart, so an hour meets at most two lives, and each accepts
  at most `Limit`.
- `RateUnsetOnlyByCreator`: the invariant is inductive with `TypeOK`.  The life of a key
  begins with the one request that is told 1, an expiry once set stays until the key is
  gone, and that request ends as `failed` only without having set it.
- `RateDecidesAtOnce`: `RateLimiter` implements `Quota`.  Initial states map to
  initial states; each action of a request maps to `Decide`, `Answer`, `Lose` or a
  stutter, and the tick that ends a life of the key to `Renew`.  `TypeOK` is what
  the steps need of the state.
- `SandboxTypes`: `Typed` is inductive, and `Pool`, that the running scripts are a
  finite set no larger than the pool, follows step by step since only `Start` adds one.
- `SandboxQueueAwaited`: `Awaited` adds where an awaited script can be: in the queue,
  running, or done.
- `SandboxHookRestored`: `HookInv` says that while no script overran, only the awaited
  script runs, the hook is its own from its installation to its restoration and empty
  otherwise, and what it saved is empty.
- `SandboxAloneIsFaithful`: `AloneInv` follows hook, list, and the history of
  `register()` through every line of a script that started beside none past its limit.
- `SandboxLostPool`: `RoomInv` says that there is a worker to spare when the awaited
  script is done.  While it ran it was a worker itself (`RunningHasRoom`), and no
  script overruns between its end and its answer.
- `SessionsRoleLag`: `RoleInv` says that an operation that has read a row holds a rank
  its user had no longer ago than the operation's age, and that an access token
  expires a life and a wait after its user last held the rank.  `LastHeldGrows`, that
  when somebody last held a rank never moves back, carries both through changes of
  the row and ticks.

- `NewsTypes`: the walk over the fetched items ends within them, and the set of ids is
  back within its bound when a cycle ends.  `NewsPushedOnce`: `PushInv` says that an
  id in `seen` was published or is quiet, and that one outside it was published no
  more often than there are excuses.  `NewsKeysInStep`: `StepInv` says which keys the
  cycle has written when it comes to each phase, and that they hold its lists or expired.
- `SessionsTypes`: a message waits only for a socket whose handler listens, over every
  failure.  It needs a topic (`Topics # {}`), since the record of a closed socket names one
  too.

Every invariant and action property of the runs that pass is so proved for all
constants.  Only model-checked are the liveness properties (`StopTerminates`, `PacketsParsed`,
`GoneIsNoticed`): fairness and `ENABLED` are beyond the prover.

## What the code does that its documents do not say

The runs marked "no" are disagreements with a document, a comment or a test.  Others
were met while modelling and have no run of their own; the model has the steps of each:

- `on_quote` passes 0 as the action of every quote (`main.cpp:57-58`, `QuoteAction`), so a
  delete that still names a quantity inserts its level, where `docs/feed.md:64-68` says that
  2 removes it.  `BookShowsLatestQuote` excepts such deletes.
- Both threads can send their topic before either sends its payload, and one message is then
  topic, topic, payload, where `zmq_publisher.cpp:97` says topic, payload.  `TapeFollowsFeed`
  is for one thread.
- When the request that created the key is cut short before `EXPIRE`, the window never
  resets, where `agents.py:149` says that it does every hour.  `UnsetOnlyByCreator` says
  that nothing else can cause it.
- A script past its limit that registers late puts its class into the list of the script
  that runs then, whose user is answered with it (`sandbox.py:143-156`, `CallHook`), where
  `sandbox.py:114` says that a script's own class is returned.
- The constructor of a class runs on the event loop without a limit (`registry.py:46`,
  `Build`): if it does not return nothing else does, where `docs/backend.md:251` says that
  infinite loops do not block the event loop.
- An incremental trade carries an aggressor but no symbol (`umdf_parser.cpp:161`),
  where `docs/feed.md:132-142` shows both; the subscriber drops trades without one.
- A strategy whose `symbols` cannot be searched ends every dispatch for those behind it
  (`registry.py:69`, `Misread`), which `UndisturbedReachesAll` therefore excepts.
- Like its constructor, a strategy's handler runs on the event loop without a time limit
  (`registry.py:72`).
- While a script past its limit runs, a hook restored late replaces the current one
  (`sandbox.py:142-151`): `AloneIsFaithful` and `HookRestored` hold only while there is
  none such, and say nothing of the overlap.
- `session_reset` is called by tests only, and nothing resets the order flow delta, which
  `delta.py:26` says is for a session: `StudiesMatchTape` compares it with the whole tape.
- A request that is refused, or whose answer is lost, is charged to the user's window
  (`agents.py:147-151`): `LimitPerWindow` is an upper bound of what is served, no more.
- The strength of a Bollinger or VWAP signal is not confined to 0 to 1
  (`signals/base.py:11`; `engine.py:43-47`, `engine.py:72`).
- A socket for all symbols receives each snapshot twice, once by its symbol and once by
  the literal channel `market:snapshot:*`, which its pattern also matches (`ws.py:75`,
  `subscriber.py:86-87`).
- An item first seen when it was not hot is not published when it becomes hot
  (`news_fetcher.py:182-184`); `PushedOnce` speaks of items that were never quiet.
- Open sockets outlive their token and a deactivation of their user (`ws.py:25-54`):
  `RoleLag` bounds requests, refreshes and handshakes only.  And the socket of a removed
  strategy is never released when its client leaves, since nothing is published for it again.

## Not modelled, and why

- Reference fetcher: three loops that overwrite keys with what two web services answer;
  no loop reads what it or another wrote.
- REST readers, lifespan, health, audit, models: no state of their own, or wiring.
  The shutdown under a running handler is `Stop` and `Crash` of `FeedSubscriber`.
- `BookImbalance`: a function without state that one reader calls.
- STEP client: of `main()`, which constructs it, connects it once if a host is configured,
  and disconnects it at the end, `StepConnect` has the connect; the framing of its byte
  stream and its receive thread are not modelled, and share nothing with the feed.
- Web client: token store, refresh and the reconnecting socket hook.  Its hazards are
  listed in `PROJECT.json`; it is the next component to model.
- Panels: rendering.

## Plan

1. Theorems about the operators of `OrderBook` against the documents: the order and the
   depth of a snapshot's levels, the VWAP of a book between its prices.
2. `WebSession`: refresh against logout and concurrent requests, and a socket that
   outlives its effect.
3. `FeedAbstract`: one channel that delivers packets in order, which `UmdfFeed` with
   one channel implements; `FeedFrames`, `UmdfFeed`'s wire into `FeedSubscriber`'s
   queue, with the frames a nameless book costs.
4. `StepClient`.
