---------------------------- MODULE FeedSubscriber ----------------------------
(***************************************************************************)
(* backend/app/feed/subscriber.py: the task that takes the frames of the   *)
(* feed from a ZMQ socket one at a time and hands each to a chain of       *)
(* consumers: the tape, the order flow delta, the volume profile, the      *)
(* signal engine, the sockets of the clients and the users' strategies.    *)
(*                                                                         *)
(* A handler stops at every await, where Redis may answer, refuse, or      *)
(* answer to nobody; the synchronous code up to the next await belongs to  *)
(* the same step.  An exception ends the handler, not the loop.  The       *)
(* process may stop in order (stop, with a handler under way) or at any    *)
(* point (Crash), and start again: memory is lost, Redis stays.            *)
(*                                                                         *)
(* A frame is known by its number, in the order they were published.  What *)
(* a consumer has accumulated is the sequence of the trades it was given,  *)
(* of which delta, profile and indicators are functions.                   *)
(***************************************************************************)
EXTENDS Integers, Sequences, SequencesExt

CONSTANTS Symbols,     \* the instruments' symbols
          NoSymbol,    \* the empty symbol
          Frames,      \* the frames the feed may publish
          Keep,        \* entries kept in a list: 1000 of the tape, 200 signals
          MaxSignals,  \* bound: signals of one trade, 3 built in
          Hwm,         \* frames the socket queues: ZMQ drops above 1000
          MaxFrames,   \* bound: frames published
          MaxStarts    \* bound: times the process starts

\* full: a trade of a quantity, a snapshot of both sides; priced: a price that is not 0.
Frame == [topic : {"snapshot", "trade", "malformed"}, symbol : Symbols \cup {NoSymbol},
          priced : BOOLEAN, full : BOOLEAN]

ASSUME FeedSubscriberAssumption ==
  /\ NoSymbol \notin Symbols
  /\ Frames \subseteq Frame
  /\ Keep \in Nat \ {0} /\ Hwm \in Nat \ {0}
  /\ MaxSignals \in Nat /\ MaxFrames \in Nat
  /\ MaxStarts \in Nat

VARIABLES
  up,      \* _running, and the socket is open
  at,      \* where the task is: off, recv, or the await of a handler
  cur,     \* number of the frame in the handler
  sigs,    \* signals of that trade still to be published
  queue,   \* numbers of the frames queued in the socket
  flow,    \* per symbol and consumer: the trades it was given since the start
  lists,   \* Redis lists per symbol: trades on the tape, trades that gave signals
  keys,    \* Redis keys per symbol: the frames their value accounts for, or <<>>
  told,    \* history: the last value published on the channel beside each key
  cut,     \* history: frames whose handler did not reach its end
  past,    \* history: the frames published, by number
  starts   \* history: times the process started

redisVars == <<lists, keys, told>>
vars == <<up, at, cur, sigs, queue, flow, redisVars, cut, past, starts>>

\* The consumers of a trade, in the order _handle_trade serves them.
Consumers == <<"tape", "delta", "profile", "engine", "clients", "strategies">>

Nothing == [s \in Symbols |-> [c \in ToSet(Consumers) |-> <<>>]]

Lists == {"tape", "signals"}
Keys == {"snapshot", "delta", "profile"}

Init ==
  /\ up = FALSE /\ at = "off" /\ cur = 0 /\ sigs = 0 /\ queue = <<>>
  /\ flow = Nothing
  /\ lists = [l \in Lists |-> [s \in Symbols |-> <<>>]]
  /\ keys = [k \in Keys |-> [s \in Symbols |-> <<>>]]
  /\ told = [k \in Keys |-> [s \in Symbols |-> <<>>]]
  /\ cut = {} /\ past = <<>> /\ starts = 0

InHandler == at \notin {"off", "recv"}

symbol == past[cur].symbol

-------------------------------------------------------------------------------
\* The process, the socket and the feed.

\* start(), in a new process: new accumulators, and a socket that gets what is
\* published from now on.
Start ==
  /\ ~up /\ at = "off" /\ starts < MaxStarts
  /\ up' = TRUE /\ at' = "recv" /\ starts' = starts + 1
  /\ flow' = Nothing
  /\ UNCHANGED <<cur, sigs, queue, redisVars, cut, past>>

\* stop(): a pending recv ends the loop; a handler under way goes on.
Stop ==
  /\ up
  /\ up' = FALSE /\ queue' = <<>>
  /\ at' = IF at = "recv" THEN "off" ELSE at
  /\ UNCHANGED <<cur, sigs, flow, redisVars, cut, past, starts>>

\* The process dies, or the event loop is closed under the handler.
Crash ==
  /\ at # "off" \/ up
  /\ up' = FALSE /\ queue' = <<>> /\ at' = "off"
  /\ cut' = IF InHandler THEN cut \cup {cur} ELSE cut
  /\ sigs' = 0
  /\ UNCHANGED <<cur, flow, redisVars, past, starts>>

\* The feed publishes a frame; a socket that is full or closed does not get it.
Publish(f) ==
  /\ Len(past) < MaxFrames
  /\ past' = Append(past, f)
  /\ queue' = IF up /\ Len(queue) < Hwm THEN Append(queue, Len(past) + 1) ELSE queue
  /\ UNCHANGED <<up, at, cur, sigs, flow, redisVars, cut, starts>>

\* A key's time is over: 60 s for a snapshot, a day for the others.
KeyExpires(k, s) ==
  /\ keys[k][s] # <<>>
  /\ keys' = [keys EXCEPT ![k][s] = <<>>]
  /\ UNCHANGED <<up, at, cur, sigs, queue, flow, lists, told, cut, past, starts>>

-------------------------------------------------------------------------------
\* _recv_loop and the handlers.

\* The first await of the handler, or back to recv: a frame that is malformed, has no
\* symbol, or is a trade without a price is left alone.
FirstAwait(f) ==
  CASE f.topic = "snapshot" /\ f.symbol # NoSymbol -> "setexSnapshot"
    [] f.topic = "trade" /\ f.symbol # NoSymbol /\ f.priced -> "lpushTape"
    [] OTHER -> "recv"

Receive ==
  /\ at = "recv" /\ queue # <<>>
  /\ cur' = Head(queue) /\ queue' = Tail(queue)
  /\ at' = FirstAwait(past[Head(queue)])
  /\ UNCHANGED <<up, sigs, flow, redisVars, cut, past, starts>>

\* The socket raises: the loop is over, though nobody has called stop().
ReceiveFails ==
  /\ at = "recv"
  /\ at' = "off"
  /\ UNCHANGED <<up, cur, sigs, queue, flow, redisVars, cut, past, starts>>

\* Mutant: an exception or the end of a handler ends the loop.
LoopEnds == "ended"

\* while self._running.
LoopTest == IF up THEN "recv" ELSE "off"

\* vp.result() is None as long as nothing but empty trades was added.
HasVolume == \E k \in DOMAIN flow[symbol].profile : past[flow[symbol].profile[k]].full

\* Mutant: without a profile the handler returns.
ReturnsWithoutProfile(full) == IF HasVolume \/ full THEN "setexProfile" ELSE LoopTest

\* if result: the profile with the trade in it.
ProfileAwait(full) == IF HasVolume \/ full THEN "setexProfile" ELSE "publishTrade"

\* Mutant: the channel hears of a value before the key has it.
PublishFirst(a) ==
  CASE a = "ltrimTape" -> "publishDelta"
    [] a = "publishDelta" -> "setexDelta"
    [] OTHER -> "setexProfile"

\* What follows an await of _handle_trade that returned, up to the signals.
AfterUpdate(a) ==
  CASE a = "ltrimTape" -> "setexDelta"
    [] a = "setexDelta" -> "publishDelta"
    [] a = "publishDelta" -> ProfileAwait(past[cur].full)

NextAwait(a) ==
  CASE a = "setexSnapshot" -> "publishSnapshot"
    [] a = "publishSnapshot" -> "publishAll"
    [] a = "publishAll" -> IF past[cur].full THEN "dispatchQuote" ELSE LoopTest
    [] a = "lpushTape" -> "ltrimTape"
    [] a \in {"ltrimTape", "setexDelta", "publishDelta"} -> AfterUpdate(a)
    [] a = "setexProfile" -> "publishProfile"
    [] a = "publishProfile" -> "publishTrade"
    [] a = "publishTrade" -> IF sigs > 0 THEN "publishSignal" ELSE "dispatchTrade"
    [] a = "publishSignal" -> "lpushSignal"
    [] a = "lpushSignal" -> "ltrimSignal"
    [] a = "ltrimSignal" -> IF sigs > 1 THEN "publishSignal" ELSE "dispatchTrade"
    [] OTHER -> LoopTest

\* Mutant: ltrim keeps positions 0 to Keep.
TrimmedOneMore(l) == SubSeq(l, 1, IF Len(l) > Keep + 1 THEN Keep + 1 ELSE Len(l))

\* ltrim 0 .. Keep - 1.
Trimmed(l) == SubSeq(l, 1, IF Len(l) > Keep THEN Keep ELSE Len(l))

\* Mutant: the payload is built before the accumulator is updated.
PayloadBefore(k) == IF k = "snapshot" THEN <<cur>> ELSE Front(flow[symbol][k])

\* The value a key and its channel are given: the snapshot, or the accumulator.
Payload(k) == IF k = "snapshot" THEN <<cur>> ELSE flow[symbol][k]

Setex(k) == keys' = [keys EXCEPT ![k][symbol] = Payload(k)] /\ UNCHANGED <<lists, told>>

Tell(k) == told' = [told EXCEPT ![k][symbol] = Payload(k)] /\ UNCHANGED <<lists, keys>>

Push(l) == lists' = [lists EXCEPT ![l][symbol] = <<cur>> \o @] /\ UNCHANGED <<keys, told>>

Trim(l) == lists' = [lists EXCEPT ![l][symbol] = Trimmed(@)] /\ UNCHANGED <<keys, told>>

\* What Redis does at an await.
RedisDoes(a) ==
  \/ a = "setexSnapshot" /\ Setex("snapshot")
  \/ a \in {"publishSnapshot", "publishAll"} /\ Tell("snapshot")
  \/ a = "lpushTape" /\ Push("tape")
  \/ a = "ltrimTape" /\ Trim("tape")
  \/ a = "setexDelta" /\ Setex("delta")
  \/ a = "publishDelta" /\ Tell("delta")
  \/ a = "setexProfile" /\ Setex("profile")
  \/ a = "publishProfile" /\ Tell("profile")
  \/ a = "lpushSignal" /\ Push("signals")
  \/ a = "ltrimSignal" /\ Trim("signals")
  \/ /\ a \in {"publishTrade", "publishSignal", "dispatchQuote", "dispatchTrade"}
     /\ UNCHANGED redisVars

\* The consumers that got the trade when the await is over: the accumulators are
\* updated in the code that follows it.
Served(a) ==
  CASE a = "lpushTape" -> {"tape"}
    [] a = "ltrimTape" -> {"delta"}
    [] a = "publishDelta" -> {"profile"}
                             \cup IF NextAwait(a) = "publishTrade" THEN {"engine"} ELSE {}
    [] a = "publishProfile" -> {"engine"}
    [] a = "publishTrade" -> {"clients"}
    [] a = "dispatchTrade" -> {"strategies"}
    [] OTHER -> {}

Serve(C) ==
  flow' = IF C = {} THEN flow
          ELSE [flow EXCEPT ![symbol] =
                 [c \in DOMAIN @ |-> IF c \in C THEN Append(@[c], cur) ELSE @[c]]]

\* How many signals the engine finds, or what is left of them.
Signals(a) ==
  IF "engine" \in Served(a) THEN sigs' \in 0 .. MaxSignals
  ELSE sigs' = IF a = "ltrimSignal" THEN sigs - 1 ELSE sigs

\* An await returns and the handler goes on to the next one, or to its end.
Answer ==
  /\ InHandler
  /\ RedisDoes(at) /\ Serve(Served(at)) /\ Signals(at)
  /\ at' = NextAwait(at)
  /\ UNCHANGED <<up, cur, queue, cut, past, starts>>

\* An await raises, whether or not Redis did what it was asked: the handler ends, the
\* loop logs it and goes on.
Fail ==
  /\ InHandler
  /\ \/ UNCHANGED <<redisVars, flow>>
     \/ RedisDoes(at) /\ Serve(Served(at) \ {"delta", "profile", "engine"})
  /\ cut' = cut \cup {cur}
  /\ at' = LoopTest /\ sigs' = 0
  /\ UNCHANGED <<up, cur, queue, past, starts>>

Environment ==
  \/ Start \/ Stop \/ Crash
  \/ \E f \in Frames : Publish(f)
  \/ \E k \in Keys, s \in Symbols : KeyExpires(k, s)

Next == Environment \/ Receive \/ ReceiveFails \/ Answer \/ Fail

Spec == Init /\ [][Next]_vars

-------------------------------------------------------------------------------
(* Properties. *)

Awaits == {"setexSnapshot", "publishSnapshot", "publishAll", "dispatchQuote", "lpushTape",
           "ltrimTape", "setexDelta", "publishDelta", "setexProfile", "publishProfile",
           "publishTrade", "publishSignal", "lpushSignal", "ltrimSignal", "dispatchTrade"}

\* Every variable holds a value of its type.
TypeOK ==
  /\ up \in BOOLEAN /\ at \in {"off", "recv"} \cup Awaits
  /\ past \in Seq(Frame) /\ Len(past) <= MaxFrames
  /\ cur \in 0 .. MaxFrames /\ sigs \in 0 .. MaxSignals
  /\ queue \in Seq(1 .. MaxFrames) /\ Len(queue) <= Hwm
  /\ flow \in [Symbols -> [ToSet(Consumers) -> Seq(1 .. MaxFrames)]]
  /\ lists \in [Lists -> [Symbols -> Seq(1 .. MaxFrames)]]
  /\ keys \in [Keys -> [Symbols -> Seq(1 .. MaxFrames)]]
  /\ told \in [Keys -> [Symbols -> Seq(1 .. MaxFrames)]]
  /\ cut \subseteq 1 .. MaxFrames
  /\ starts \in 0 .. MaxStarts

Given(s, c) == ToSet(flow[s][Consumers[c]])

UnderWay == IF InHandler THEN {cur} ELSE {}

\* No consumer is given a trade twice or out of order, and none misses a trade its
\* predecessor was given, except where the handler was cut short (subscriber.py
\* 101-179): delta, profile and indicators of a symbol never disagree silently.
ConsumersAgree ==
  \A s \in Symbols :
    /\ \A c \in DOMAIN Consumers : \A j, k \in DOMAIN flow[s][Consumers[c]] :
         j < k => flow[s][Consumers[c]][j] < flow[s][Consumers[c]][k]
    /\ \A c \in 1 .. Len(Consumers) - 1 :
         /\ Given(s, c + 1) \subseteq Given(s, c)
         /\ Given(s, c) \ Given(s, c + 1) \subseteq cut \cup UnderWay

\* Between frames the keys the REST readers use hold what is in memory, unless they
\* expired or the last trade of the symbol was cut short (subscriber.py 133, 154).
KeysFresh ==
  \A s \in Symbols, k \in {"delta", "profile"} :
    LET mine == flow[s][k] IN
      /\ ~InHandler /\ mine # <<>> /\ Last(mine) \notin cut
      /\ keys[k][s] # <<>>
      /\ k = "profile" => \E j \in DOMAIN mine : past[mine[j]].full
      => keys[k][s] = mine

\* A client that hears a value on a channel and then reads the key never reads an
\* older one: the key is set before the channel is told, over failures and restarts
\* (subscriber.py 83-87, 133-134, 154-155).
KeyBeforeChannel ==
  \A k \in Keys, s \in Symbols :
    keys[k][s] # <<>> /\ told[k][s] # <<>> => Last(told[k][s]) <= Last(keys[k][s])

\* The tape and the signal list are newest first and no longer than Keep, unless the
\* handler of the newest entry was cut between its push and its trim, which costs one
\* entry each time and is made good by the next trade (subscriber.py 118-119, 171-172).
ListsBounded ==
  \A l \in Lists, s \in Symbols :
    LET list == lists[l][s] IN
      /\ \A j, k \in DOMAIN list : j < k => list[j] >= list[k]
      /\ Len(list) > Keep => Head(list) \in cut \cup UnderWay

===============================================================================
