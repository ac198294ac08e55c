------------------------- MODULE FeedSubscriberProofs -------------------------
(***************************************************************************)
(* Theorems about FeedSubscriber, for any symbols and frames, any sizes of *)
(* queue and lists, and any number of starts and crashes.                  *)
(***************************************************************************)
EXTENDS FeedSubscriber, TLAPS

Names == {"tape", "delta", "profile", "engine", "clients", "strategies"}

Number == 1 .. MaxFrames

LEMMA ConsumerNames ==
  /\ ToSet(Consumers) = Names /\ DOMAIN Consumers = 1 .. 6 /\ Len(Consumers) = 6
  /\ {"delta", "profile"} \subseteq Names
<1>1. Len(Consumers) = 6 /\ DOMAIN Consumers = 1 .. 6
  BY DEF Consumers
<1>2. /\ Consumers[1] = "tape" /\ Consumers[2] = "delta" /\ Consumers[3] = "profile"
      /\ Consumers[4] = "engine" /\ Consumers[5] = "clients" /\ Consumers[6] = "strategies"
  BY DEF Consumers
<1>3. ToSet(Consumers) = {Consumers[i] : i \in 1 .. 6}
  BY <1>1 DEF ToSet
<1>4. \A i \in 1 .. 6 : i = 1 \/ i = 2 \/ i = 3 \/ i = 4 \/ i = 5 \/ i = 6
  OBVIOUS
<1>5. ToSet(Consumers) = Names
  BY <1>2, <1>3, <1>4 DEF Names
<1>6. QED
  BY <1>1, <1>5 DEF Names

-----------------------------------------------------------------------------
(* Sequences of numbers. *)

LEMMA Numbers ==
  /\ Number \subseteq Nat
  /\ \A q \in Seq(Number) :
       /\ DOMAIN q = 1 .. Len(q) /\ Len(q) \in Nat /\ \A j \in DOMAIN q : q[j] \in Number
       /\ q # <<>> => Len(q) \in DOMAIN q
<1>1. Number \subseteq Nat
  BY DEF Number
<1>2. ASSUME NEW q \in Seq(Number), q # <<>> PROVE Len(q) \in DOMAIN q
  BY <1>2
<1>3. QED
  BY <1>1, <1>2

LEMMA AppendNumber ==
  ASSUME NEW q \in Seq(Number), NEW n \in Number
  PROVE  /\ Append(q, n) \in Seq(Number) /\ Append(q, n) # <<>> /\ Last(Append(q, n)) = n
         /\ ToSet(Append(q, n)) = ToSet(q) \cup {n}
         /\ DOMAIN Append(q, n) = 1 .. Len(q) + 1 /\ Append(q, n)[Len(q) + 1] = n
         /\ \A j \in 1 .. Len(q) : Append(q, n)[j] = q[j]
<1>1. /\ Append(q, n) \in Seq(Number) /\ Len(Append(q, n)) = Len(q) + 1 /\ Len(q) \in Nat
      /\ DOMAIN Append(q, n) = 1 .. Len(q) + 1 /\ Append(q, n)[Len(q) + 1] = n
      /\ \A j \in 1 .. Len(q) : Append(q, n)[j] = q[j]
  OBVIOUS
<1>2. Append(q, n) # <<>> /\ Last(Append(q, n)) = n
  BY <1>1 DEF Last
<1>3. ToSet(Append(q, n)) = ToSet(q) \cup {n}
  BY <1>1 DEF ToSet
<1>4. QED
  BY <1>1, <1>2, <1>3

LEMMA PushNumber ==
  ASSUME NEW q \in Seq(Number), NEW n \in Number
  PROVE  /\ <<n>> \o q \in Seq(Number) /\ Len(<<n>> \o q) = Len(q) + 1
         /\ Head(<<n>> \o q) = n /\ (<<n>> \o q)[1] = n
         /\ \A j \in 2 .. Len(q) + 1 : (<<n>> \o q)[j] = q[j - 1]
  OBVIOUS

\* The numbers of a list up to position m.
LEMMA CutNumbers ==
  ASSUME NEW q \in Seq(Number), NEW m \in Nat, m <= Len(q)
  PROVE  /\ SubSeq(q, 1, m) \in Seq(Number) /\ Len(SubSeq(q, 1, m)) = m
         /\ \A j \in 1 .. m : SubSeq(q, 1, m)[j] = q[j]
  OBVIOUS

LEMMA TrimmedList ==
  ASSUME NEW q \in Seq(Number)
  PROVE  /\ Trimmed(q) \in Seq(Number) /\ Len(Trimmed(q)) <= Keep /\ Len(Trimmed(q)) <= Len(q)
         /\ \A j \in 1 .. Len(Trimmed(q)) : Trimmed(q)[j] = q[j]
<1> DEFINE m == IF Len(q) > Keep THEN Keep ELSE Len(q)
<1>1. m \in Nat /\ m <= Len(q) /\ m <= Keep
  BY FeedSubscriberAssumption
<1>2. Trimmed(q) = SubSeq(q, 1, m)
  BY DEF Trimmed
<1> HIDE DEF m
<1>3. QED
  BY <1>1, <1>2, CutNumbers

-----------------------------------------------------------------------------
(* Types. *)

LEMMA Constants ==
  /\ Keep \in Nat \ {0} /\ Hwm \in Nat \ {0} /\ MaxSignals \in Nat /\ MaxFrames \in Nat
  /\ MaxStarts \in Nat /\ Frames \subseteq Frame
BY FeedSubscriberAssumption

\* The frames in the socket were published after the one in the handler, and the
\* handler has a frame with a symbol; while it publishes signals there are some left.
TypeInv ==
  /\ TypeOK
  /\ cur <= Len(past)
  /\ \A j \in DOMAIN queue : cur < queue[j] /\ queue[j] <= Len(past)
  /\ \A j, k \in DOMAIN queue : j < k => queue[j] < queue[k]
  /\ InHandler => cur > 0 /\ symbol \in Symbols
  /\ at \in {"publishSignal", "lpushSignal", "ltrimSignal"} => sigs > 0

LEMMA Handling ==
  ASSUME TypeInv, InHandler
  PROVE  at \in Awaits /\ cur \in Number /\ cur \in 1 .. Len(past) /\ symbol \in Symbols
         /\ past[cur] \in Frame
<1>1. /\ at \in {"off", "recv"} \cup Awaits /\ cur \in 0 .. MaxFrames /\ cur > 0
      /\ cur <= Len(past) /\ past \in Seq(Frame) /\ Len(past) \in Nat /\ MaxFrames \in Nat
  BY Constants DEF TypeInv, TypeOK
<1>2. at \in Awaits
  BY <1>1 DEF InHandler
<1>3. cur \in Number /\ cur \in 1 .. Len(past)
  BY <1>1 DEF Number
<1>4. QED
  BY <1>1, <1>2, <1>3 DEF TypeInv

\* flow, with the consumers by their names.
LEMMA FlowType ==
  TypeOK => /\ flow \in [Symbols -> [Names -> Seq(Number)]]
            /\ \A s \in Symbols, c \in Names : flow[s][c] \in Seq(Number)
BY ConsumerNames DEF TypeOK, Number

LEMMA NothingType ==
  /\ Nothing \in [Symbols -> [Names -> Seq(Number)]]
  /\ \A s \in Symbols, c \in Names : Nothing[s][c] = <<>>
<1>1. <<>> \in Seq(Number)
  OBVIOUS
<1>2. QED
  BY <1>1, ConsumerNames DEF Nothing

\* What serving the consumers C does.
LEMMA ServeDoes ==
  ASSUME TypeOK, symbol \in Symbols, cur \in Number, NEW C \in SUBSET Names, Serve(C)
  PROVE  /\ flow' \in [Symbols -> [Names -> Seq(Number)]]
         /\ \A s \in Symbols, c \in Names :
              flow'[s][c] = IF s = symbol /\ c \in C THEN Append(flow[s][c], cur) ELSE flow[s][c]
<1>1. flow \in [Symbols -> [Names -> Seq(Number)]]
  BY FlowType
<1>2. CASE C = {}
  BY <1>1, <1>2 DEF Serve
<1>3. CASE C # {}
  <2> DEFINE served == [c \in Names |-> IF c \in C THEN Append(flow[symbol][c], cur)
                                                   ELSE flow[symbol][c]]
  <2>1. DOMAIN flow[symbol] = Names
    BY <1>1
  <2>2. flow' = [flow EXCEPT ![symbol] = served]
    BY <1>3, <2>1 DEF Serve
  <2>3. served \in [Names -> Seq(Number)]
    <3>1. \A c \in Names : flow[symbol][c] \in Seq(Number)
      BY <1>1
    <3>2. \A c \in Names : Append(flow[symbol][c], cur) \in Seq(Number)
      BY <3>1
    <3>3. QED
      BY <3>1, <3>2
  <2>4. \A c \in Names : served[c] = IF c \in C THEN Append(flow[symbol][c], cur) ELSE flow[symbol][c]
    OBVIOUS
  <2> HIDE DEF served
  <2>5. QED
    BY <1>1, <2>2, <2>3, <2>4
<1>4. QED
  BY <1>2, <1>3

LEMMA PayloadType ==
  ASSUME TypeOK, symbol \in Symbols, cur \in Number, NEW k \in Keys
  PROVE  Payload(k) \in Seq(Number)
<1>1. <<cur>> \in Seq(Number)
  OBVIOUS
<1>2. k # "snapshot" => k \in Names
  BY DEF Keys, Names
<1>3. QED
  BY <1>1, <1>2, FlowType DEF Payload

LEMMA RedisTypes ==
  ASSUME TypeOK, symbol \in Symbols, cur \in Number, RedisDoes(at)
  PROVE  /\ lists' \in [Lists -> [Symbols -> Seq(Number)]]
         /\ keys' \in [Keys -> [Symbols -> Seq(Number)]]
         /\ told' \in [Keys -> [Symbols -> Seq(Number)]]
<1>1. /\ lists \in [Lists -> [Symbols -> Seq(Number)]]
      /\ keys \in [Keys -> [Symbols -> Seq(Number)]]
      /\ told \in [Keys -> [Symbols -> Seq(Number)]]
  BY DEF TypeOK, Number
<1>2. ASSUME NEW k \in Keys, Setex(k)
      PROVE  keys' \in [Keys -> [Symbols -> Seq(Number)]] /\ UNCHANGED <<lists, told>>
  BY <1>1, <1>2, PayloadType DEF Setex
<1>3. ASSUME NEW k \in Keys, Tell(k)
      PROVE  told' \in [Keys -> [Symbols -> Seq(Number)]] /\ UNCHANGED <<lists, keys>>
  BY <1>1, <1>3, PayloadType DEF Tell
<1>4. ASSUME NEW l \in Lists, Push(l) \/ Trim(l)
      PROVE  lists' \in [Lists -> [Symbols -> Seq(Number)]] /\ UNCHANGED <<keys, told>>
  <2>1. lists[l][symbol] \in Seq(Number)
    BY <1>1
  <2>2. <<cur>> \o lists[l][symbol] \in Seq(Number) /\ Trimmed(lists[l][symbol]) \in Seq(Number)
    BY <2>1, PushNumber, TrimmedList
  <2>3. PICK q \in Seq(Number) : lists' = [lists EXCEPT ![l][symbol] = q]
    <3>1. CASE Push(l)
      BY <2>2, <3>1 DEF Push
    <3>2. CASE Trim(l)
      BY <2>2, <3>2 DEF Trim
    <3>3. QED
      BY <1>4, <3>1, <3>2
  <2>4. lists' \in [Lists -> [Symbols -> Seq(Number)]]
    BY <1>1, <2>3
  <2>5. QED
    BY <1>4, <2>4 DEF Push, Trim
<1>5. /\ {"snapshot", "delta", "profile"} \subseteq Keys
      /\ {"tape", "signals"} \subseteq Lists
  BY DEF Keys, Lists
<1>6. QED
  BY <1>1, <1>2, <1>3, <1>4, <1>5 DEF RedisDoes, redisVars

\* Where the handler goes: no await follows another in silence.
LEMMA NextAwaitType ==
  ASSUME at \in Awaits, up \in BOOLEAN
  PROVE  NextAwait(at) \in {"off", "recv"} \cup Awaits /\ LoopTest \in {"off", "recv"}
BY DEF NextAwait, AfterUpdate, ProfileAwait, LoopTest, Awaits

LEMMA ServedNames == ASSUME at \in Awaits PROVE Served(at) \in SUBSET Names
BY DEF Served, Names, Awaits

\* The signals that are left.
LEMMA SignalsLeft ==
  ASSUME TypeInv, InHandler, Signals(at)
  PROVE  /\ sigs' \in 0 .. MaxSignals
         /\ NextAwait(at) \in {"publishSignal", "lpushSignal", "ltrimSignal"} => sigs' > 0
<1>1. /\ at \in Awaits /\ sigs \in 0 .. MaxSignals /\ MaxSignals \in Nat
      /\ at = "ltrimSignal" => sigs > 0
      /\ at \in {"publishSignal", "lpushSignal"} => sigs > 0
  BY Handling, Constants DEF TypeInv, TypeOK
<1>2. CASE at = "ltrimSignal"
  <2>1. sigs' = sigs - 1
    BY <1>2 DEF Signals, Served
  <2>2. NextAwait(at) = IF sigs > 1 THEN "publishSignal" ELSE "dispatchTrade"
    BY <1>2 DEF NextAwait
  <2>3. QED
    BY <1>1, <1>2, <2>1, <2>2
<1>3. CASE at \in {"publishTrade", "publishSignal", "lpushSignal"}
  <2>1. sigs' = sigs
    BY <1>3 DEF Signals, Served
  <2>2. QED
    BY <1>1, <1>3, <2>1 DEF NextAwait
<1>4. CASE at \notin {"ltrimSignal", "publishTrade", "publishSignal", "lpushSignal"}
  <2>1. sigs' \in 0 .. MaxSignals
    BY <1>1, <1>4 DEF Signals
  <2>2. NextAwait(at) \notin {"publishSignal", "lpushSignal", "ltrimSignal"}
    BY <1>1, <1>4 DEF NextAwait, AfterUpdate, ProfileAwait, LoopTest, Awaits
  <2>3. QED
    BY <2>1, <2>2
<1>5. QED
  BY <1>2, <1>3, <1>4

LEMMA InitTypes == Init => TypeInv
<1> SUFFICES ASSUME Init PROVE TypeInv
  OBVIOUS
<1> USE Constants
<1>1. <<>> \in Seq(Number) /\ <<>> \in Seq(Frame) /\ Len(<<>>) = 0
  OBVIOUS
<1>2. flow \in [Symbols -> [ToSet(Consumers) -> Seq(Number)]]
  BY NothingType, ConsumerNames DEF Init
<1>3. TypeOK
  <2>1. /\ lists \in [Lists -> [Symbols -> Seq(Number)]]
        /\ keys \in [Keys -> [Symbols -> Seq(Number)]]
        /\ told \in [Keys -> [Symbols -> Seq(Number)]]
    BY <1>1 DEF Init
  <2>2. /\ past \in Seq(Frame) /\ Len(past) <= MaxFrames
        /\ queue \in Seq(Number) /\ Len(queue) <= Hwm
    BY <1>1 DEF Init
  <2>3. cur \in 0 .. MaxFrames /\ sigs \in 0 .. MaxSignals /\ starts \in 0 .. MaxStarts
    BY DEF Init
  <2>4. up \in BOOLEAN /\ at \in {"off", "recv"} \cup Awaits /\ cut \subseteq Number
    BY DEF Init
  <2>5. QED
    BY <1>2, <2>1, <2>2, <2>3, <2>4 DEF TypeOK, Number
<1>4. QED
  BY <1>1, <1>3 DEF Init, TypeInv, InHandler

\* Only the frames published grow behind the handler.
LEMMA SameSymbol ==
  ASSUME past \in Seq(Frame), NEW f \in Frame, past' = Append(past, f), NEW n \in 1 .. Len(past)
  PROVE  past'[n] = past[n]
OBVIOUS

LEMMA NextTypes == TypeInv /\ [Next]_vars => TypeInv'
<1> SUFFICES ASSUME TypeInv, [Next]_vars PROVE TypeInv'
  OBVIOUS
<1> USE Constants
<1>1. TypeOK
  BY DEF TypeInv
<1>2. /\ past \in Seq(Frame) /\ Len(past) \in Nat /\ Len(past) <= MaxFrames
      /\ queue \in Seq(Number) /\ Len(queue) \in Nat /\ cur \in 0 .. MaxFrames
  BY <1>1 DEF TypeOK, Number
<1>3. <<>> \in Seq(Number) /\ Len(<<>>) = 0 /\ DOMAIN <<>> = {}
  OBVIOUS
<1>4. CASE Start
  <2>1. flow' \in [Symbols -> [ToSet(Consumers) -> Seq(Number)]]
    BY <1>4, NothingType, ConsumerNames DEF Start
  <2>2. starts' \in 0 .. MaxStarts
    BY <1>1, <1>4 DEF Start, TypeOK
  <2>3. TypeOK'
    BY <1>1, <1>4, <2>1, <2>2 DEF Start, TypeOK, Number, redisVars
  <2>4. QED
    BY <1>4, <2>3 DEF Start, TypeInv, InHandler
<1>5. CASE Stop
  <2>1. TypeOK'
    <3>1. queue' \in Seq(Number) /\ Len(queue') <= Hwm
      BY <1>3, <1>5 DEF Stop
    <3>2. QED
      BY <1>1, <1>5, <3>1 DEF Stop, TypeOK, redisVars, Number
  <2>2. QED
    <3>1. DOMAIN queue' = {}
      BY <1>3, <1>5 DEF Stop
    <3>2. QED
      BY <1>5, <2>1, <3>1 DEF Stop, TypeInv, InHandler, symbol
<1>6. CASE Crash
  <2>1. cut' \subseteq Number
    <3>1. InHandler => cur \in Number
      BY Handling
    <3>2. cut \subseteq Number
      BY <1>1 DEF TypeOK, Number
    <3>3. QED
      BY <1>6, <3>1, <3>2 DEF Crash
  <2>2. TypeOK'
    <3>1. queue' \in Seq(Number) /\ Len(queue') <= Hwm /\ sigs' \in 0 .. MaxSignals
      BY <1>3, <1>6 DEF Crash
    <3>2. QED
      BY <1>1, <1>6, <2>1, <3>1 DEF Crash, TypeOK, redisVars, Number
  <2>3. QED
    BY <1>3, <1>6, <2>2 DEF Crash, TypeInv, InHandler
<1>7. ASSUME NEW f \in Frames, Publish(f) PROVE TypeInv'
  <2>1. f \in Frame /\ past' = Append(past, f) /\ Len(past) < MaxFrames
    BY <1>7 DEF Publish
  <2>2. past' \in Seq(Frame) /\ Len(past') = Len(past) + 1 /\ Len(past') <= MaxFrames
    BY <1>2, <2>1
  <2>3. \A n \in 1 .. Len(past) : past'[n] = past[n]
    BY <1>2, <2>1, SameSymbol
  <2>4. PICK n \in Number : n = Len(past) + 1
    BY <1>2, <2>1 DEF Number
  <2>5. /\ queue' \in Seq(Number) /\ Len(queue') <= Hwm
        /\ \A j \in DOMAIN queue' : cur < queue'[j] /\ queue'[j] <= Len(past')
        /\ \A j, k \in DOMAIN queue' : j < k => queue'[j] < queue'[k]
    <3>1. /\ Len(queue) <= Hwm /\ DOMAIN queue = 1 .. Len(queue) /\ cur <= Len(past)
          /\ \A j \in DOMAIN queue : queue[j] \in Nat
      BY <1>1, <1>2 DEF TypeOK, TypeInv, Number
    <3>2. CASE queue' = queue
      BY <1>2, <2>2, <3>1, <3>2 DEF TypeInv
    <3>3. CASE queue' = Append(queue, n) /\ Len(queue) < Hwm
      <4>1. /\ queue' \in Seq(Number) /\ Len(queue') = Len(queue) + 1
            /\ DOMAIN queue' = 1 .. Len(queue) + 1 /\ queue'[Len(queue) + 1] = n
            /\ \A j \in 1 .. Len(queue) : queue'[j] = queue[j]
        BY <1>2, <3>3, AppendNumber
      <4>2. ASSUME NEW j \in DOMAIN queue' PROVE cur < queue'[j] /\ queue'[j] <= Len(past')
        <5>1. j \in DOMAIN queue \/ j = Len(queue) + 1
          BY <1>2, <3>1, <4>1
        <5>2. CASE j \in DOMAIN queue
          BY <1>2, <2>2, <3>1, <4>1, <5>2 DEF TypeInv
        <5>3. CASE j = Len(queue) + 1
          BY <1>2, <2>2, <2>4, <3>1, <4>1, <5>3
        <5>4. QED
          BY <5>1, <5>2, <5>3
      <4>3. ASSUME NEW j \in DOMAIN queue', NEW k \in DOMAIN queue', j < k
            PROVE  queue'[j] < queue'[k]
        <5>1. j \in DOMAIN queue /\ (k \in DOMAIN queue \/ k = Len(queue) + 1)
          BY <1>2, <3>1, <4>1, <4>3
        <5>2. queue'[j] = queue[j] /\ queue[j] <= Len(past)
          BY <3>1, <4>1, <5>1 DEF TypeInv
        <5>3. CASE k \in DOMAIN queue
          BY <3>1, <4>1, <4>3, <5>1, <5>3 DEF TypeInv
        <5>4. CASE k = Len(queue) + 1
          BY <1>2, <2>4, <3>1, <4>1, <5>1, <5>2, <5>4
        <5>5. QED
          BY <5>1, <5>3, <5>4
      <4>4. QED
        BY <1>2, <3>3, <4>1, <4>2, <4>3
    <3>4. QED
      BY <1>7, <2>4, <3>2, <3>3 DEF Publish
  <2>6. TypeOK'
    BY <1>1, <1>7, <2>2, <2>5 DEF Publish, TypeOK, redisVars, Number
  <2>7. InHandler' => cur' > 0 /\ symbol' \in Symbols
    <3> SUFFICES ASSUME InHandler PROVE cur > 0 /\ symbol' \in Symbols
      BY <1>7 DEF Publish, InHandler
    <3>1. QED
      BY <1>7, <2>3, Handling DEF Publish, symbol
  <2>8. QED
    BY <1>2, <1>7, <2>2, <2>5, <2>6, <2>7 DEF Publish, TypeInv
<1>8. ASSUME NEW k \in Keys, NEW s \in Symbols, KeyExpires(k, s) PROVE TypeInv'
  <2>1. keys' \in [Keys -> [Symbols -> Seq(Number)]]
    BY <1>1, <1>3, <1>8 DEF KeyExpires, TypeOK, Number
  <2>2. TypeOK'
    BY <1>1, <1>8, <2>1 DEF KeyExpires, TypeOK, Number
  <2>3. QED
    BY <1>8, <2>2 DEF KeyExpires, TypeInv, InHandler, symbol
<1>9. CASE Receive
  <2>1. /\ at = "recv" /\ queue # <<>> /\ cur' = queue[1] /\ queue' = Tail(queue)
        /\ at' = FirstAwait(past[queue[1]])
        /\ UNCHANGED <<up, sigs, flow, redisVars, cut, past, starts>>
    BY <1>2, <1>9 DEF Receive
  <2>2. /\ 1 \in DOMAIN queue /\ DOMAIN queue = 1 .. Len(queue)
        /\ \A j \in DOMAIN queue : queue[j] \in Number /\ queue[j] \in 1 .. Len(past)
    <3>1. 1 \in DOMAIN queue /\ DOMAIN queue = 1 .. Len(queue)
      BY <1>2, <2>1
    <3>2. \A j \in DOMAIN queue : queue[j] \in Number
      BY <1>2
    <3>3. QED
      BY <1>2, <3>1, <3>2 DEF TypeInv, Number
  <2>3. /\ queue' \in Seq(Number) /\ Len(queue') = Len(queue) - 1
        /\ DOMAIN queue' = 1 .. Len(queue) - 1
        /\ \A j \in DOMAIN queue' : queue'[j] = queue[j + 1] /\ j + 1 \in DOMAIN queue /\ 1 < j + 1
    BY <1>2, <2>1
  <2>4. cur' \in 1 .. Len(past) /\ cur' \in Number
    BY <2>1, <2>2
  <2>5. past[cur'] \in Frame
    BY <1>2, <2>4
  <2>6. at' \in {"recv"} \cup Awaits /\ (at' # "recv" => past[cur'].symbol # NoSymbol)
        /\ at' \in {"recv", "setexSnapshot", "lpushTape"}
    BY <2>1 DEF FirstAwait, Awaits
  <2>7. past[cur'].symbol \in Symbols \cup {NoSymbol}
    BY <2>5 DEF Frame
  <2>8. TypeOK'
    <3>1. Len(queue') <= Hwm
      BY <1>1, <1>2, <2>3 DEF TypeOK
    <3>2. cur' \in 0 .. MaxFrames
      BY <2>4 DEF Number
    <3>3. QED
      BY <1>1, <2>1, <2>3, <2>6, <3>1, <3>2 DEF TypeOK, redisVars, Number
  <2>9. \A j \in DOMAIN queue' : cur' < queue'[j] /\ queue'[j] <= Len(past')
    BY <2>1, <2>2, <2>3 DEF TypeInv
  <2>10. \A j, k \in DOMAIN queue' : j < k => queue'[j] < queue'[k]
    <3> SUFFICES ASSUME NEW j \in DOMAIN queue', NEW k \in DOMAIN queue', j < k
                 PROVE  queue'[j] < queue'[k]
      OBVIOUS
    <3>1. j + 1 < k + 1 /\ j + 1 \in DOMAIN queue /\ k + 1 \in DOMAIN queue
      BY <2>3
    <3>2. QED
      BY <2>3, <3>1 DEF TypeInv
  <2>11. QED
    <3>1. cur' <= Len(past') /\ cur' > 0 /\ Len(past') = Len(past)
      BY <1>2, <2>1, <2>4
    <3>2. InHandler' => symbol' \in Symbols
      BY <2>1, <2>6, <2>7 DEF InHandler, symbol
    <3>3. at' \notin {"publishSignal", "lpushSignal", "ltrimSignal"}
      BY <2>6
    <3>4. QED
      BY <2>8, <2>9, <2>10, <3>1, <3>2, <3>3 DEF TypeInv
<1>10. CASE Answer
  <2>1. /\ InHandler /\ RedisDoes(at) /\ Serve(Served(at)) /\ Signals(at) /\ at' = NextAwait(at)
        /\ UNCHANGED <<up, cur, queue, cut, past, starts>>
    BY <1>10 DEF Answer
  <2>2. at \in Awaits /\ cur \in Number /\ symbol \in Symbols
    BY <2>1, Handling
  <2>3. flow' \in [Symbols -> [Names -> Seq(Number)]]
    BY <1>1, <2>1, <2>2, ServeDoes, ServedNames
  <2>4. /\ lists' \in [Lists -> [Symbols -> Seq(Number)]]
        /\ keys' \in [Keys -> [Symbols -> Seq(Number)]]
        /\ told' \in [Keys -> [Symbols -> Seq(Number)]]
    BY <1>1, <2>1, <2>2, RedisTypes
  <2>5. at' \in {"off", "recv"} \cup Awaits
    BY <1>1, <2>1, <2>2, NextAwaitType DEF TypeOK
  <2>6. /\ sigs' \in 0 .. MaxSignals
        /\ at' \in {"publishSignal", "lpushSignal", "ltrimSignal"} => sigs' > 0
    BY <2>1, SignalsLeft
  <2>7. TypeOK'
    BY <1>1, <2>1, <2>3, <2>4, <2>5, <2>6, ConsumerNames DEF TypeOK, Number
  <2>8. QED
    BY <2>1, <2>2, <2>6, <2>7 DEF TypeInv, symbol
<1>11. CASE Fail
  <2>1. /\ InHandler /\ cut' = cut \cup {cur} /\ at' = LoopTest /\ sigs' = 0
        /\ UNCHANGED <<up, cur, queue, past, starts>>
    BY <1>11 DEF Fail
  <2>2. at \in Awaits /\ cur \in Number /\ symbol \in Symbols
    BY <2>1, Handling
  <2>3. /\ flow' \in [Symbols -> [Names -> Seq(Number)]]
        /\ lists' \in [Lists -> [Symbols -> Seq(Number)]]
        /\ keys' \in [Keys -> [Symbols -> Seq(Number)]]
        /\ told' \in [Keys -> [Symbols -> Seq(Number)]]
    <3>1. CASE UNCHANGED <<redisVars, flow>>
      BY <1>1, <3>1, FlowType DEF TypeOK, Number, redisVars
    <3>2. CASE RedisDoes(at) /\ Serve(Served(at) \ {"delta", "profile", "engine"})
      <4>1. Served(at) \ {"delta", "profile", "engine"} \in SUBSET Names
        BY <2>2, ServedNames
      <4>2. QED
        BY <1>1, <2>2, <3>2, <4>1, ServeDoes, RedisTypes
    <3>3. QED
      BY <1>11, <3>1, <3>2 DEF Fail
  <2>4. at' \in {"off", "recv"}
    BY <1>1, <2>1, <2>2, NextAwaitType DEF TypeOK
  <2>5. TypeOK'
    BY <1>1, <2>1, <2>2, <2>3, <2>4, ConsumerNames DEF TypeOK, Number
  <2>6. QED
    BY <2>1, <2>4, <2>5 DEF TypeInv, InHandler
<1>12. CASE UNCHANGED vars
  BY <1>1, <1>12 DEF vars, redisVars, TypeInv, TypeOK, InHandler, symbol
<1>13. CASE ReceiveFails
  BY <1>1, <1>13 DEF ReceiveFails, redisVars, TypeInv, TypeOK, InHandler, symbol
<1>14. QED
  BY <1>4, <1>5, <1>6, <1>7, <1>8, <1>9, <1>10, <1>11, <1>12, <1>13 DEF Next, Environment

\* Every variable keeps its type, for any number of symbols, frames and restarts.
THEOREM SubscriberTypes == Spec => []TypeOK
<1>1. TypeInv => TypeOK
  BY DEF TypeInv
<1>2. QED
  BY <1>1, InitTypes, NextTypes, PTL DEF Spec

-----------------------------------------------------------------------------
(* What the consumers of a trade were given. *)

Ordered(q) == \A j, k \in DOMAIN q : j < k => q[j] < q[k]
AtMost(q, n) == \A j \in DOMAIN q : q[j] <= n
Below(q, n) == \A j \in DOMAIN q : q[j] < n
EndsIn(q, n) == q # <<>> /\ Last(q) = n

LEMMA AppendOrdered ==
  ASSUME NEW q \in Seq(Number), NEW n \in Number, Ordered(q), Below(q, n)
  PROVE  Ordered(Append(q, n)) /\ AtMost(Append(q, n), n) /\ EndsIn(Append(q, n), n)
<1> DEFINE r == Append(q, n)
<1>1. /\ r # <<>> /\ Last(r) = n /\ DOMAIN r = 1 .. Len(q) + 1 /\ r[Len(q) + 1] = n
      /\ \A j \in 1 .. Len(q) : r[j] = q[j]
  BY AppendNumber
<1>2. DOMAIN q = 1 .. Len(q) /\ Len(q) \in Nat /\ n \in Nat
  BY DEF Number
<1> HIDE DEF r
<1>3. Ordered(r)
  <2> SUFFICES ASSUME NEW j \in DOMAIN r, NEW k \in DOMAIN r, j < k PROVE r[j] < r[k]
    BY DEF Ordered
  <2>1. j \in DOMAIN q /\ (k \in DOMAIN q \/ k = Len(q) + 1)
    BY <1>1, <1>2
  <2>2. QED
    BY <1>1, <1>2, <2>1 DEF Ordered, Below
<1>4. AtMost(r, n)
  <2> SUFFICES ASSUME NEW j \in DOMAIN r PROVE r[j] <= n
    BY DEF AtMost
  <2>1. j \in DOMAIN q \/ j = Len(q) + 1
    BY <1>1, <1>2
  <2>2. j \in DOMAIN q => q[j] < n /\ q[j] \in Nat
    BY Numbers DEF Below
  <2>3. QED
    BY <1>1, <1>2, <2>1, <2>2
<1>5. QED
  BY <1>1, <1>3, <1>4 DEF EndsIn, r

LEMMA Bounds ==
  ASSUME NEW q \in Seq(Number), NEW n \in Nat
  PROVE  /\ Below(q, n) => AtMost(q, n) /\ n \notin ToSet(q)
         /\ EndsIn(q, n) => n \in ToSet(q)
         /\ \A m \in Nat : AtMost(q, n) /\ n < m => Below(q, m) /\ AtMost(q, m)
<1>1. /\ DOMAIN q = 1 .. Len(q) /\ Len(q) \in Nat /\ (q # <<>> => Len(q) \in DOMAIN q)
      /\ \A j \in DOMAIN q : q[j] \in Nat
  BY Numbers
<1>2. QED
  BY <1>1 DEF Below, AtMost, EndsIn, Last, ToSet

\* The consumers that were given the trade before an await.
Had(a) ==
  CASE a = "ltrimTape" -> {"tape"}
    [] a \in {"setexDelta", "publishDelta"} -> {"tape", "delta"}
    [] a \in {"setexProfile", "publishProfile"} -> {"tape", "delta", "profile"}
    [] a = "publishTrade" -> {"tape", "delta", "profile", "engine"}
    [] a \in {"publishSignal", "lpushSignal", "ltrimSignal", "dispatchTrade"} ->
         {"tape", "delta", "profile", "engine", "clients"}
    [] OTHER -> {}

\* Those and the ones the await serves are the ones before the next await; a handler
\* that ends has served everybody, or it was not about a trade.
LEMMA NextHad ==
  ASSUME at \in Awaits
  PROVE  /\ NextAwait(at) \in Awaits => Had(NextAwait(at)) = Had(at) \cup Served(at)
         /\ NextAwait(at) \notin Awaits => Had(at) \cup Served(at) \in {{}, Names}
         /\ Had(at) \cap Served(at) = {} /\ Had(at) \subseteq Names
<1>1. CASE at = "publishDelta"
  BY <1>1 DEF Had, Served, NextAwait, AfterUpdate, ProfileAwait, Names, Awaits
<1>2. CASE at \in {"lpushTape", "ltrimTape", "setexDelta"}
  BY <1>2 DEF Had, Served, NextAwait, AfterUpdate, Names, Awaits
<1>3. CASE at \in {"setexProfile", "publishProfile", "publishTrade"}
  BY <1>3 DEF Had, Served, NextAwait, Names, Awaits
<1>4. CASE at \in {"publishSignal", "lpushSignal", "ltrimSignal", "dispatchTrade"}
  BY <1>4 DEF Had, Served, NextAwait, Names, Awaits, LoopTest
<1>5. CASE at \in {"setexSnapshot", "publishSnapshot", "publishAll", "dispatchQuote"}
  BY <1>5 DEF Had, Served, NextAwait, Names, Awaits, LoopTest
<1>6. QED
  BY <1>1, <1>2, <1>3, <1>4, <1>5 DEF Awaits

\* Nobody is served before the consumer ahead of him.
LEMMA InTurn ==
  ASSUME at \in Awaits, NEW c \in 1 .. 5
  PROVE  /\ Consumers[c] \in Names /\ Consumers[c + 1] \in Names
         /\ Consumers[c + 1] \in Had(at) => Consumers[c] \in Had(at)
         /\ Consumers[c + 1] \in Served(at) => Consumers[c] \in Had(at) \cup Served(at)
<1>1. /\ Consumers[1] = "tape" /\ Consumers[2] = "delta" /\ Consumers[3] = "profile"
      /\ Consumers[4] = "engine" /\ Consumers[5] = "clients" /\ Consumers[6] = "strategies"
  BY DEF Consumers
<1>2. (c = 1 /\ c + 1 = 2) \/ (c = 2 /\ c + 1 = 3) \/ (c = 3 /\ c + 1 = 4) \/ (c = 4 /\ c + 1 = 5)
      \/ (c = 5 /\ c + 1 = 6)
  OBVIOUS
<1>3. Consumers[c] \in Names /\ Consumers[c + 1] \in Names
  BY <1>1, <1>2 DEF Names
<1>4. Consumers[c + 1] \in Had(at) => Consumers[c] \in Had(at)
  BY <1>1, <1>2 DEF Had
<1>5. Consumers[c + 1] \in Served(at) => Consumers[c] \in Had(at) \cup Served(at)
  BY <1>1, <1>2 DEF Had, Served
<1>6. QED
  BY <1>3, <1>4, <1>5

\* Consumer c + 1 of symbol s was given what consumer c was, but for these frames.
Agree(s, c, but) == Given(s, c + 1) \subseteq Given(s, c) /\ Given(s, c) \ Given(s, c + 1) \subseteq but

\* A consumer that was given the frame in the handler was given it last, the others
\* only frames before it.
FlowInv ==
  /\ TypeInv
  /\ \A s \in Symbols, c \in Names : Ordered(flow[s][c]) /\ AtMost(flow[s][c], cur)
  /\ InHandler => \A s \in Symbols, c \in Names :
       IF s = symbol /\ c \in Had(at) THEN EndsIn(flow[s][c], cur) ELSE Below(flow[s][c], cur)
  /\ \A s \in Symbols, c \in 1 .. 5 : Agree(s, c, cut \cup UnderWay)

\* What serving C, in its turn or not at all, leaves behind.
LEMMA ServeKeeps ==
  ASSUME FlowInv, InHandler, NEW C \in {{}, Served(at)}, Serve(C)
  PROVE  /\ \A s \in Symbols, c \in Names : Ordered(flow[s][c])' /\ AtMost(flow[s][c]', cur)
         /\ \A s \in Symbols, c \in Names :
              IF s = symbol /\ c \in Had(at) \cup C THEN EndsIn(flow[s][c]', cur)
                                                     ELSE Below(flow[s][c]', cur)
         /\ \A s \in Symbols, c \in 1 .. 5 : \A but :
              cut \cup {cur} \subseteq but => Agree(s, c, but)'
<1>1. TypeOK /\ at \in Awaits /\ cur \in Number /\ cur \in Nat /\ symbol \in Symbols
  BY Handling DEF FlowInv, TypeInv, Number
<1>2. C \in SUBSET Names /\ Had(at) \cap C = {}
  BY <1>1, ServedNames, NextHad
<1>3. \A s \in Symbols, c \in Names :
        flow'[s][c] = IF s = symbol /\ c \in C THEN Append(flow[s][c], cur) ELSE flow[s][c]
  BY <1>1, <1>2, ServeDoes
<1>4. \A s \in Symbols, c \in Names : flow[s][c] \in Seq(Number)
  BY <1>1, FlowType
<1>5. ASSUME NEW s \in Symbols, NEW c \in Names
      PROVE  /\ Ordered(flow'[s][c]) /\ AtMost(flow'[s][c], cur)
             /\ IF s = symbol /\ c \in Had(at) \cup C THEN EndsIn(flow'[s][c], cur)
                                                       ELSE Below(flow'[s][c], cur)
             /\ ToSet(flow'[s][c]) = ToSet(flow[s][c]) \cup (IF s = symbol /\ c \in C THEN {cur} ELSE {})
  <2>1. /\ flow[s][c] \in Seq(Number) /\ Ordered(flow[s][c]) /\ AtMost(flow[s][c], cur)
        /\ IF s = symbol /\ c \in Had(at) THEN EndsIn(flow[s][c], cur) ELSE Below(flow[s][c], cur)
    BY <1>4 DEF FlowInv
  <2>2. CASE s = symbol /\ c \in C
    <3>1. Below(flow[s][c], cur) /\ flow'[s][c] = Append(flow[s][c], cur)
      BY <1>2, <1>3, <2>1, <2>2
    <3>2. QED
      BY <1>1, <2>1, <2>2, <3>1, AppendOrdered, AppendNumber
  <2>3. CASE ~(s = symbol /\ c \in C)
    <3>1. flow'[s][c] = flow[s][c]
      BY <1>3, <2>3
    <3>2. QED
      BY <2>1, <2>3, <3>1
  <2>4. QED
    BY <2>2, <2>3
<1>6. ASSUME NEW s \in Symbols, NEW c \in 1 .. 5, NEW but, cut \cup {cur} \subseteq but
      PROVE  Agree(s, c, but)'
  <2>1. PICK a \in Names, b \in Names : a = Consumers[c] /\ b = Consumers[c + 1]
    BY <1>1, InTurn
  <2>2. (b \in Had(at) => a \in Had(at)) /\ (b \in C => a \in Had(at) \cup C)
    BY <1>1, <2>1, InTurn
  <2>3. ToSet(flow[s][b]) \subseteq ToSet(flow[s][a])
        /\ ToSet(flow[s][a]) \ ToSet(flow[s][b]) \subseteq cut \cup {cur}
    BY <2>1 DEF FlowInv, Agree, Given, UnderWay
  <2>4. ToSet(flow'[s][b]) \subseteq ToSet(flow'[s][a])
    <3>1. s = symbol /\ a \in Had(at) \cup C => cur \in ToSet(flow'[s][a])
      <4>1. s = symbol /\ a \in Had(at) => cur \in ToSet(flow[s][a])
        BY <1>1, <1>4, Bounds DEF FlowInv
      <4>2. QED
        BY <1>5, <4>1
    <3>2. QED
      BY <1>5, <2>2, <2>3, <3>1
  <2>5. ToSet(flow'[s][a]) \ ToSet(flow'[s][b]) \subseteq cut \cup {cur}
    BY <1>5, <2>3
  <2>6. QED
    BY <1>6, <2>1, <2>4, <2>5 DEF Agree, Given
<1>7. QED
  BY <1>5, <1>6

\* The frame in the handler stays what it is while others are published.
LEMMA SymbolStays ==
  ASSUME TypeInv, InHandler, [Next]_vars, cur' = cur
  PROVE  symbol' = symbol /\ past'[cur] = past[cur]
<1>1. cur \in 1 .. Len(past) /\ past \in Seq(Frame)
  BY Handling DEF TypeInv, TypeOK
<1>2. CASE UNCHANGED past
  BY <1>2 DEF symbol
<1>3. ASSUME NEW f \in Frames, Publish(f) PROVE past'[cur] = past[cur] /\ symbol' = symbol
  <2>1. f \in Frame /\ past' = Append(past, f)
    BY <1>3, Constants DEF Publish
  <2>2. past'[cur] = past[cur]
    BY <1>1, <2>1, SameSymbol
  <2>3. QED
    BY <2>2 DEF symbol
<1>4. UNCHANGED past \/ \E f \in Frames : Publish(f)
  BY DEF Next, Environment, Start, Stop, Crash, KeyExpires, Receive, ReceiveFails, Answer, Fail, vars
<1>5. QED
  BY <1>2, <1>3, <1>4

\* The steps in which no handler goes on, or one is broken off.
LEMMA SameFlow ==
  ASSUME FlowInv, TypeInv', [Next]_vars, UNCHANGED <<flow, cur>>, cut \subseteq cut',
         InHandler => InHandler' \/ cur \in cut', InHandler' => InHandler /\ at' = at
  PROVE  FlowInv'
<1>1. ASSUME NEW s \in Symbols, NEW c \in 1 .. 5 PROVE Agree(s, c, cut \cup UnderWay)'
  <2>1. cut \cup UnderWay \subseteq cut' \cup UnderWay'
    BY DEF UnderWay
  <2>2. Agree(s, c, cut \cup UnderWay)
    BY DEF FlowInv
  <2>3. QED
    BY <2>1, <2>2 DEF Agree, Given
<1>2. InHandler' => symbol' = symbol /\ Had(at)' = Had(at)
  BY SymbolStays DEF FlowInv, Had
<1>3. QED
  BY <1>1, <1>2 DEF FlowInv, Ordered, AtMost, Below, EndsIn

LEMMA InitFlow == Init => FlowInv
<1> SUFFICES ASSUME Init PROVE FlowInv
  OBVIOUS
<1>1. ~InHandler /\ TypeInv
  BY InitTypes DEF Init, InHandler
<1>2. \A s \in Symbols, c \in Names : flow[s][c] = <<>>
  BY NothingType DEF Init
<1>3. DOMAIN <<>> = {} /\ ToSet(<<>>) = {}
  BY DEF ToSet
<1>4. \A c \in 1 .. 5 : Consumers[c] \in Names /\ Consumers[c + 1] \in Names
  <2>1. "lpushTape" \in Awaits /\ \A c \in 1 .. 5 : c + 1 \in 1 .. 6 /\ c \in 1 .. 6
    BY DEF Awaits
  <2>2. \A c \in 1 .. 6 : Consumers[c] \in ToSet(Consumers)
    BY ConsumerNames DEF ToSet
  <2>3. QED
    BY <2>1, <2>2, ConsumerNames
<1>5. \A s \in Symbols, c \in 1 .. 5 : Agree(s, c, cut \cup UnderWay)
  BY <1>2, <1>3, <1>4 DEF Agree, Given
<1>6. \A s \in Symbols, c \in Names : Ordered(flow[s][c]) /\ AtMost(flow[s][c], cur)
  BY <1>2, <1>3 DEF Ordered, AtMost
<1>7. QED
  BY <1>1, <1>5, <1>6 DEF FlowInv

LEMMA NextFlow == FlowInv /\ [Next]_vars => FlowInv'
<1> SUFFICES ASSUME FlowInv, [Next]_vars PROVE FlowInv'
  OBVIOUS
<1>1. TypeInv /\ TypeOK /\ TypeInv' /\ TypeOK'
  BY NextTypes DEF FlowInv, TypeInv
<1>2. \A c \in 1 .. 5 : Consumers[c] \in Names /\ Consumers[c + 1] \in Names
  <2>1. \A c \in 1 .. 5 : c + 1 \in 1 .. 6 /\ c \in 1 .. 6
    OBVIOUS
  <2>2. \A c \in 1 .. 6 : Consumers[c] \in ToSet(Consumers)
    BY ConsumerNames DEF ToSet
  <2>3. QED
    BY <2>1, <2>2, ConsumerNames
<1>3. CASE Start
  <2>1. at' = "recv" /\ \A s \in Symbols, c \in Names : flow'[s][c] = <<>>
    BY <1>3, NothingType DEF Start
  <2>2. DOMAIN <<>> = {} /\ ToSet(<<>>) = {}
    BY DEF ToSet
  <2>3. \A s \in Symbols, c \in 1 .. 5 : Agree(s, c, cut \cup UnderWay)'
    BY <1>2, <2>1, <2>2 DEF Agree, Given
  <2>4. \A s \in Symbols, c \in Names : Ordered(flow[s][c])' /\ AtMost(flow[s][c], cur)'
    BY <2>1, <2>2 DEF Ordered, AtMost
  <2>5. QED
    BY <1>1, <2>1, <2>3, <2>4 DEF FlowInv, InHandler
<1>4. CASE Stop
  BY <1>1, <1>4, SameFlow DEF Stop, InHandler
<1>5. CASE Crash \/ ReceiveFails
  BY <1>1, <1>5, SameFlow DEF Crash, ReceiveFails, InHandler
<1>6. ASSUME NEW f \in Frames, Publish(f) PROVE FlowInv'
  BY <1>1, <1>6, SameFlow DEF Publish, InHandler
<1>7. ASSUME NEW k \in Keys, NEW s \in Symbols, KeyExpires(k, s) PROVE FlowInv'
  BY <1>1, <1>7, SameFlow DEF KeyExpires, InHandler
<1>8. CASE Receive
  <2>1. /\ queue # <<>> /\ cur' = queue[1] /\ at' = FirstAwait(past[queue[1]]) /\ at = "recv"
        /\ UNCHANGED <<flow, cut>>
    <3>1. Head(queue) = queue[1]
      OBVIOUS
    <3>2. QED
      BY <1>8, <3>1 DEF Receive
  <2>2. cur < cur' /\ cur \in Nat /\ cur' \in Nat
    <3>1. 1 \in DOMAIN queue /\ queue[1] \in Number
      <4>1. queue \in Seq(Number)
        BY <1>1 DEF TypeOK, Number
      <4>2. QED
        BY <2>1, <4>1
    <3>2. QED
      BY <1>1, <2>1, <3>1, Numbers, Constants DEF TypeInv, TypeOK
  <2>3. Had(at') = {}
    BY <2>1 DEF FirstAwait, Had
  <2>4. ASSUME NEW s \in Symbols, NEW c \in Names
        PROVE  Ordered(flow'[s][c]) /\ AtMost(flow'[s][c], cur') /\ Below(flow'[s][c], cur')
    <3>1. flow[s][c] \in Seq(Number) /\ Ordered(flow[s][c]) /\ AtMost(flow[s][c], cur)
      BY <1>1, FlowType DEF FlowInv
    <3>2. QED
      BY <2>1, <2>2, <3>1, Bounds
  <2>5. ASSUME NEW s \in Symbols, NEW c \in 1 .. 5 PROVE Agree(s, c, cut \cup UnderWay)'
    <3>1. Agree(s, c, cut) /\ UnderWay = {}
      BY <2>1 DEF FlowInv, UnderWay, InHandler
    <3>2. QED
      BY <2>1, <3>1 DEF Agree, Given
  <2>6. QED
    BY <1>1, <2>3, <2>4, <2>5 DEF FlowInv
<1>9. CASE Answer
  <2>1. /\ InHandler /\ Serve(Served(at)) /\ at' = NextAwait(at) /\ UNCHANGED <<cur, cut, past>>
    BY <1>9 DEF Answer
  <2>2. at \in Awaits /\ cur \in Nat /\ symbol' = symbol
    BY <1>1, <2>1, Handling, Numbers DEF symbol
  <2>3. /\ \A s \in Symbols, c \in Names : Ordered(flow[s][c])' /\ AtMost(flow[s][c]', cur)
        /\ \A s \in Symbols, c \in Names :
             IF s = symbol /\ c \in Had(at) \cup Served(at) THEN EndsIn(flow[s][c]', cur)
                                                             ELSE Below(flow[s][c]', cur)
        /\ \A s \in Symbols, c \in 1 .. 5 : \A but :
             cut \cup {cur} \subseteq but => Agree(s, c, but)'
    BY <2>1, ServeKeeps
  <2>4. CASE at' \in Awaits
    <3>1. Had(at') = Had(at) \cup Served(at) /\ InHandler'
      BY <2>1, <2>2, <2>4, NextHad DEF InHandler, Awaits
    <3>2. \A s \in Symbols, c \in 1 .. 5 : Agree(s, c, cut \cup UnderWay)'
      BY <2>1, <2>3, <3>1 DEF UnderWay
    <3>3. QED
      BY <1>1, <2>1, <2>2, <2>3, <3>1, <3>2 DEF FlowInv
  <2>5. CASE at' \notin Awaits
    <3>1. Had(at) \cup Served(at) \in {{}, Names} /\ ~InHandler'
      BY <1>1, <2>1, <2>2, <2>5, NextHad DEF InHandler, TypeOK
    <3>2. ASSUME NEW s \in Symbols, NEW c \in 1 .. 5 PROVE Agree(s, c, cut \cup UnderWay)'
      <4>1. PICK a \in Names, b \in Names : a = Consumers[c] /\ b = Consumers[c + 1]
        BY <1>2
      <4>2. flow'[s][a] \in Seq(Number) /\ flow'[s][b] \in Seq(Number)
        <5>1. flow' \in [Symbols -> [Names -> Seq(Number)]]
          BY <1>1, ConsumerNames DEF TypeOK, Number
        <5>2. QED
          BY <4>1, <5>1
      <4>3. cur \in ToSet(flow'[s][b]) \/ cur \notin ToSet(flow'[s][a])
        BY <2>2, <2>3, <3>1, <4>2, Bounds
      <4>4. Agree(s, c, cut \cup {cur})'
        BY <2>1, <2>3
      <4>5. ToSet(flow'[s][b]) \subseteq ToSet(flow'[s][a])
            /\ ToSet(flow'[s][a]) \ ToSet(flow'[s][b]) \subseteq cut \cup {cur}
        BY <2>1, <4>1, <4>4 DEF Agree, Given
      <4>6. QED
        BY <2>1, <4>1, <4>3, <4>5 DEF Agree, Given
    <3>3. QED
      BY <1>1, <2>1, <2>3, <3>1, <3>2 DEF FlowInv
  <2>6. QED
    BY <2>4, <2>5
<1>10. CASE Fail
  <2>1. /\ InHandler /\ at' = LoopTest /\ cut' = cut \cup {cur} /\ UNCHANGED <<cur, past>>
    BY <1>10 DEF Fail
  <2>2. at \in Awaits /\ ~InHandler'
    BY <1>1, <2>1, Handling DEF LoopTest, InHandler
  <2>3. PICK C \in {{}, Served(at)} : Serve(C)
    <3>1. CASE UNCHANGED flow
      BY <3>1 DEF Serve
    <3>2. CASE Serve(Served(at) \ {"delta", "profile", "engine"})
      <4>1. Served(at) \ {"delta", "profile", "engine"} \in {{}, Served(at)}
        BY <2>2 DEF Served, Awaits
      <4>2. QED
        BY <3>2, <4>1
    <3>3. QED
      BY <1>10, <3>1, <3>2 DEF Fail
  <2>4. /\ \A s \in Symbols, c \in Names : Ordered(flow[s][c])' /\ AtMost(flow[s][c]', cur)
        /\ \A s \in Symbols, c \in 1 .. 5 : \A but :
             cut \cup {cur} \subseteq but => Agree(s, c, but)'
    BY <2>1, <2>3, ServeKeeps
  <2>5. \A s \in Symbols, c \in 1 .. 5 : Agree(s, c, cut \cup UnderWay)'
    BY <2>1, <2>4
  <2>6. QED
    BY <1>1, <2>1, <2>2, <2>4, <2>5 DEF FlowInv
<1>11. CASE UNCHANGED vars
  BY <1>1, <1>11, SameFlow DEF vars, InHandler
<1>12. QED
  BY <1>3, <1>4, <1>5, <1>6, <1>7, <1>8, <1>9, <1>10, <1>11 DEF Next, Environment

\* No consumer is given a trade twice or out of order, and none misses what the one
\* ahead of it was given but where a handler was cut short (subscriber.py 101-179).
THEOREM SubscriberConsumersAgree == Spec => []ConsumersAgree
<1>1. FlowInv => ConsumersAgree
  <2> SUFFICES ASSUME FlowInv PROVE ConsumersAgree
    OBVIOUS
  <2>1. ASSUME NEW s \in Symbols, NEW c \in DOMAIN Consumers
        PROVE  Ordered(flow[s][Consumers[c]])
    <3>1. Consumers[c] \in Names
      BY ConsumerNames DEF ToSet
    <3>2. QED
      BY <3>1 DEF FlowInv
  <2>2. ASSUME NEW s \in Symbols, NEW c \in 1 .. Len(Consumers) - 1
        PROVE  Agree(s, c, cut \cup UnderWay)
    <3>1. c \in 1 .. 5
      BY ConsumerNames
    <3>2. QED
      BY <3>1 DEF FlowInv
  <2>3. QED
    BY <2>1, <2>2 DEF ConsumersAgree, Agree, Ordered
<1>2. QED
  BY <1>1, InitFlow, NextFlow, PTL DEF Spec

-----------------------------------------------------------------------------
(* What an await does to the keys, the channels and the lists. *)

Setting(k) == CASE k = "snapshot" -> "setexSnapshot"
                [] k = "delta" -> "setexDelta"
                [] k = "profile" -> "setexProfile"

Telling(k) == CASE k = "snapshot" -> {"publishSnapshot", "publishAll"}
                [] k = "delta" -> {"publishDelta"}
                [] k = "profile" -> {"publishProfile"}

Pushing(l) == IF l = "tape" THEN "lpushTape" ELSE "lpushSignal"
Trimming(l) == IF l = "tape" THEN "ltrimTape" ELSE "ltrimSignal"

LEMMA RedisEffects ==
  ASSUME TypeInv, InHandler, RedisDoes(at)
  PROVE  /\ \A k \in Keys, s \in Symbols :
              keys'[k][s] = IF s = symbol /\ at = Setting(k) THEN Payload(k) ELSE keys[k][s]
         /\ \A k \in Keys, s \in Symbols :
              told'[k][s] = IF s = symbol /\ at \in Telling(k) THEN Payload(k) ELSE told[k][s]
         /\ \A l \in Lists, s \in Symbols :
              lists'[l][s] = IF s = symbol /\ at = Pushing(l) THEN <<cur>> \o lists[l][s]
                             ELSE IF s = symbol /\ at = Trimming(l) THEN Trimmed(lists[l][s])
                             ELSE lists[l][s]
<1>1. /\ symbol \in Symbols /\ lists \in [Lists -> [Symbols -> Seq(Number)]]
      /\ keys \in [Keys -> [Symbols -> Seq(Number)]]
      /\ told \in [Keys -> [Symbols -> Seq(Number)]]
  BY DEF TypeInv, TypeOK, Number
<1>2. Keys = {"snapshot", "delta", "profile"} /\ Lists = {"tape", "signals"}
  BY DEF Keys, Lists
<1>3. ASSUME NEW k \in Keys, Setex(k), at = Setting(k)
      PROVE  /\ UNCHANGED <<lists, told>>
             /\ \A h \in Keys, s \in Symbols :
                  keys'[h][s] = IF s = symbol /\ at = Setting(h) THEN Payload(h) ELSE keys[h][s]
  <2>1. keys' = [keys EXCEPT ![k][symbol] = Payload(k)] /\ UNCHANGED <<lists, told>>
    BY <1>3 DEF Setex
  <2>2. \A h \in Keys : at = Setting(h) <=> h = k
    BY <1>2, <1>3 DEF Setting
  <2>3. QED
    BY <1>1, <2>1, <2>2
<1>4. ASSUME NEW k \in Keys, Tell(k), at \in Telling(k)
      PROVE  /\ UNCHANGED <<lists, keys>>
             /\ \A h \in Keys, s \in Symbols :
                  told'[h][s] = IF s = symbol /\ at \in Telling(h) THEN Payload(h) ELSE told[h][s]
  <2>1. told' = [told EXCEPT ![k][symbol] = Payload(k)] /\ UNCHANGED <<lists, keys>>
    BY <1>4 DEF Tell
  <2>2. \A h \in Keys : at \in Telling(h) <=> h = k
    BY <1>2, <1>4 DEF Telling
  <2>3. QED
    BY <1>1, <2>1, <2>2
<1>5. ASSUME NEW l \in Lists, (Push(l) /\ at = Pushing(l)) \/ (Trim(l) /\ at = Trimming(l))
      PROVE  /\ UNCHANGED <<keys, told>>
             /\ \A m \in Lists, s \in Symbols :
                  lists'[m][s] = IF s = symbol /\ at = Pushing(m) THEN <<cur>> \o lists[m][s]
                                 ELSE IF s = symbol /\ at = Trimming(m) THEN Trimmed(lists[m][s])
                                 ELSE lists[m][s]
  <2>1. PICK q : /\ lists' = [lists EXCEPT ![l][symbol] = q] /\ UNCHANGED <<keys, told>>
                 /\ q = IF at = Pushing(l) THEN <<cur>> \o lists[l][symbol]
                                           ELSE Trimmed(lists[l][symbol])
    <3>1. CASE Push(l) /\ at = Pushing(l)
      BY <3>1 DEF Push
    <3>2. CASE Trim(l) /\ at = Trimming(l)
      BY <1>2, <3>2 DEF Trim, Pushing, Trimming
    <3>3. QED
      BY <1>5, <3>1, <3>2
  <2>2. /\ at = Pushing(l) \/ at = Trimming(l)
        /\ \A m \in Lists : at = Pushing(m) \/ at = Trimming(m) <=> m = l
        /\ Pushing(l) # Trimming(l)
    BY <1>2, <1>5 DEF Pushing, Trimming
  <2>3. \A m \in Lists, s \in Symbols : lists'[m][s] = IF m = l /\ s = symbol THEN q ELSE lists[m][s]
    BY <1>1, <2>1
  <2>4. QED
    BY <2>1, <2>2, <2>3
<1>6. \A k \in Keys, l \in Lists : /\ Setting(k) \notin Telling(k)
                                    /\ Setting(k) \notin {Pushing(l), Trimming(l)}
                                    /\ Pushing(l) \notin Telling(k) /\ Trimming(l) \notin Telling(k)
  BY <1>2 DEF Setting, Telling, Pushing, Trimming
<1>7. \A h, k \in Keys : Setting(h) \notin Telling(k)
  BY <1>2 DEF Setting, Telling
<1>8. CASE \E k \in Keys : Setex(k) /\ at = Setting(k)
  BY <1>3, <1>6, <1>7, <1>8
<1>9. CASE \E k \in Keys : Tell(k) /\ at \in Telling(k)
  BY <1>4, <1>6, <1>7, <1>9
<1>10. CASE \E l \in Lists : (Push(l) /\ at = Pushing(l)) \/ (Trim(l) /\ at = Trimming(l))
  BY <1>5, <1>6, <1>10
<1>11. CASE /\ at \in {"publishTrade", "publishSignal", "dispatchQuote", "dispatchTrade"}
            /\ UNCHANGED redisVars
  BY <1>2, <1>11 DEF redisVars, Setting, Telling, Pushing, Trimming
<1>12. QED
  <2>1. /\ Setting("snapshot") = "setexSnapshot" /\ Setting("delta") = "setexDelta"
        /\ Setting("profile") = "setexProfile"
        /\ Telling("snapshot") = {"publishSnapshot", "publishAll"}
        /\ Telling("delta") = {"publishDelta"} /\ Telling("profile") = {"publishProfile"}
        /\ Pushing("tape") = "lpushTape" /\ Trimming("tape") = "ltrimTape"
        /\ Pushing("signals") = "lpushSignal" /\ Trimming("signals") = "ltrimSignal"
    BY DEF Setting, Telling, Pushing, Trimming
  <2>2. \/ \E k \in Keys : Setex(k) /\ at = Setting(k)
        \/ \E k \in Keys : Tell(k) /\ at \in Telling(k)
        \/ \E l \in Lists : (Push(l) /\ at = Pushing(l)) \/ (Trim(l) /\ at = Trimming(l))
        \/ /\ at \in {"publishTrade", "publishSignal", "dispatchQuote", "dispatchTrade"}
           /\ UNCHANGED redisVars
    <3>1. "snapshot" \in Keys /\ "delta" \in Keys /\ "profile" \in Keys
          /\ "tape" \in Lists /\ "signals" \in Lists
      BY DEF Keys, Lists
    <3>2. ASSUME \/ at = "setexSnapshot" /\ Setex("snapshot")
                 \/ at = "setexDelta" /\ Setex("delta")
                 \/ at = "setexProfile" /\ Setex("profile")
          PROVE  \E k \in Keys : Setex(k) /\ at = Setting(k)
      BY <2>1, <3>1, <3>2
    <3>3. ASSUME \/ at \in {"publishSnapshot", "publishAll"} /\ Tell("snapshot")
                 \/ at = "publishDelta" /\ Tell("delta")
                 \/ at = "publishProfile" /\ Tell("profile")
          PROVE  \E k \in Keys : Tell(k) /\ at \in Telling(k)
      BY <2>1, <3>1, <3>3
    <3>4. ASSUME \/ at = "lpushTape" /\ Push("tape")
                 \/ at = "ltrimTape" /\ Trim("tape")
                 \/ at = "lpushSignal" /\ Push("signals")
                 \/ at = "ltrimSignal" /\ Trim("signals")
          PROVE  \E l \in Lists : (Push(l) /\ at = Pushing(l)) \/ (Trim(l) /\ at = Trimming(l))
      <4>1. \/ Push("tape") /\ at = Pushing("tape")
            \/ Trim("tape") /\ at = Trimming("tape")
            \/ Push("signals") /\ at = Pushing("signals")
            \/ Trim("signals") /\ at = Trimming("signals")
        BY <2>1, <3>4
      <4>2. QED
        BY <3>1, <4>1
    <3>5. CASE \/ at = "setexSnapshot" /\ Setex("snapshot")
               \/ at = "setexDelta" /\ Setex("delta")
               \/ at = "setexProfile" /\ Setex("profile")
      BY <3>2, <3>5
    <3>6. CASE \/ at \in {"publishSnapshot", "publishAll"} /\ Tell("snapshot")
               \/ at = "publishDelta" /\ Tell("delta")
               \/ at = "publishProfile" /\ Tell("profile")
      BY <3>3, <3>6
    <3>7. CASE \/ at = "lpushTape" /\ Push("tape")
               \/ at = "ltrimTape" /\ Trim("tape")
               \/ at = "lpushSignal" /\ Push("signals")
               \/ at = "ltrimSignal" /\ Trim("signals")
      BY <3>4, <3>7
    <3>8. CASE /\ at \in {"publishTrade", "publishSignal", "dispatchQuote", "dispatchTrade"}
               /\ UNCHANGED redisVars
      BY <3>8
    <3>9. QED
      BY <3>5, <3>6, <3>7, <3>8 DEF RedisDoes
  <2>3. QED
    BY <1>8, <1>9, <1>10, <1>11, <2>2

\* What a key and its channel are given ends in the frame in the handler.
LEMMA PayloadLast ==
  ASSUME FlowInv, InHandler, NEW k \in Keys, at = Setting(k) \/ at \in Telling(k)
  PROVE  EndsIn(Payload(k), cur) /\ Payload(k) \in Seq(Number)
<1>1. cur \in Number /\ symbol \in Symbols /\ TypeOK
  BY Handling DEF FlowInv, TypeInv
<1>2. CASE k = "snapshot"
  <2>1. Payload(k) = <<cur>> /\ <<cur>> # <<>> /\ Last(<<cur>>) = cur
    BY <1>2 DEF Payload, Last
  <2>2. QED
    BY <1>1, <2>1, PayloadType DEF EndsIn
<1>3. CASE k # "snapshot"
  <2>1. k \in Names /\ k \in Had(at)
    BY <1>3 DEF Keys, Names, Setting, Telling, Had
  <2>2. Payload(k) = flow[symbol][k]
    BY <1>3 DEF Payload
  <2>3. QED
    BY <1>1, <2>1, <2>2, PayloadType DEF FlowInv
<1>4. QED
  BY <1>2, <1>3

-----------------------------------------------------------------------------
(* A key is never behind its channel. *)

UpTo(q, n) == q # <<>> => Last(q) <= n

\* Neither is ahead of the frame in the handler, and a channel that is about to be
\* told has its key set to that frame, if it has not expired.
KeyInv ==
  /\ FlowInv
  /\ \A k \in Keys, s \in Symbols : UpTo(keys[k][s], cur) /\ UpTo(told[k][s], cur)
  /\ KeyBeforeChannel
  /\ InHandler => \A k \in Keys :
       at \in Telling(k) => keys[k][symbol] = <<>> \/ Last(keys[k][symbol]) = cur

LEMMA InitKey == Init => KeyInv
<1> SUFFICES ASSUME Init PROVE KeyInv
  OBVIOUS
<1>1. ~InHandler /\ \A k \in Keys, s \in Symbols : keys[k][s] = <<>> /\ told[k][s] = <<>>
  BY DEF Init, InHandler
<1>2. QED
  BY <1>1, InitFlow DEF KeyInv, UpTo, KeyBeforeChannel

\* The steps that set no key and tell no channel.
LEMMA SameKey ==
  ASSUME KeyInv, FlowInv', [Next]_vars, UNCHANGED told, cur' >= cur,
         \A k \in Keys, s \in Symbols : keys'[k][s] = keys[k][s] \/ keys'[k][s] = <<>>,
         InHandler' => \/ InHandler /\ at' = at /\ cur' = cur
                       \/ \A k \in Keys : at' \notin Telling(k)
  PROVE  KeyInv'
<1>1. ASSUME NEW k \in Keys, NEW s \in Symbols
      PROVE  UpTo(keys'[k][s], cur') /\ UpTo(told'[k][s], cur')
  <2>1. /\ cur \in Nat /\ cur' \in Nat /\ keys[k][s] \in Seq(Number) /\ told[k][s] \in Seq(Number)
    <3>1. cur \in 0 .. MaxFrames /\ cur' \in 0 .. MaxFrames
      BY DEF FlowInv, KeyInv, TypeInv, TypeOK
    <3>2. QED
      BY <3>1 DEF FlowInv, KeyInv, TypeInv, TypeOK, Number
  <2>2. /\ keys[k][s] # <<>> => Last(keys[k][s]) \in Nat
        /\ told[k][s] # <<>> => Last(told[k][s]) \in Nat
    BY <2>1, Numbers DEF Last
  <2>3. UpTo(keys[k][s], cur) /\ UpTo(told[k][s], cur) /\ cur <= cur'
    BY <2>1 DEF KeyInv
  <2>4. QED
    BY <2>1, <2>2, <2>3 DEF UpTo
<1>2. KeyBeforeChannel'
  BY DEF KeyInv, KeyBeforeChannel
<1>3. ASSUME InHandler', NEW k \in Keys, at' \in Telling(k)
      PROVE  keys'[k][symbol'] = <<>> \/ Last(keys'[k][symbol']) = cur'
  <2>1. InHandler /\ at' = at /\ cur' = cur /\ symbol' = symbol /\ symbol \in Symbols
    BY <1>3, SymbolStays, Handling DEF KeyInv, FlowInv
  <2>2. QED
    BY <1>3, <2>1 DEF KeyInv
<1>4. QED
  BY <1>1, <1>2, <1>3 DEF KeyInv

LEMMA NextKey == KeyInv /\ [Next]_vars => KeyInv'
<1> SUFFICES ASSUME KeyInv, [Next]_vars PROVE KeyInv'
  OBVIOUS
<1>1. FlowInv /\ FlowInv' /\ TypeInv /\ TypeOK /\ TypeInv' /\ TypeOK'
  BY NextFlow DEF KeyInv, FlowInv, TypeInv
<1>2. cur \in Nat /\ cur >= cur
  BY <1>1 DEF TypeOK
<1>3. CASE Start \/ Stop \/ Crash \/ ReceiveFails
  BY <1>1, <1>2, <1>3, SameKey DEF Start, Stop, Crash, ReceiveFails, redisVars, InHandler
<1>4. ASSUME NEW f \in Frames, Publish(f) PROVE KeyInv'
  BY <1>1, <1>2, <1>4, SameKey DEF Publish, redisVars, InHandler
<1>5. ASSUME NEW k \in Keys, NEW s \in Symbols, KeyExpires(k, s) PROVE KeyInv'
  <2>1. \A h \in Keys, t \in Symbols : keys'[h][t] = keys[h][t] \/ keys'[h][t] = <<>>
    BY <1>1, <1>5 DEF KeyExpires, TypeOK
  <2>2. QED
    BY <1>1, <1>2, <1>5, <2>1, SameKey DEF KeyExpires, InHandler
<1>6. CASE Receive
  <2>1. cur' >= cur
    <3>1. queue \in Seq(Number) /\ queue # <<>> /\ cur' = queue[1]
      BY <1>1, <1>6 DEF Receive, TypeOK, Number
    <3>2. 1 \in DOMAIN queue
      BY <3>1
    <3>3. queue[1] \in Number
      BY <3>1, <3>2
    <3>4. queue[1] \in Nat
      BY <3>3, Numbers
    <3>5. QED
      BY <1>2, <3>1, <3>2, <3>4 DEF KeyInv, FlowInv, TypeInv
  <2>2. \A k \in Keys : at' \notin Telling(k)
    BY <1>6 DEF Receive, FirstAwait, Telling, Keys
  <2>3. QED
    BY <1>1, <1>6, <2>1, <2>2, SameKey DEF Receive, redisVars
<1>7. CASE Answer \/ Fail
  <2>1. /\ InHandler /\ UNCHANGED <<cur, past>> /\ symbol' = symbol /\ symbol \in Symbols
        /\ Answer => at' = NextAwait(at) /\ RedisDoes(at)
        /\ Fail => at' = LoopTest /\ (RedisDoes(at) \/ UNCHANGED redisVars)
    BY <1>1, <1>7, Handling DEF Answer, Fail, symbol
  <2>2. CASE RedisDoes(at)
    <3>1. /\ \A k \in Keys, s \in Symbols :
               keys'[k][s] = IF s = symbol /\ at = Setting(k) THEN Payload(k) ELSE keys[k][s]
          /\ \A k \in Keys, s \in Symbols :
               told'[k][s] = IF s = symbol /\ at \in Telling(k) THEN Payload(k) ELSE told[k][s]
      BY <1>1, <2>1, <2>2, RedisEffects
    <3>2. \A k \in Keys : at = Setting(k) \/ at \in Telling(k) => EndsIn(Payload(k), cur)
      BY <1>1, <2>1, PayloadLast
    <3>3. \A k \in Keys : Setting(k) \notin Telling(k)
      BY DEF Keys, Setting, Telling
    <3>4. ASSUME NEW k \in Keys, NEW s \in Symbols
          PROVE  /\ UpTo(keys'[k][s], cur) /\ UpTo(told'[k][s], cur)
                 /\ keys'[k][s] # <<>> /\ told'[k][s] # <<>> => Last(told'[k][s]) <= Last(keys'[k][s])
      <4>1. /\ UpTo(keys[k][s], cur) /\ UpTo(told[k][s], cur)
            /\ keys[k][s] # <<>> /\ told[k][s] # <<>> => Last(told[k][s]) <= Last(keys[k][s])
        BY DEF KeyInv, KeyBeforeChannel
      <4>2. CASE s = symbol /\ at = Setting(k)
        <5>1. /\ Last(keys'[k][s]) = cur /\ told'[k][s] = told[k][s]
          BY <3>1, <3>2, <3>3, <4>2 DEF EndsIn
        <5>2. QED
          BY <1>2, <4>1, <5>1 DEF UpTo
      <4>3. CASE s = symbol /\ at \in Telling(k)
        <5>1. Last(told'[k][s]) = cur /\ keys'[k][s] = keys[k][s]
          BY <3>1, <3>2, <3>3, <4>3 DEF EndsIn
        <5>2. keys[k][s] = <<>> \/ Last(keys[k][s]) = cur
          BY <2>1, <4>3 DEF KeyInv
        <5>3. QED
          BY <1>2, <4>1, <5>1, <5>2 DEF UpTo
      <4>4. CASE ~(s = symbol /\ (at = Setting(k) \/ at \in Telling(k)))
        <5>1. keys'[k][s] = keys[k][s] /\ told'[k][s] = told[k][s]
          BY <3>1, <4>4
        <5>2. QED
          BY <4>1, <5>1
      <4>5. QED
        BY <4>2, <4>3, <4>4
    <3>5. ASSUME InHandler', NEW k \in Keys, at' \in Telling(k)
          PROVE  keys'[k][symbol] = <<>> \/ Last(keys'[k][symbol]) = cur
      <4>1. at' = NextAwait(at) /\ at \in Awaits
        BY <1>1, <1>7, <2>1, <3>5, Handling DEF LoopTest, InHandler
      <4>2. at = Setting(k) \/ at \in Telling(k)
        <5>1. \A a \in Awaits : NextAwait(a) \in Telling(k) => a = Setting(k) \/ a \in Telling(k)
          BY DEF NextAwait, AfterUpdate, ProfileAwait, LoopTest, Setting, Telling, Keys, Awaits
        <5>2. QED
          BY <3>5, <4>1, <5>1
      <4>3. CASE at = Setting(k)
        BY <2>1, <3>1, <3>2, <4>3 DEF EndsIn
      <4>4. CASE at \in Telling(k)
        BY <2>1, <3>1, <3>3, <4>4 DEF KeyInv
      <4>5. QED
        BY <4>2, <4>3, <4>4
    <3>6. QED
      BY <1>1, <2>1, <3>4, <3>5 DEF KeyInv, KeyBeforeChannel
  <2>3. CASE ~RedisDoes(at)
    <3>1. UNCHANGED <<told, keys>> /\ ~InHandler'
      BY <1>7, <2>1, <2>3 DEF redisVars, LoopTest, InHandler
    <3>2. QED
      BY <1>1, <1>2, <2>1, <3>1, SameKey
  <2>4. QED
    BY <2>2, <2>3
<1>8. CASE UNCHANGED vars
  BY <1>1, <1>2, <1>8, SameKey DEF vars, redisVars, InHandler
<1>9. QED
  BY <1>3, <1>4, <1>5, <1>6, <1>7, <1>8 DEF Next, Environment

\* A client that hears a value on a channel never reads an older one from its key,
\* over failures, crashes and restarts (subscriber.py 83-87, 133-134, 154-155).
THEOREM SubscriberKeyBeforeChannel == Spec => []KeyBeforeChannel
<1>1. KeyInv => KeyBeforeChannel
  BY DEF KeyInv
<1>2. QED
  BY <1>1, InitKey, NextKey, PTL DEF Spec
-----------------------------------------------------------------------------
(* The lists in Redis. *)

NewestFirst(q) == \A j, k \in DOMAIN q : j < k => q[j] >= q[k]

LEMMA PushNewest ==
  ASSUME NEW q \in Seq(Number), NEW n \in Number, NewestFirst(q), AtMost(q, n)
  PROVE  NewestFirst(<<n>> \o q) /\ AtMost(<<n>> \o q, n)
<1> DEFINE r == <<n>> \o q
<1>1. /\ r \in Seq(Number) /\ Len(r) = Len(q) + 1 /\ r[1] = n
      /\ \A j \in 2 .. Len(q) + 1 : r[j] = q[j - 1]
  BY PushNumber
<1>2. DOMAIN q = 1 .. Len(q) /\ Len(q) \in Nat /\ n \in Nat /\ \A j \in DOMAIN q : q[j] \in Nat
  BY Numbers
<1>3. DOMAIN r = 1 .. Len(q) + 1
  BY <1>1, Numbers
<1> HIDE DEF r
<1>4. ASSUME NEW j \in DOMAIN r PROVE r[j] <= n
  <2>1. CASE j = 1
    BY <1>1, <1>2, <2>1
  <2>2. CASE j # 1
    <3>1. j \in 2 .. Len(q) + 1 /\ j - 1 \in DOMAIN q
      BY <1>2, <1>3, <2>2
    <3>2. QED
      BY <1>1, <3>1 DEF AtMost
  <2>3. QED
    BY <2>1, <2>2
<1>5. ASSUME NEW j \in DOMAIN r, NEW k \in DOMAIN r, j < k PROVE r[j] >= r[k]
  <2>1. k \in 2 .. Len(q) + 1 /\ k - 1 \in DOMAIN q /\ r[k] = q[k - 1]
    <3>1. k \in 2 .. Len(q) + 1 /\ k - 1 \in DOMAIN q
      BY <1>2, <1>3, <1>5
    <3>2. QED
      BY <1>1, <3>1
  <2>2. CASE j = 1
    BY <1>1, <1>2, <2>1, <2>2 DEF AtMost
  <2>3. CASE j # 1
    <3>1. j \in 2 .. Len(q) + 1 /\ j - 1 \in DOMAIN q /\ j - 1 < k - 1
      BY <1>2, <1>3, <1>5, <2>3
    <3>2. r[j] = q[j - 1]
      BY <1>1, <3>1
    <3>3. QED
      BY <2>1, <3>1, <3>2 DEF NewestFirst
  <2>4. QED
    BY <2>2, <2>3
<1>6. QED
  BY <1>4, <1>5 DEF NewestFirst, AtMost, r

LEMMA TrimNewest ==
  ASSUME NEW q \in Seq(Number), NEW n \in Number, NewestFirst(q), AtMost(q, n)
  PROVE  NewestFirst(Trimmed(q)) /\ AtMost(Trimmed(q), n)
<1> DEFINE r == Trimmed(q)
<1>1. r \in Seq(Number) /\ Len(r) <= Len(q) /\ \A j \in 1 .. Len(r) : r[j] = q[j]
  BY TrimmedList
<1>2. /\ DOMAIN q = 1 .. Len(q) /\ Len(q) \in Nat
      /\ DOMAIN r = 1 .. Len(r) /\ Len(r) \in Nat
  BY <1>1, Numbers
<1> HIDE DEF r
<1>3. \A j \in DOMAIN r : j \in DOMAIN q /\ r[j] = q[j]
  BY <1>1, <1>2
<1>4. QED
  BY <1>3 DEF NewestFirst, AtMost, r

\* What an invariant about the lists needs: an entry too many is the frame in the
\* handler, about to be trimmed, or the work of a handler that was cut before it.
Bounded(l, s) ==
  LET list == lists[l][s] IN
    /\ NewestFirst(list) /\ AtMost(list, cur)
    /\ Len(list) > Keep =>
         \/ Head(list) \in cut
         \/ InHandler /\ s = symbol /\ at = Trimming(l) /\ Head(list) = cur

ListInv == TypeInv /\ \A l \in Lists, s \in Symbols : Bounded(l, s)

LEMMA InitList == Init => ListInv
<1> SUFFICES ASSUME Init PROVE ListInv
  OBVIOUS
<1>1. \A l \in Lists, s \in Symbols : lists[l][s] = <<>>
  BY DEF Init
<1>2. DOMAIN <<>> = {} /\ ~(Len(<<>>) > Keep)
  BY Constants
<1>3. QED
  BY <1>1, <1>2, InitTypes DEF ListInv, Bounded, NewestFirst, AtMost

\* The steps that leave the lists alone.
LEMMA SameLists ==
  ASSUME ListInv, TypeInv', [Next]_vars, UNCHANGED lists, cur' >= cur, cut \subseteq cut',
         InHandler => \/ InHandler' /\ at' = at /\ cur' = cur
                      \/ cur \in cut'
  PROVE  ListInv'
<1> SUFFICES ASSUME NEW l \in Lists, NEW s \in Symbols PROVE Bounded(l, s)'
  BY DEF ListInv
<1> DEFINE list == lists[l][s]
<1>1. list' = list /\ list \in Seq(Number) /\ cur \in Nat /\ cur' \in Nat
  BY DEF ListInv, TypeInv, TypeOK, Number
<1>2. NewestFirst(list) /\ AtMost(list, cur)
  BY DEF ListInv, Bounded
<1>3. AtMost(list, cur')
  <2>1. \A j \in DOMAIN list : list[j] \in Nat
    BY <1>1, Numbers
  <2>2. QED
    BY <1>1, <1>2, <2>1 DEF AtMost
<1>4. ASSUME Len(list) > Keep
      PROVE  \/ Head(list) \in cut'
             \/ InHandler' /\ s = symbol' /\ at' = Trimming(l) /\ Head(list) = cur'
  <2>1. CASE Head(list) \in cut
    BY <2>1
  <2>2. CASE InHandler /\ s = symbol /\ at = Trimming(l) /\ Head(list) = cur
    BY <2>2, SymbolStays DEF ListInv
  <2>3. QED
    BY <1>4, <2>1, <2>2 DEF ListInv, Bounded
<1>5. QED
  BY <1>1, <1>2, <1>3, <1>4 DEF Bounded, Trimming, NewestFirst, AtMost

LEMMA NextList == ListInv /\ [Next]_vars => ListInv'
<1> SUFFICES ASSUME ListInv, [Next]_vars PROVE ListInv'
  OBVIOUS
<1>1. TypeInv /\ TypeOK /\ TypeInv' /\ TypeOK'
  BY NextTypes DEF ListInv, TypeInv
<1>2. cur \in Nat /\ cur >= cur
  BY <1>1, Constants DEF TypeOK
<1>3. CASE Start \/ Stop \/ Crash \/ ReceiveFails
  BY <1>1, <1>2, <1>3, SameLists DEF Start, Stop, Crash, ReceiveFails, redisVars, InHandler
<1>4. ASSUME NEW f \in Frames, Publish(f) PROVE ListInv'
  BY <1>1, <1>2, <1>4, SameLists DEF Publish, redisVars, InHandler
<1>5. ASSUME NEW k \in Keys, NEW s \in Symbols, KeyExpires(k, s) PROVE ListInv'
  BY <1>1, <1>2, <1>5, SameLists DEF KeyExpires, InHandler
<1>6. CASE Receive
  <2>1. cur' >= cur
    <3>1. queue \in Seq(Number) /\ queue # <<>> /\ cur' = queue[1]
      BY <1>1, <1>6 DEF Receive, TypeOK, Number
    <3>2. 1 \in DOMAIN queue
      BY <3>1
    <3>3. queue[1] \in Nat
      BY <3>1, <3>2, Numbers
    <3>4. QED
      BY <1>1, <1>2, <3>1, <3>2, <3>3 DEF TypeInv
  <2>2. QED
    BY <1>1, <1>6, <2>1, SameLists DEF Receive, redisVars, InHandler
<1>7. CASE Answer \/ Fail
  <2>1. /\ InHandler /\ UNCHANGED <<cur, past>> /\ symbol' = symbol /\ cut \subseteq cut'
        /\ Answer => at' = NextAwait(at) /\ RedisDoes(at)
        /\ Fail => cur \in cut' /\ (RedisDoes(at) \/ UNCHANGED lists)
    BY <1>1, <1>7 DEF Answer, Fail, symbol, redisVars
  <2>2. cur \in Number /\ symbol \in Symbols
    BY <1>1, <2>1, Handling
  <2>3. CASE RedisDoes(at)
    <3>1. ASSUME NEW l \in Lists, NEW s \in Symbols PROVE Bounded(l, s)'
      <4> DEFINE list == lists[l][s]
      <4>1. /\ list' = IF s = symbol /\ at = Pushing(l) THEN <<cur>> \o list
                       ELSE IF s = symbol /\ at = Trimming(l) THEN Trimmed(list) ELSE list
            /\ list \in Seq(Number) /\ NewestFirst(list) /\ AtMost(list, cur)
            /\ Len(list) > Keep =>
                 \/ Head(list) \in cut
                 \/ s = symbol /\ at = Trimming(l)
        BY <1>1, <2>1, <2>3, RedisEffects DEF ListInv, Bounded, TypeOK, Number
      <4>2. ASSUME NEW r, r = list', NewestFirst(r), AtMost(r, cur),
                   Len(r) > Keep => \/ Head(r) \in cut'
                                    \/ InHandler' /\ s = symbol /\ at' = Trimming(l) /\ Head(r) = cur
            PROVE  Bounded(l, s)'
        BY <2>1, <4>2 DEF Bounded, NewestFirst, AtMost, Trimming
      <4> HIDE DEF list
      <4>3. CASE s = symbol /\ at = Pushing(l)
        <5>1. list' = <<cur>> \o list /\ Head(<<cur>> \o list) = cur
          BY <2>2, <4>1, <4>3, PushNumber
        <5>2. NewestFirst(<<cur>> \o list) /\ AtMost(<<cur>> \o list, cur)
          BY <2>2, <4>1, PushNewest
        <5>3. Answer => InHandler' /\ at' = Trimming(l)
          BY <2>1, <4>3 DEF Lists, Pushing, Trimming, NextAwait, InHandler
        <5>4. QED
          BY <1>7, <2>1, <4>2, <4>3, <5>1, <5>2, <5>3
      <4>4. CASE s = symbol /\ at = Trimming(l)
        <5>1. list' = Trimmed(list)
          BY <4>1, <4>4 DEF Lists, Pushing, Trimming
        <5>2. /\ NewestFirst(Trimmed(list)) /\ AtMost(Trimmed(list), cur)
              /\ Len(Trimmed(list)) <= Keep /\ Len(Trimmed(list)) \in Nat
          <6>1. Trimmed(list) \in Seq(Number) /\ Len(Trimmed(list)) <= Keep
            BY <4>1, TrimmedList
          <6>2. QED
            BY <2>2, <4>1, <6>1, TrimNewest, Numbers
        <5>3. ~(Len(Trimmed(list)) > Keep)
          BY <5>2, Constants
        <5>4. QED
          BY <4>2, <5>1, <5>2, <5>3
      <4>5. CASE ~(s = symbol /\ at \in {Pushing(l), Trimming(l)})
        BY <2>1, <4>1, <4>2, <4>5
      <4>6. QED
        BY <4>3, <4>4, <4>5
    <3>2. QED
      BY <1>1, <3>1 DEF ListInv
  <2>4. CASE Fail /\ UNCHANGED lists
    BY <1>1, <1>2, <2>1, <2>4, SameLists
  <2>5. QED
    BY <1>7, <2>1, <2>3, <2>4
<1>8. CASE UNCHANGED vars
  BY <1>1, <1>2, <1>8, SameLists DEF vars, redisVars, InHandler
<1>9. QED
  BY <1>3, <1>4, <1>5, <1>6, <1>7, <1>8 DEF Next, Environment

\* The tape and the signals are newest first, and a list is too long only while its
\* newest entry is about to be trimmed or was cut before it (subscriber.py 118-119,
\* 171-172): it is never longer for any other reason, whatever is lost or restarted.
THEOREM SubscriberListsBounded == Spec => []ListsBounded
<1>1. ListInv => ListsBounded
  <2> SUFFICES ASSUME ListInv, NEW l \in Lists, NEW s \in Symbols
               PROVE  /\ NewestFirst(lists[l][s])
                      /\ Len(lists[l][s]) > Keep => Head(lists[l][s]) \in cut \cup UnderWay
    BY DEF ListsBounded, NewestFirst
  <2>1. Bounded(l, s)
    BY DEF ListInv
  <2>2. QED
    BY <2>1 DEF Bounded, UnderWay
<1>2. QED
  BY <1>1, InitList, NextList, PTL DEF Spec

-----------------------------------------------------------------------------
(* The keys of delta and profile hold what is in memory. *)

Kept == {"delta", "profile"}

Full(q) == \E j \in DOMAIN q : past[q[j]].full

\* A value is behind the accumulator only while the handler is about to set it.
Fresh(k, s) ==
  LET mine == flow[s][k] IN
    /\ mine # <<>> /\ Last(mine) \notin cut
    /\ keys[k][s] # <<>>
    /\ k = "profile" => Full(mine)
    => keys[k][s] = mine \/ (InHandler /\ s = symbol /\ at = Setting(k))

FreshInv == FlowInv /\ \A k \in Kept, s \in Symbols : Fresh(k, s)

LEMMA InitFresh == Init => FreshInv
<1> SUFFICES ASSUME Init PROVE FreshInv
  OBVIOUS
<1>1. \A k \in Kept, s \in Symbols : flow[s][k] = <<>>
  BY NothingType DEF Init, Kept, Names
<1>2. QED
  BY <1>1, InitFlow DEF FreshInv, Fresh

\* The frames that were given to somebody stay what they are.
LEMMA PastStays ==
  ASSUME FlowInv, [Next]_vars, NEW k \in Names, NEW s \in Symbols
  PROVE  \A j \in DOMAIN flow[s][k] : past'[flow[s][k][j]] = past[flow[s][k][j]]
<1> SUFFICES ASSUME NEW j \in DOMAIN flow[s][k] PROVE past'[flow[s][k][j]] = past[flow[s][k][j]]
  OBVIOUS
<1> DEFINE n == flow[s][k][j]
<1>1. n \in 1 .. Len(past) /\ past \in Seq(Frame)
  <2>1. flow[s][k] \in Seq(Number) /\ AtMost(flow[s][k], cur) /\ cur <= Len(past)
        /\ past \in Seq(Frame) /\ cur \in Nat
    BY FlowType, Constants DEF FlowInv, TypeInv, TypeOK
  <2>2. n \in Number
    BY <2>1
  <2>3. n >= 1 /\ n \in Nat /\ n <= cur
    BY <2>1, <2>2 DEF Number, AtMost
  <2>4. QED
    BY <2>1, <2>3
<1> HIDE DEF n
<1>2. ASSUME NEW f \in Frames, Publish(f) PROVE past'[n] = past[n]
  <2>1. f \in Frame /\ past' = Append(past, f)
    BY <1>2, Constants DEF Publish
  <2>2. QED
    BY <1>1, <2>1, SameSymbol
<1>3. UNCHANGED past \/ \E f \in Frames : Publish(f)
  BY DEF Next, Environment, Start, Stop, Crash, KeyExpires, Receive, ReceiveFails, Answer, Fail, vars
<1>4. past'[n] = past[n]
  BY <1>2, <1>3
<1>5. QED
  BY <1>4 DEF n

\* The steps that serve nobody and set no key.
LEMMA SameFresh ==
  ASSUME FreshInv, FlowInv', [Next]_vars, UNCHANGED flow, cut \subseteq cut',
         \A k \in Keys, s \in Symbols : keys'[k][s] = keys[k][s] \/ keys'[k][s] = <<>>,
         InHandler => \/ InHandler' /\ at' = at /\ cur' = cur
                      \/ cur \in cut'
  PROVE  FreshInv'
<1> SUFFICES ASSUME NEW k \in Kept, NEW s \in Symbols PROVE Fresh(k, s)'
  BY DEF FreshInv
<1> DEFINE mine == flow[s][k]
<1>1. /\ k \in Names /\ k \in Keys /\ FlowInv /\ mine' = mine
      /\ keys'[k][s] = keys[k][s] \/ keys'[k][s] = <<>>
  BY DEF Kept, Names, Keys, FreshInv
<1>2. Full(mine)' => Full(mine)
  BY <1>1, PastStays DEF Full
<1>3. ASSUME mine # <<>>, Last(mine) \notin cut', keys'[k][s] # <<>>, k = "profile" => Full(mine)'
      PROVE  keys'[k][s] = mine \/ (InHandler' /\ s = symbol' /\ at' = Setting(k))
  <2>1. keys'[k][s] = keys[k][s] /\ Last(mine) \notin cut
    BY <1>1, <1>3
  <2>2. keys[k][s] = mine \/ (InHandler /\ s = symbol /\ at = Setting(k))
    BY <1>2, <1>3, <2>1 DEF FreshInv, Fresh
  <2>3. CASE InHandler /\ s = symbol /\ at = Setting(k)
    <3>1. k \in Had(at)
      BY <2>3 DEF Kept, Setting, Had
    <3>2. Last(mine) = cur
      BY <1>1, <2>3, <3>1 DEF FlowInv, EndsIn
    <3>3. InHandler' /\ at' = at /\ cur' = cur
      BY <1>3, <2>3, <3>2
    <3>4. QED
      BY <1>1, <2>3, <3>3, SymbolStays DEF FlowInv
  <2>4. QED
    BY <2>1, <2>2, <2>3
<1>4. QED
  BY <1>1, <1>3 DEF Fresh, Setting, Full

\* A consumer that has just been served has its key set next; a profile without volume
\* has none to set.
LEMMA ServedNext ==
  ASSUME TypeInv, InHandler, NEW k \in Kept, k \in Served(at),
         NEW q, q = Append(flow[symbol][k], cur), k = "profile" => Full(q)
  PROVE  NextAwait(at) = Setting(k)
<1>1. at \in Awaits /\ cur \in Number /\ flow[symbol][k] \in Seq(Number)
  BY Handling, FlowType DEF TypeInv, Kept, Names
<1>2. CASE k = "delta"
  BY <1>1, <1>2 DEF Served, NextAwait, AfterUpdate, Setting, Awaits
<1>3. CASE k = "profile"
  <2>1. at = "publishDelta"
    BY <1>1, <1>3 DEF Served, Awaits
  <2>2. HasVolume \/ past[cur].full
    <3>1. PICK j \in DOMAIN q : past[q[j]].full
      BY <1>3 DEF Full
    <3>2. /\ DOMAIN q = 1 .. Len(flow[symbol][k]) + 1 /\ q[Len(flow[symbol][k]) + 1] = cur
          /\ \A i \in 1 .. Len(flow[symbol][k]) : q[i] = flow[symbol][k][i]
          /\ DOMAIN flow[symbol][k] = 1 .. Len(flow[symbol][k]) /\ Len(flow[symbol][k]) \in Nat
      BY <1>1, AppendNumber
    <3>3. j \in DOMAIN flow[symbol][k] \/ j = Len(flow[symbol][k]) + 1
      BY <3>2
    <3>4. QED
      BY <1>3, <3>1, <3>2, <3>3 DEF HasVolume
  <2>3. QED
    BY <1>3, <2>1, <2>2 DEF NextAwait, AfterUpdate, ProfileAwait, Setting
<1>4. QED
  BY <1>2, <1>3 DEF Kept

LEMMA NextFresh == FreshInv /\ [Next]_vars => FreshInv'
<1> SUFFICES ASSUME FreshInv, [Next]_vars PROVE FreshInv'
  OBVIOUS
<1>1. FlowInv /\ FlowInv' /\ TypeInv /\ TypeOK /\ TypeInv' /\ TypeOK'
  BY NextFlow DEF FreshInv, FlowInv, TypeInv
<1>2. Kept \subseteq Names /\ Kept \subseteq Keys
  BY DEF Kept, Names, Keys
<1>3. CASE Start
  <2>1. \A k \in Kept, s \in Symbols : flow'[s][k] = <<>>
    BY <1>2, <1>3, NothingType DEF Start
  <2>2. QED
    BY <1>1, <2>1 DEF FreshInv, Fresh
<1>4. CASE Stop \/ Crash \/ ReceiveFails
  BY <1>1, <1>4, SameFresh DEF Stop, Crash, ReceiveFails, redisVars, InHandler
<1>5. ASSUME NEW f \in Frames, Publish(f) PROVE FreshInv'
  BY <1>1, <1>5, SameFresh DEF Publish, redisVars, InHandler
<1>6. ASSUME NEW k \in Keys, NEW s \in Symbols, KeyExpires(k, s) PROVE FreshInv'
  <2>1. \A h \in Keys, t \in Symbols : keys'[h][t] = keys[h][t] \/ keys'[h][t] = <<>>
    BY <1>1, <1>6 DEF KeyExpires, TypeOK
  <2>2. QED
    BY <1>1, <1>6, <2>1, SameFresh DEF KeyExpires, InHandler
<1>7. CASE Receive
  BY <1>1, <1>7, SameFresh DEF Receive, redisVars, InHandler
<1>8. ASSUME InHandler, RedisDoes(at), UNCHANGED <<cur, past>>, cut \subseteq cut',
             NEW C \in SUBSET Served(at), Serve(C),
             C \cap Kept # {} => at' = NextAwait(at) /\ C = Served(at)
      PROVE  FreshInv'
  <2>1. /\ at \in Awaits /\ cur \in Number /\ symbol \in Symbols /\ symbol' = symbol
        /\ C \in SUBSET Names
    BY <1>1, <1>8, Handling, ServedNames DEF symbol
  <2>2. /\ \A s \in Symbols, c \in Names :
             flow'[s][c] = IF s = symbol /\ c \in C THEN Append(flow[s][c], cur) ELSE flow[s][c]
        /\ \A k \in Keys, s \in Symbols :
             keys'[k][s] = IF s = symbol /\ at = Setting(k) THEN Payload(k) ELSE keys[k][s]
    BY <1>1, <1>8, <2>1, ServeDoes, RedisEffects
  <2>3. ASSUME NEW k \in Kept, NEW s \in Symbols PROVE Fresh(k, s)'
    <3> DEFINE mine == flow[s][k]
    <3>1. mine \in Seq(Number) /\ k \in Names /\ k \in Keys
      BY <1>1, <1>2, FlowType
    <3>2. CASE s = symbol /\ k \in C
      <4>1. at' = NextAwait(at) /\ k \in Served(at) /\ mine' = Append(flow[symbol][k], cur)
        BY <1>8, <2>2, <2>3, <3>1, <3>2
      <4>2. ASSUME k = "profile" => Full(mine)' PROVE InHandler' /\ at' = Setting(k)
        <5>1. k = "profile" => Full(Append(flow[symbol][k], cur))
          BY <1>8, <4>1, <4>2 DEF Full
        <5>2. at' = Setting(k)
          BY <1>1, <1>8, <4>1, <5>1, ServedNext
        <5>3. QED
          BY <5>2 DEF Kept, Setting, InHandler
      <4>3. QED
        BY <2>1, <3>2, <4>2 DEF Fresh, Setting
    <3>3. CASE s = symbol /\ at = Setting(k)
      <4>1. k \notin Served(at)
        BY <3>3 DEF Kept, Setting, Served
      <4>2. mine' = mine /\ keys'[k][s] = Payload(k)
        BY <1>8, <2>2, <3>1, <3>3, <4>1
      <4>3. Payload(k) = mine
        BY <3>3 DEF Payload, Kept
      <4>4. QED
        BY <4>2, <4>3 DEF Fresh
    <3>4. CASE s # symbol \/ (k \notin C /\ at # Setting(k))
      <4>1. mine' = mine /\ keys'[k][s] = keys[k][s]
        BY <2>2, <3>1, <3>4
      <4>2. Full(mine)' => Full(mine)
        BY <1>8, <4>1 DEF Full
      <4>3. QED
        BY <1>8, <3>4, <4>1, <4>2 DEF FreshInv, Fresh
    <3>5. QED
      BY <3>2, <3>3, <3>4
  <2>4. QED
    BY <1>1, <2>3 DEF FreshInv
<1>9. CASE Answer
  BY <1>8, <1>9 DEF Answer
<1>10. CASE Fail
  <2>1. /\ InHandler /\ UNCHANGED <<cur, past>> /\ cur \in cut' /\ cut \subseteq cut'
    BY <1>10 DEF Fail
  <2>2. CASE UNCHANGED <<redisVars, flow>>
    BY <1>1, <2>1, <2>2, SameFresh DEF redisVars
  <2>3. CASE RedisDoes(at) /\ Serve(Served(at) \ {"delta", "profile", "engine"})
    <3>1. (Served(at) \ {"delta", "profile", "engine"}) \cap Kept = {}
      BY DEF Kept
    <3>2. QED
      BY <1>8, <2>1, <2>3, <3>1
  <2>4. QED
    BY <1>10, <2>2, <2>3 DEF Fail
<1>11. CASE UNCHANGED vars
  BY <1>1, <1>11, SameFresh DEF vars, redisVars, InHandler
<1>12. QED
  BY <1>3, <1>4, <1>5, <1>6, <1>7, <1>9, <1>10, <1>11 DEF Next, Environment

\* Between frames the keys of delta and profile hold what is in memory, unless they
\* expired or the symbol's last trade was cut short (subscriber.py 133, 154).
THEOREM SubscriberKeysFresh == Spec => []KeysFresh
<1>1. FreshInv => KeysFresh
  BY DEF FreshInv, Fresh, KeysFresh, Kept, Full
<1>2. QED
  BY <1>1, InitFresh, NextFresh, PTL DEF Spec

===============================================================================
