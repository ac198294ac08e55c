--------------------------- MODULE StrategyRegistry ---------------------------
(***************************************************************************)
(* backend/app/quantlab/registry.py: the dict of live strategies, the      *)
(* dispatch of a market event to them, and the HTTP requests of            *)
(* api/v1/lab.py that change the dict.                                     *)
(*                                                                         *)
(* Everything runs on one asyncio event loop.  A dispatch iterates over    *)
(* the dict itself and gives up the loop only at the awaits of             *)
(* _publish_signal; a request therefore runs between two iterations only   *)
(* while a signal is being published (Free).  CPython's dict is modelled   *)
(* as far as its iterator can tell: an array of entries in insertion       *)
(* order, in which a removed key leaves a hole, which is rebuilt without   *)
(* holes when an insertion finds it full.  The iterator fails when the     *)
(* number of keys is not what it was at the start, or when it meets more   *)
(* keys than there were.                                                   *)
(***************************************************************************)
EXTENDS Integers, Sequences, FiniteSets

CONSTANTS Ids,       \* strategy ids (uuid4: none is used twice)
          Hole,      \* an entry of the dict whose key was removed
          Feeds,     \* the symbols events are about
          Subscriptions, \* what a strategy's class may say in symbols
          Unreadable, \* symbols that no "in" can search, e.g. a number
          Room,      \* entries a rebuilt dict has room for: 5 in CPython
          Keep,      \* signals kept per strategy: 200 in the code
          MaxEvents, \* bound: events dispatched
          MaxRequests \* bound: HTTP requests that change the dict or a record

ASSUME StrategyRegistryAssumption ==
  /\ Hole \notin Ids
  /\ \A s \in SUBSET Feeds : s # Unreadable
  /\ Subscriptions \subseteq {Unreadable} \cup SUBSET Feeds
  /\ IsFiniteSet(Ids)
  /\ Room \in Nat \ {0} /\ Keep \in Nat \ {0} /\ {MaxEvents, MaxRequests} \subseteq Nat

VARIABLES
  entries,   \* the dict's entries in insertion order, Hole where one was removed
  room,      \* how many entries fit before the next rebuild
  rec,       \* per id: the StrategyRecord
  stored,    \* per id: length of the Redis list lab:signals:{id}
  stage,     \* where dispatch is: idle, next, or the await it is at
  iter,      \* the iterator: position, keys at the start, keys still expected
  cur,       \* the strategy whose signal is being published
  event,     \* symbol of the event being dispatched
  result,    \* how the last dispatch ended: "none", "done", "raised"
  calls,     \* history: strategies called in this dispatch, in order
  steady,    \* history: live, enabled and subscribed since the dispatch began
  changed,   \* history: add or remove during this dispatch
  removed,   \* history: ids removed so far
  pushed,    \* history: per id, signals put into the list
  lost,      \* history: per id, signals dropped before they reached the list
  untrimmed, \* history: per id, pushed by publications that failed since the last trim
  events,    \* history: events dispatched
  requests   \* history: requests served

dictVars == <<entries, room>>
histVars == <<calls, steady, changed, removed, events, requests>>
listVars == <<stored, pushed, lost, untrimmed>>
vars == <<dictVars, rec, listVars, stage, iter, cur, event, result, histVars>>

Record == [enabled : BOOLEAN, symbols : {Unreadable} \cup SUBSET Feeds,
           signals : Nat, errors : Nat]

Fresh == [enabled |-> TRUE, symbols |-> {}, signals |-> 0, errors |-> 0]

Live == {entries[k] : k \in DOMAIN entries} \ {Hole}

\* The event loop is not in the middle of a dispatch's synchronous code.
Free == stage # "next"

Awaits == {"broadcast", "broadcastAll", "push", "trim"}

Init ==
  /\ entries = <<>> /\ room = Room
  /\ rec = [i \in Ids |-> Fresh]
  /\ stored = [i \in Ids |-> 0]
  /\ stage = "idle" /\ result = "none"
  /\ iter = [pos |-> 0, used |-> 0, left |-> 0]
  /\ cur \in Ids /\ event \in Feeds
  /\ calls = <<>> /\ steady = {} /\ changed = FALSE /\ removed = {}
  /\ pushed = [i \in Ids |-> 0] /\ lost = [i \in Ids |-> 0]
  /\ untrimmed = [i \in Ids |-> 0]
  /\ events = 0 /\ requests = 0

-------------------------------------------------------------------------------
\* The dict.

\* Where the keys are.
Kept == {k \in DOMAIN entries : entries[k] # Hole}

\* A rebuild leaves room for at least twice the keys (GROWTH_RATE is 3 * used and
\* two thirds of the table are usable).
Rebuilt == IF 2 * Cardinality(Kept) > Room THEN 2 * Cardinality(Kept) ELSE Room

\* Insert a key that is not there.  When the entries are full they are rebuilt first:
\* the i-th key is the one that was at order[i].
Insert(id) ==
  IF Len(entries) < room
  THEN entries' = Append(entries, id) /\ room' = room
  ELSE \E order \in [1 .. Cardinality(Kept) -> Kept] :
         /\ \A i, j \in DOMAIN order : i < j => order[i] < order[j]
         /\ entries' = Append([i \in DOMAIN order |-> entries[order[i]]], id)
         /\ room' = Rebuilt

\* Mutant: the record is looked up but stays in the dict.
Peek(id) == entries

\* pop() leaves a hole; the entries after it keep their place.
Without(id) == [k \in DOMAIN entries |-> IF entries[k] = id THEN Hole ELSE entries[k]]

KeysFrom(p) == {k \in Kept : k >= p}

-------------------------------------------------------------------------------
\* HTTP requests, between the awaits of a dispatch.

Count == requests < MaxRequests /\ requests' = requests + 1

\* POST /strategies: the sandbox accepted a class, its instance names its symbols.
Add(id, symbols) ==
  /\ Free /\ Count
  /\ id \notin Live /\ id \notin removed
  /\ Insert(id)
  /\ rec' = [rec EXCEPT ![id] = [Fresh EXCEPT !.symbols = symbols]]
  /\ changed' = TRUE
  /\ UNCHANGED <<listVars, stage, iter, cur, event, result, calls, steady, removed,
                 events>>

\* DELETE /strategies/{id}.
Remove(id) ==
  /\ Free /\ Count
  /\ id \in Live
  /\ entries' = Without(id)
  /\ removed' = removed \cup {id}
  /\ steady' = steady \ {id}
  /\ changed' = TRUE
  /\ UNCHANGED <<room, rec, listVars, stage, iter, cur, event, result, calls, events>>

\* PATCH /strategies/{id}: the record is changed in place, not the dict.
Patch(id, active) ==
  /\ Free /\ Count
  /\ id \in Live
  /\ rec' = [rec EXCEPT ![id].enabled = active]
  /\ steady' = IF active THEN steady ELSE steady \ {id}
  /\ UNCHANGED <<dictVars, listVars, stage, iter, cur, event, result, calls, changed,
                 removed, events>>

-------------------------------------------------------------------------------
\* dispatch_trade and dispatch_quote, called by the subscriber one at a time.

Readable(id) == rec[id].symbols # Unreadable

Subscribed(id, symbol) ==
  Readable(id) /\ (rec[id].symbols = {} \/ symbol \in rec[id].symbols)

\* self._strategies.values(): an iterator that remembers how many keys there are.
Iterator == [pos |-> 0, used |-> Cardinality(Kept), left |-> Cardinality(Kept)]

Begin(symbol) ==
  /\ stage = "idle" /\ events < MaxEvents
  /\ stage' = "next" /\ event' = symbol /\ result' = "none"
  /\ events' = events + 1
  /\ iter' = Iterator
  /\ calls' = <<>> /\ changed' = FALSE
  /\ steady' = {i \in Live : rec[i].enabled /\ Subscribed(i, symbol)}
  /\ UNCHANGED <<dictVars, rec, listVars, cur, removed, requests>>

\* Mutant: the error also ends the subscriber's receive loop.
EndsLoop == [stage |-> "ended", iter |-> iter]

\* Mutant: an iteration that finds the dict changed starts over.
StartOver == [stage |-> "next", iter |-> Iterator]

\* RuntimeError: it leaves the for statement, which no try surrounds, and
\* dispatch; the subscriber's loop logs it.
GiveUp == [stage |-> "idle", iter |-> iter]

SizeChanged == iter.used # Cardinality(Kept)

\* The for statement asks for the next record and there is none, or it fails.
EndIteration ==
  /\ stage = "next"
  /\ \/ /\ SizeChanged \/ (KeysFrom(iter.pos + 1) # {} /\ iter.left = 0)
        /\ stage' = GiveUp.stage /\ iter' = GiveUp.iter
        /\ result' = "raised"
     \/ /\ ~SizeChanged /\ KeysFrom(iter.pos + 1) = {}
        /\ stage' = "idle" /\ result' = "done"
        /\ UNCHANGED iter
  /\ UNCHANGED <<dictVars, rec, listVars, cur, event, histVars>>

\* The for statement yields the record at position k.
Yields(k) ==
  /\ stage = "next"
  /\ ~SizeChanged /\ iter.left > 0
  /\ k \in KeysFrom(iter.pos + 1) /\ \A j \in KeysFrom(iter.pos + 1) : k <= j

\* "event.symbol not in syms" raises, outside the try: the dispatch ends there.
Misread(k) ==
  /\ Yields(k) /\ rec[entries[k]].enabled /\ ~Readable(entries[k])
  /\ stage' = GiveUp.stage /\ iter' = GiveUp.iter
  /\ result' = "raised"
  /\ UNCHANGED <<dictVars, rec, listVars, cur, event, histVars>>

Advance(k) == iter' = [iter EXCEPT !.pos = k, !.left = @ - 1]

Wants(id) == rec[id].enabled /\ Subscribed(id, event)

\* Mutant: a record that is skipped ends the loop (break for continue).
AfterSkipStop == "idle"

AfterSkip == "next"

\* continue: disabled, or not subscribed to the event's symbol.
Skip(k) ==
  /\ Yields(k)
  /\ ~rec[entries[k]].enabled \/ (Readable(entries[k]) /\ ~Wants(entries[k]))
  /\ Advance(k)
  /\ stage' = AfterSkip
  /\ result' = IF AfterSkip = "idle" THEN "done" ELSE result
  /\ UNCHANGED <<dictVars, rec, listVars, cur, event, histVars>>

\* on_trade or on_quote returned nothing.
Quiet(k) ==
  /\ Yields(k) /\ Wants(entries[k])
  /\ Advance(k)
  /\ calls' = Append(calls, entries[k])
  /\ UNCHANGED <<dictVars, rec, listVars, stage, cur, event, result, steady, changed,
                 removed, events, requests>>

\* on_trade or on_quote raised.
Throws(k) ==
  /\ Yields(k) /\ Wants(entries[k])
  /\ Advance(k)
  /\ calls' = Append(calls, entries[k])
  /\ rec' = [rec EXCEPT ![entries[k]].errors = @ + 1]
  /\ UNCHANGED <<dictVars, listVars, stage, cur, event, result, steady, changed,
                 removed, events, requests>>

\* It returned a signal: counted at once, then published.
Signals(k) ==
  /\ Yields(k) /\ Wants(entries[k])
  /\ Advance(k)
  /\ calls' = Append(calls, entries[k])
  /\ cur' = entries[k]
  /\ rec' = [rec EXCEPT ![entries[k]].signals = @ + 1]
  /\ stage' = "broadcast"
  /\ UNCHANGED <<dictVars, listVars, event, result, steady, changed, removed, events,
                 requests>>

After(s) == CASE s = "broadcast" -> "broadcastAll"
              [] s = "broadcastAll" -> "push"
              [] s = "push" -> "trim"
              [] s = "trim" -> "next"

\* ltrim 0 .. Keep - 1.
Trimmed(n) == IF n > Keep THEN Keep ELSE n

\* What the command at the await does to the list, and to the count of its pushes.
ListAfter(n) == IF stage = "push" THEN n + 1 ELSE IF stage = "trim" THEN Trimmed(n) ELSE n

PushesAfter(n) == IF stage = "push" THEN n + 1 ELSE n

\* One of the four awaits of _publish_signal returns.
Published ==
  /\ stage \in Awaits
  /\ stage' = After(stage)
  /\ stored' = [stored EXCEPT ![cur] = ListAfter(@)]
  /\ pushed' = [pushed EXCEPT ![cur] = PushesAfter(@)]
  /\ untrimmed' = [untrimmed EXCEPT ![cur] = IF stage = "trim" THEN 0 ELSE @]
  /\ UNCHANGED <<dictVars, rec, lost, iter, cur, event, result, histVars>>

\* Mutant: a failed publication is not counted.
UncountedError(r) == r

CountedError(r) == [r EXCEPT !.errors = @ + 1]

\* It raises: the except clause counts the error and the loop goes on.
Fails ==
  /\ stage \in Awaits
  /\ stage' = "next"
  /\ rec' = [rec EXCEPT ![cur] = CountedError(@)]
  /\ UNCHANGED <<dictVars, iter, cur, event, result, histVars>>

\* The command never took effect.  A list that was pushed to stays untrimmed until
\* the next signal of the strategy.
NotApplied ==
  /\ Fails
  /\ lost' = [lost EXCEPT ![cur] = IF stage = "trim" THEN @ ELSE @ + 1]
  /\ untrimmed' = [untrimmed EXCEPT ![cur] = IF stage = "trim" THEN @ + 1 ELSE @]
  /\ UNCHANGED <<stored, pushed>>

\* The command took effect and its answer was lost: a signal that is in the list is
\* counted as an error too.
AnswerLost ==
  /\ Fails
  /\ stored' = [stored EXCEPT ![cur] = ListAfter(@)]
  /\ pushed' = [pushed EXCEPT ![cur] = PushesAfter(@)]
  /\ lost' = [lost EXCEPT ![cur] = IF stage \in {"push", "trim"} THEN @ ELSE @ + 1]
  /\ untrimmed' = [untrimmed EXCEPT ![cur] = IF stage = "trim" THEN 0 ELSE PushesAfter(@)]

PublishFails == NotApplied \/ AnswerLost

Dispatch ==
  \/ \E symbol \in Feeds : Begin(symbol)
  \/ EndIteration
  \/ \E k \in DOMAIN entries : Skip(k) \/ Misread(k) \/ Quiet(k) \/ Throws(k) \/ Signals(k)
  \/ Published
  \/ PublishFails

Requests ==
  \E id \in Ids :
    \/ \E symbols \in Subscriptions : Add(id, symbols)
    \/ Remove(id)
    \/ \E active \in BOOLEAN : Patch(id, active)

Next == Dispatch \/ Requests

Spec == Init /\ [][Next]_vars

-------------------------------------------------------------------------------
(* Properties. *)

\* Every variable holds a value of its type.
TypeOK ==
  /\ entries \in Seq(Ids \cup {Hole}) /\ Len(entries) <= room
  /\ room \in Nat
  /\ rec \in [Ids -> Record]
  /\ stored \in [Ids -> Nat] /\ pushed \in [Ids -> Nat] /\ lost \in [Ids -> Nat]
  /\ untrimmed \in [Ids -> Nat]
  /\ stage \in {"idle", "next"} \cup Awaits
  /\ iter \in [pos : Nat, used : Nat, left : Nat]
  /\ cur \in Ids /\ event \in Feeds
  /\ result \in {"none", "done", "raised"}
  /\ calls \in Seq(Ids) /\ steady \subseteq Ids /\ removed \subseteq Ids
  /\ changed \in BOOLEAN /\ events \in 0 .. MaxEvents
  /\ requests \in 0 .. MaxRequests

\* A strategy sees an event at most once, however the dict is changed and rebuilt
\* under the iteration (registry.py 64-76): an indicator fed twice with one trade
\* would stay wrong for ever.
CalledOnce == \A j, k \in DOMAIN calls : j # k => calls[j] # calls[k]

Called(id) == \E k \in DOMAIN calls : calls[k] = id

\* When nothing was added or removed meanwhile, a dispatch that ends normally has
\* reached every strategy that stayed enabled and subscribed, whatever the others
\* did in their handlers: raise, lose their signal, be disabled.  Only a strategy whose
\* symbols cannot be searched stops it (registry.py 68-70, outside the try).
UndisturbedReachesAll ==
  stage = "idle" /\ events > 0 /\ ~changed =>
    \/ result = "done" /\ \A id \in steady : Called(id)
    \/ result = "raised" /\ \E id \in Live : ~Readable(id)

\* A strategy whose removal was answered is not called any more, not even by the
\* dispatch that was under way (lab.py 133-141).
NotCalledOnceRemoved ==
  [][\A id \in removed : Called(id)' => Called(id)]_vars

\* Every signal that was counted is in the list, was lost with an error counted for
\* it, or is still being published (registry.py 74-79), whether a command that raised
\* had taken effect or not.  The list holds at most Keep of them between publications,
\* but for those pushed since the last trim by publications that failed at the push
\* or before the trim, each of which has an error of its own (113-114).
SignalsAccounted ==
  \A id \in Ids :
    /\ rec[id].signals = pushed[id] + lost[id]
         + (IF cur = id /\ stage \in Awaits \ {"trim"} THEN 1 ELSE 0)
    /\ rec[id].errors >= lost[id] + untrimmed[id]
    /\ stored[id] <= pushed[id]
    /\ stored[id] <= Keep + untrimmed[id]
                    + (IF cur = id /\ stage = "trim" THEN 1 ELSE 0)

(* What a comment promises and the code does not do. *)

\* registry.py:3: each registered strategy receives market events from the feed.
EveryStrategyReceives ==
  stage = "idle" => \A id \in steady : Called(id)

===============================================================================
