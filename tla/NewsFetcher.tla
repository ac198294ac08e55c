---------------------------- MODULE NewsFetcher ----------------------------
(***************************************************************************)
(* The news aggregator (market_data/news_fetcher.py).  A cycle reads every *)
(* source, writes four lists to Redis one after another, and publishes the *)
(* hot items it has not seen before.  Any await may raise, which ends the  *)
(* cycle; a command that raises may have taken effect.  An item is its id  *)
(* (a hash of the link) and its impact.                                    *)
(***************************************************************************)
EXTENDS Naturals, Sequences, SequencesExt, FiniteSetsExt

CONSTANTS
    Ids,
    Sources,
    Weight,         \* base_weight of each source
    Pages,          \* what a source may answer: sequences of [id, hot, warm]
    NoLink,         \* the id of an entry without a title or a link
    PerPage,        \* entries read of a page: 20 in the code
    ListMax,        \* the length of news:all: 200 in the code
    SeenMax, SeenKeep,  \* 5000 and 2000 in the code
    MaxCycles, MaxLives     \* bounds of the model

ASSUME NewsAssumption ==
    /\ NoLink \notin Ids /\ IsFiniteSet(Ids) /\ IsFiniteSet(Sources)
    /\ Pages \subseteq Seq([id : Ids \union {NoLink}, hot : Nat, warm : Nat])
    /\ Weight \in [Sources -> 1 .. 3]
    /\ {PerPage, ListMax, SeenMax, SeenKeep} \subseteq Nat
    /\ SeenKeep <= SeenMax /\ MaxCycles \in Nat /\ MaxLives \in Nat \ {0}
    /\ Cardinality(Sources) * PerPage <= ListMax     \* 8 * 20 and 200 in the code

VARIABLES
    running,    \* _running
    phase,      \* "idle", a key to be written, or "push"
    items,      \* items of the cycle, newest first
    next,       \* the index in items of the push loop
    seen,       \* _seen
    keys,       \* the four keys of Redis: the cycle that wrote them, and the list
    cycle,      \* number of cycles begun: history
    ended,      \* how the last cycle ended: history
    pushes,     \* how often each id was published in this life: history
    excuses,    \* how often it may have been again: history
    quiet,      \* the ids seen when they were not hot: history
    lives

news == <<running, phase, items, next, seen, keys, cycle, ended, pushes, excuses, quiet, lives>>

Keys == <<"all", "HOT", "WARM", "COLD">>
Absent == [cycle |-> 0, list |-> <<>>]
Zero == [i \in Ids |-> 0]

Init ==
    /\ running = TRUE /\ phase = "idle" /\ items = <<>> /\ next = 1
    /\ seen = {} /\ cycle = 0 /\ ended = "none" /\ lives = 1
    /\ keys = [k \in ToSet(Keys) |-> Absent]
    /\ pushes = Zero /\ excuses = Zero /\ quiet = {}

-----------------------------------------------------------------------------
(* Reading the sources *)

ClassifyImpact(hot, warm, weight) ==
    IF hot >= 1 THEN "HOT"
    ELSE IF warm >= 2 \/ (weight >= 2 /\ warm >= 1) THEN "WARM"
    ELSE "COLD"

\* What the sources answered, by place: the entries that are read, of the first
\* PerPage of a page those with a title and a link.  A source that fails, or whose
\* text is no XML, counts as an empty page.
Entries(page) ==
    {e \in Sources \X (1 .. PerPage) :
        e[2] <= Len(page[e[1]]) /\ page[e[1]][e[2]].id # NoLink}

ItemOf(page, e) ==
    LET entry == page[e[1]][e[2]]
    IN  [id |-> entry.id, impact |-> ClassifyImpact(entry.hot, entry.warm, Weight[e[1]])]

\* gather() and the sort.  The dates, which order the items, are whatever the
\* sources say.
Fetched(page) ==
    LET E == Entries(page)
        places == 1 .. Cardinality(E)
    IN  {[n \in places |-> ItemOf(page, order[n])] :
            order \in {q \in [places -> E] : \A m, n \in places : m # n => q[m] # q[n]}}

-----------------------------------------------------------------------------
(* The cycle *)

End(how) == phase' = "idle" /\ ended' = how /\ items' = <<>> /\ next' = 1

\* _fetch_all up to its first write.
Gather ==
    /\ phase = "idle" /\ running /\ cycle < MaxCycles
    /\ cycle' = cycle + 1
    /\ \E page \in [Sources -> Pages \union {<<>>}] : \E found \in Fetched(page) :
        IF found = <<>> THEN End("empty")
        ELSE items' = found /\ phase' = "all" /\ UNCHANGED <<next, ended>>
    /\ UNCHANGED <<running, seen, keys, pushes, excuses, quiet, lives>>

\* The items of a list that have an impact, in their order.
OfImpact(list, k) ==
    LET places == {n \in DOMAIN list : list[n].impact = k}
        Nth(m) == CHOOSE n \in places : Cardinality({j \in places : j <= n}) = m
    IN  [m \in 1 .. Cardinality(places) |-> list[Nth(m)]]

ListFor(k) ==
    IF k = "all" THEN SubSeq(items, 1, IF Len(items) < ListMax THEN Len(items) ELSE ListMax)
    ELSE OfImpact(items, k)

\* Mutant: an empty list is not written, and the one before it stays.
WrittenIfAny == keys' = IF ListFor(phase) = <<>> THEN keys
                        ELSE [keys EXCEPT ![phase] = [cycle |-> cycle, list |-> ListFor(phase)]]

\* setex of the key the cycle has come to.
Written == keys' = [keys EXCEPT ![phase] = [cycle |-> cycle, list |-> ListFor(phase)]]

Store ==
    /\ phase \in ToSet(Keys)
    /\ Written
    /\ phase' = IF phase = "COLD" THEN "push"
                ELSE Keys[1 + CHOOSE n \in 1 .. 3 : Keys[n] = phase]
    /\ UNCHANGED <<running, items, next, seen, cycle, ended, pushes, excuses, quiet, lives>>

StoreFails ==
    /\ phase \in ToSet(Keys)
    /\ Written \/ UNCHANGED keys
    /\ End("failed")
    /\ UNCHANGED <<running, seen, cycle, pushes, excuses, quiet, lives>>

ToPush == phase = "push" /\ next <= Len(items)

IsNews(i) == i.impact = "HOT" /\ i.id \notin seen
Pushed(id) == pushes' = [pushes EXCEPT ![id] = @ + 1]

\* Mutant: the id is noted before the publish, which may fail.
NotedFirst(id) == seen \union {id}

\* An id whose publish raised is not noted.
NotNoted(id) == seen

Push ==
    /\ ToPush /\ IsNews(items[next])
    /\ Pushed(items[next].id)
    /\ seen' = seen \union {items[next].id}
    /\ next' = next + 1
    /\ UNCHANGED <<running, phase, items, keys, cycle, ended, excuses, quiet, lives>>

PushFails ==
    /\ ToPush /\ IsNews(items[next])
    /\ \/ UNCHANGED <<pushes, excuses>>
       \/ Pushed(items[next].id) /\ excuses' = [excuses EXCEPT ![items[next].id] = @ + 1]
    /\ End("failed")
    /\ seen' = NotNoted(items[next].id)
    /\ UNCHANGED <<running, keys, cycle, quiet, lives>>

\* An item that is not hot, or not new, is only noted.
Note ==
    /\ ToPush /\ ~IsNews(items[next])
    /\ seen' = seen \union {items[next].id}
    /\ quiet' = IF items[next].impact = "HOT" THEN quiet ELSE quiet \union {items[next].id}
    /\ next' = next + 1
    /\ UNCHANGED <<running, phase, items, keys, cycle, ended, pushes, excuses, lives>>

\* Mutant: the set only grows.
NeverTooMany == FALSE

TooMany == Cardinality(seen) > SeenMax

\* The end of the loop: a set too large is cut to some of its members.
Finish ==
    /\ phase = "push" /\ next > Len(items)
    /\ IF TooMany
       THEN seen' \in kSubset(SeenKeep, seen)
       ELSE UNCHANGED seen
    /\ excuses' = [i \in Ids |-> excuses[i] + (IF i \in seen \ seen' THEN 1 ELSE 0)]
    /\ End("done")
    /\ UNCHANGED <<running, keys, cycle, pushes, quiet, lives>>

\* A key lapses 300 seconds after it was written: at any time, as nothing bounds
\* how long a cycle waits for the sources and for Redis.
Expire(k) ==
    /\ keys[k].cycle > 0
    /\ keys' = [keys EXCEPT ![k] = Absent]
    /\ UNCHANGED <<running, phase, items, next, seen, cycle, ended, pushes, excuses, quiet, lives>>

\* stop() is seen by the loop after the cycle and its pause.
Stop ==
    /\ running
    /\ running' = FALSE
    /\ UNCHANGED <<phase, items, next, seen, keys, cycle, ended, pushes, excuses, quiet, lives>>

\* A new process, after a stop or a crash: the set is empty, the keys are there.
Restart ==
    /\ lives < MaxLives
    /\ lives' = lives + 1
    /\ running' = TRUE
    /\ End("none")
    /\ seen' = {} /\ pushes' = Zero /\ excuses' = Zero /\ quiet' = {}
    /\ UNCHANGED <<keys, cycle>>

Next ==
    \/ Gather \/ Store \/ StoreFails \/ Push \/ PushFails \/ Note \/ Finish
    \/ \E k \in ToSet(Keys) : Expire(k)
    \/ Stop \/ Restart

Spec == Init /\ [][Next]_news

-----------------------------------------------------------------------------

Item == [id : Ids, impact : {"HOT", "WARM", "COLD"}]

\* Every variable holds a value of its type, the loop is within the items, and the
\* set of ids within its bound after every cycle that came to its end
\* (news_fetcher.py:186-188); a cycle that failed may leave it larger.
TypeOK ==
    /\ running \in BOOLEAN
    /\ phase \in {"idle", "push"} \union ToSet(Keys)
    /\ ToSet(items) \subseteq Item /\ next \in 1 .. Len(items) + 1
    /\ seen \subseteq Ids /\ quiet \subseteq Ids
    /\ \A k \in ToSet(Keys) : keys[k].cycle \in 0 .. cycle /\ ToSet(keys[k].list) \subseteq Item
    /\ cycle \in 0 .. MaxCycles /\ lives \in 1 .. MaxLives
    /\ ended \in {"none", "empty", "failed", "done"}
    /\ pushes \in [Ids -> Nat] /\ excuses \in [Ids -> Nat]
    /\ ended = "done" /\ phase = "idle" => Cardinality(seen) <= SeenMax

\* No hot item is taken for known without having been published: what failed is
\* tried again by the next cycle.  And none is published twice in a process, but
\* for a publish that raised after it had taken effect and for an id cut from the
\* set (news_fetcher.py:135, 181-188).
PushedOnce ==
    /\ \A i \in seen : pushes[i] > 0 \/ i \in quiet
    /\ \A i \in Ids : pushes[i] <= 1 + excuses[i]

\* Whatever failed, a list is never of a later cycle than the one written before
\* it, and lists of one cycle agree: each holds the items of its impact.  From the
\* first item that is pushed to the end of the cycle, no list of an earlier cycle is
\* left: a client that is told of an item and reloads finds it, unless the list has
\* expired (news_fetcher.py:171-183).
KeysInStep ==
    /\ \A n \in 2 .. 4 :
           LET all == keys["all"]
               this == keys[Keys[n]]
           IN  /\ all.cycle > 0 => this.cycle <= all.cycle
               /\ this.cycle > 0 /\ this.cycle = all.cycle =>
                      this.list = OfImpact(all.list, Keys[n])
    /\ phase = "push" \/ (ended = "done" /\ phase = "idle") =>
           \A k \in ToSet(Keys) : keys[k].cycle \in {0, cycle}
=============================================================================
