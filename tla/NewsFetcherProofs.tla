-------------------------- MODULE NewsFetcherProofs --------------------------
(***************************************************************************)
(* Theorems about NewsFetcher, for any sources, pages and bounds of the    *)
(* lists.                                                                  *)
(***************************************************************************)
EXTENDS NewsFetcher, FiniteSetTheorems, TLAPS

KeySet == {"all", "HOT", "WARM", "COLD"}

LEMMA KeysAre ==
    /\ ToSet(Keys) = KeySet
    /\ Keys[1] = "all" /\ Keys[2] = "HOT" /\ Keys[3] = "WARM" /\ Keys[4] = "COLD"
  <1>1. DOMAIN Keys = 1 .. 4
    BY DEF Keys
  <1>2. Keys[1] = "all" /\ Keys[2] = "HOT" /\ Keys[3] = "WARM" /\ Keys[4] = "COLD"
    BY DEF Keys
  <1>3. 1 .. 4 = {1, 2, 3, 4}
    OBVIOUS
  <1> QED
    BY <1>1, <1>2, <1>3 DEF ToSet, KeySet

\* The key written after each key.
LEMMA NextKey ==
  ASSUME NEW k \in {"all", "HOT", "WARM"}
  PROVE  Keys[1 + CHOOSE n \in 1 .. 3 : Keys[n] = k] =
           IF k = "all" THEN "HOT" ELSE IF k = "HOT" THEN "WARM" ELSE "COLD"
  <1> DEFINE c == CHOOSE n \in 1 .. 3 : Keys[n] = k
  <1>1. \E n \in 1 .. 3 : Keys[n] = k
    BY KeysAre
  <1>2. c \in 1 .. 3 /\ Keys[c] = k
    BY <1>1
  <1> HIDE DEF c
  <1>3. c = IF k = "all" THEN 1 ELSE IF k = "HOT" THEN 2 ELSE 3
    BY <1>2, KeysAre
  <1>4. Keys[1 + c] = IF k = "all" THEN "HOT" ELSE IF k = "HOT" THEN "WARM" ELSE "COLD"
    BY <1>3, KeysAre
  <1> QED
    BY <1>4 DEF c

LEMMA ConstantTypes ==
    /\ NoLink \notin Ids /\ IsFiniteSet(Ids) /\ IsFiniteSet(Sources)
    /\ PerPage \in Nat /\ ListMax \in Nat /\ SeenMax \in Nat /\ SeenKeep \in Nat
    /\ SeenKeep <= SeenMax /\ MaxCycles \in Nat /\ MaxLives \in Nat \ {0}
    /\ Cardinality(Sources) * PerPage <= ListMax
  BY NewsAssumption

-----------------------------------------------------------------------------
(* What a cycle reads and writes. *)

\* The places of a set of numbers are counted without a gap: every rank up to the
\* number of its members is taken.
LEMMA RanksTaken ==
  ASSUME NEW S \in SUBSET Nat, IsFiniteSet(S), NEW m \in 1 .. Cardinality(S)
  PROVE  \E n \in S : Cardinality({j \in S : j <= n}) = m
  <1> DEFINE N == Cardinality(S)
             Up(n) == {j \in S : j <= n}
             r == [n \in S |-> Cardinality(Up(n))]
  <1>1. N \in Nat
    BY FS_CardinalityType
  <1>2. ASSUME NEW n \in S
        PROVE  IsFiniteSet(Up(n)) /\ Cardinality(Up(n)) \in 1 .. N
    <2>1. Up(n) \in SUBSET S /\ n \in Up(n)
      OBVIOUS
    <2>2. IsFiniteSet(Up(n)) /\ Cardinality(Up(n)) <= N
      BY <2>1, FS_Subset
    <2>3. Cardinality(Up(n)) \in Nat /\ Cardinality(Up(n)) # 0
      BY <2>1, <2>2, FS_CardinalityType, FS_EmptySet
    <2> QED
      BY <1>1, <2>2, <2>3
  <1>3. ASSUME NEW a \in S, NEW b \in S, a < b
        PROVE  Cardinality(Up(a)) < Cardinality(Up(b))
    <2>1. Up(a) \in SUBSET (Up(b) \ {b}) /\ b \in Up(b)
      <3>1. a \in Nat /\ b \in Nat
        OBVIOUS
      <3>2. \A j \in S : j <= a => j <= b /\ j # b
        BY <1>3, <3>1
      <3>3. b \in Up(b)
        BY <3>1
      <3>4. \A j \in Up(a) : j \in Up(b) \ {b}
        BY <3>2
      <3> QED
        BY <3>3, <3>4
    <2>2. IsFiniteSet(Up(b) \ {b}) /\ Cardinality(Up(b) \ {b}) = Cardinality(Up(b)) - 1
      BY <1>2, <2>1, FS_RemoveElement
    <2>3. Cardinality(Up(a)) <= Cardinality(Up(b) \ {b})
      BY <2>1, <2>2, FS_Subset
    <2>4. Cardinality(Up(a)) \in Nat /\ Cardinality(Up(b)) \in Nat
      BY <1>2, FS_CardinalityType
    <2> HIDE DEF Up
    <2> QED
      BY <2>2, <2>3, <2>4
  <1>4. r \in [S -> 1 .. N]
    BY <1>2
  <1>5. \A a, b \in S : r[a] = r[b] => a = b
    <2> SUFFICES ASSUME NEW a \in S, NEW b \in S, r[a] = r[b], a # b PROVE FALSE
      OBVIOUS
    <2>1. a < b \/ b < a
      OBVIOUS
    <2>2. Cardinality(Up(a)) \in Nat /\ Cardinality(Up(b)) \in Nat
      BY <1>1, <1>2
    <2>3. Cardinality(Up(a)) = Cardinality(Up(b))
      OBVIOUS
    <2> HIDE DEF Up, r
    <2> QED
      BY <1>3, <2>1, <2>2, <2>3
  <1>6. r \in Injection(S, 1 .. N)
    BY <1>4, <1>5 DEF Injection, IsInjective
  <1>7. IsFiniteSet(1 .. N) /\ Cardinality(1 .. N) = N
    BY <1>1, FS_Interval
  <1>8. r \in Surjection(S, 1 .. N)
    BY <1>6, <1>7, FS_Injection
  <1>9. \E n \in S : r[n] = m
    BY <1>8 DEF Surjection
  <1> QED
    BY <1>9

LEMMA OfImpactType ==
  ASSUME NEW list \in Seq(Item), NEW k PROVE OfImpact(list, k) \in Seq(Item)
  <1> DEFINE places == {n \in DOMAIN list : list[n].impact = k}
             Up(n) == {j \in places : j <= n}
             Nth(m) == CHOOSE n \in places : Cardinality(Up(n)) = m
  <1>1. DOMAIN list = 1 .. Len(list) /\ Len(list) \in Nat
    OBVIOUS
  <1>2. places \in SUBSET (1 .. Len(list)) /\ places \in SUBSET Nat
    BY <1>1
  <1>3. IsFiniteSet(places) /\ Cardinality(places) \in Nat
    <2>1. IsFiniteSet(1 .. Len(list))
      BY <1>1, FS_Interval
    <2> HIDE DEF places
    <2>2. IsFiniteSet(places)
      BY <1>2, <2>1, FS_Subset
    <2> QED
      BY <2>2, FS_CardinalityType
  <1>4. ASSUME NEW m \in 1 .. Cardinality(places)
        PROVE  Nth(m) \in places
    <2>1. \E n \in places : Cardinality(Up(n)) = m
      BY <1>2, <1>3, <1>4, RanksTaken
    <2> QED
      BY <2>1
  <1>5. \A m \in 1 .. Cardinality(places) : list[Nth(m)] \in Item
    <2>1. \A n \in places : list[n] \in Item
      BY <1>2
    <2> HIDE DEF places, Nth
    <2> QED
      BY <1>4, <2>1
  <1>6. OfImpact(list, k) = [m \in 1 .. Cardinality(places) |-> list[Nth(m)]]
    BY DEF OfImpact
  <1> HIDE DEF places, Nth
  <1> QED
    BY <1>3, <1>5, <1>6

LEMMA EntriesFinite ==
  ASSUME NEW page
  PROVE  /\ IsFiniteSet(Entries(page)) /\ Cardinality(Entries(page)) \in Nat
         /\ Cardinality(Entries(page)) <= ListMax
  <1>1. IsFiniteSet(1 .. PerPage) /\ Cardinality(1 .. PerPage) = PerPage
    BY ConstantTypes, FS_Interval
  <1>2. /\ IsFiniteSet(Sources \X (1 .. PerPage))
        /\ Cardinality(Sources \X (1 .. PerPage)) = Cardinality(Sources) * PerPage
    BY <1>1, ConstantTypes, FS_Product
  <1>3. Entries(page) \in SUBSET (Sources \X (1 .. PerPage))
    BY DEF Entries
  <1>4. /\ IsFiniteSet(Entries(page))
        /\ Cardinality(Entries(page)) <= Cardinality(Sources \X (1 .. PerPage))
    BY <1>2, <1>3, FS_Subset
  <1>5. Cardinality(Entries(page)) \in Nat /\ Cardinality(Sources \X (1 .. PerPage)) \in Nat
    BY <1>2, <1>4, FS_CardinalityType
  <1> QED
    BY <1>2, <1>4, <1>5, ConstantTypes

LEMMA ItemType ==
  ASSUME NEW page \in [Sources -> Pages \union {<<>>}], NEW e \in Entries(page)
  PROVE  ItemOf(page, e) \in Item
  <1>1. e[1] \in Sources /\ e[2] \in 1 .. PerPage /\ e[2] <= Len(page[e[1]])
        /\ page[e[1]][e[2]].id # NoLink
    BY DEF Entries
  <1> DEFINE Raw == [id : Ids \union {NoLink}, hot : Nat, warm : Nat]
  <1>2. Pages \subseteq Seq(Raw)
    BY NewsAssumption
  <1>3. page[e[1]][e[2]] \in Raw
    <2> HIDE DEF Raw
    <2>1. page[e[1]] \in Seq(Raw)
      BY <1>1, <1>2
    <2>2. e[2] \in 1 .. Len(page[e[1]])
      BY <1>1, <2>1, ConstantTypes
    <2> QED
      BY <2>1, <2>2
  <1>4. page[e[1]][e[2]].id \in Ids
    BY <1>1, <1>3
  <1> QED
    BY <1>4 DEF ItemOf, Item, ClassifyImpact

LEMMA FetchedType ==
  ASSUME NEW page \in [Sources -> Pages \union {<<>>}], NEW found \in Fetched(page)
  PROVE  found \in Seq(Item) /\ Len(found) <= ListMax
  <1> DEFINE places == 1 .. Cardinality(Entries(page))
  <1>1. PICK order \in [places -> Entries(page)] : found = [n \in places |-> ItemOf(page, order[n])]
    BY DEF Fetched
  <1>2. \A n \in places : ItemOf(page, order[n]) \in Item
    BY <1>1, ItemType
  <1> QED
    BY <1>1, <1>2, EntriesFinite

-----------------------------------------------------------------------------
(* The types. *)

Key == [cycle : Nat, list : Seq(Item)]

TypeInv ==
    /\ running \in BOOLEAN
    /\ phase \in {"idle", "push"} \union KeySet
    /\ items \in Seq(Item) /\ Len(items) <= ListMax /\ next \in 1 .. Len(items) + 1
    /\ seen \subseteq Ids /\ quiet \subseteq Ids
    /\ keys \in [KeySet -> Key] /\ \A k \in KeySet : keys[k].cycle <= cycle
    /\ cycle \in 0 .. MaxCycles /\ lives \in 1 .. MaxLives
    /\ ended \in {"none", "empty", "failed", "done"}
    /\ pushes \in [Ids -> Nat] /\ excuses \in [Ids -> Nat]
    /\ ended = "done" /\ phase = "idle" => Cardinality(seen) <= SeenMax
    /\ phase = "idle" => next = 1

LEMMA TypeInit == Init => TypeInv
  <1> SUFFICES ASSUME Init PROVE TypeInv
    OBVIOUS
  <1>1. keys \in [KeySet -> Key] /\ \A k \in KeySet : keys[k].cycle <= cycle
    BY KeysAre DEF Init, Absent, Key
  <1> QED
    BY <1>1, ConstantTypes DEF Init, TypeInv, Zero

LEMMA EndTypes ==
  ASSUME NEW how \in {"none", "empty", "failed", "done"}, End(how)
  PROVE  /\ phase' = "idle" /\ ended' = how /\ items' \in Seq(Item) /\ Len(items') <= ListMax
         /\ next' \in 1 .. Len(items') + 1 /\ next' = 1
  BY ConstantTypes DEF End

LEMMA ListForType ==
  ASSUME TypeInv, NEW k \in KeySet
  PROVE  /\ ListFor(k) \in Seq(Item)
         /\ ListFor("all") = items
         /\ k # "all" => ListFor(k) = OfImpact(items, k)
  <1>1. items \in Seq(Item) /\ Len(items) <= ListMax
    BY DEF TypeInv
  <1>2. ListFor("all") = SubSeq(items, 1, Len(items))
    BY <1>1, ConstantTypes DEF ListFor
  <1>3. SubSeq(items, 1, Len(items)) = items
    BY <1>1
  <1>4. CASE k = "all"
    BY <1>1, <1>2, <1>3, <1>4
  <1>5. CASE k # "all"
    BY <1>1, <1>2, <1>3, <1>5, OfImpactType DEF ListFor
  <1> QED
    BY <1>4, <1>5

LEMMA WrittenType ==
  ASSUME TypeInv, phase \in KeySet, Written
  PROVE  /\ keys' \in [KeySet -> Key] /\ \A k \in KeySet : keys'[k].cycle <= cycle
         /\ keys'[phase] = [cycle |-> cycle, list |-> ListFor(phase)]
         /\ \A k \in KeySet \ {phase} : keys'[k] = keys[k]
  <1> DEFINE new == [cycle |-> cycle, list |-> ListFor(phase)]
  <1>1. keys \in [KeySet -> Key] /\ (\A k \in KeySet : keys[k].cycle <= cycle) /\ cycle \in Nat
    BY DEF TypeInv
  <1>2. new \in Key /\ new.cycle = cycle
    BY <1>1, ListForType DEF Key
  <1>3. keys' = [keys EXCEPT ![phase] = new]
    BY DEF Written
  <1> HIDE DEF new
  <1> QED
    BY <1>1, <1>2, <1>3 DEF new

\* What the set of ids becomes at the end of a cycle.
LEMMA CutTypes ==
  ASSUME TypeInv, Finish
  PROVE  seen' \subseteq seen /\ Cardinality(seen') <= SeenMax
  <1>1. IsFiniteSet(seen) /\ Cardinality(seen) \in Nat
    BY ConstantTypes, FS_Subset, FS_CardinalityType DEF TypeInv
  <1>2. CASE TooMany
    BY <1>2, ConstantTypes DEF Finish, kSubset
  <1>3. CASE ~TooMany
    BY <1>1, <1>3, ConstantTypes DEF Finish, TooMany
  <1> QED
    BY <1>2, <1>3

LEMMA TypeNext == TypeInv /\ [Next]_news => TypeInv'
  <1> SUFFICES ASSUME TypeInv, [Next]_news PROVE TypeInv'
    OBVIOUS
  <1> USE DEF TypeInv
  <1>1. CASE UNCHANGED news
    BY <1>1 DEF news
  <1>2. CASE Gather
    <2>0. PICK page \in [Sources -> Pages \union {<<>>}] : \E found \in Fetched(page) :
            IF found = <<>> THEN End("empty")
            ELSE items' = found /\ phase' = "all" /\ UNCHANGED <<next, ended>>
      BY <1>2 DEF Gather
    <2>1. PICK found \in Fetched(page) :
            IF found = <<>> THEN End("empty")
            ELSE items' = found /\ phase' = "all" /\ UNCHANGED <<next, ended>>
      BY <2>0
    <2>2. /\ UNCHANGED <<running, seen, keys, pushes, excuses, quiet, lives>>
          /\ cycle' = cycle + 1 /\ cycle < MaxCycles /\ phase = "idle"
      BY <1>2 DEF Gather
    <2>3. cycle' \in 0 .. MaxCycles /\ \A k \in KeySet : keys'[k].cycle <= cycle'
      BY <2>2, ConstantTypes DEF Key
    <2>4. CASE found = <<>>
      <3>1. /\ phase' = "idle" /\ ended' = "empty" /\ items' \in Seq(Item) /\ Len(items') <= ListMax
            /\ next' \in 1 .. Len(items') + 1 /\ next' = 1
        BY <2>1, <2>4, EndTypes
      <3> QED
        BY <2>2, <2>3, <3>1
    <2>5. CASE found # <<>>
      <3>1. items' \in Seq(Item) /\ Len(items') <= ListMax /\ phase' = "all"
            /\ UNCHANGED <<next, ended>>
        BY <2>1, <2>5, FetchedType
      <3>2. phase' \in {"idle", "push"} \union KeySet /\ phase' # "idle"
        BY <3>1 DEF KeySet
      <3>3. next' \in 1 .. Len(items') + 1
        <4>1. next' = 1
          BY <2>2, <3>1
        <4> QED
          BY <3>1, <4>1
      <3> QED
        BY <2>2, <2>3, <3>1, <3>2, <3>3
    <2> QED
      BY <2>4, <2>5
  <1>3. CASE Store
    <2>1. /\ phase \in KeySet /\ Written
          /\ UNCHANGED <<running, items, next, seen, cycle, ended, pushes, excuses, quiet, lives>>
      BY <1>3, KeysAre DEF Store
    <2>2. phase' \in {"push"} \union KeySet
      <3>1. CASE phase = "COLD"
        BY <1>3, <3>1 DEF Store
      <3>2. CASE phase # "COLD"
        <4>1. phase \in {"all", "HOT", "WARM"}
          BY <2>1, <3>2 DEF KeySet
        <4>2. phase' = Keys[1 + CHOOSE n \in 1 .. 3 : Keys[n] = phase]
          BY <1>3, <3>2 DEF Store
        <4> QED
          BY <4>1, <4>2, NextKey DEF KeySet
      <3> QED
        BY <3>1, <3>2
    <2>3. keys' \in [KeySet -> Key] /\ \A k \in KeySet : keys'[k].cycle <= cycle
      BY <2>1, WrittenType
    <2>4. phase' # "idle"
      BY <2>2 DEF KeySet
    <2> QED
      BY <2>1, <2>2, <2>3, <2>4
  <1>4. CASE StoreFails
    <2>1. /\ phase \in KeySet /\ (Written \/ UNCHANGED keys) /\ End("failed")
          /\ UNCHANGED <<running, seen, cycle, pushes, excuses, quiet, lives>>
      BY <1>4, KeysAre DEF StoreFails
    <2>2. keys' \in [KeySet -> Key] /\ \A k \in KeySet : keys'[k].cycle <= cycle
      BY <2>1, WrittenType
    <2>3. /\ phase' = "idle" /\ ended' = "failed" /\ items' \in Seq(Item) /\ Len(items') <= ListMax
          /\ next' \in 1 .. Len(items') + 1 /\ next' = 1
      BY <2>1, EndTypes
    <2> QED
      BY <2>1, <2>2, <2>3
  <1>5. ASSUME ToPush
        PROVE  items[next] \in Item /\ items[next].id \in Ids /\ next + 1 \in 1 .. Len(items) + 1
    <2>1. next \in 1 .. Len(items)
      BY <1>5 DEF ToPush
    <2>2. items[next] \in Item
      BY <2>1
    <2> QED
      BY <2>1, <2>2 DEF Item
  <1>6. CASE Push
    <2>1. ToPush /\ Pushed(items[next].id) /\ seen' = seen \union {items[next].id}
          /\ next' = next + 1 /\ phase = "push"
          /\ UNCHANGED <<running, phase, items, keys, cycle, ended, excuses, quiet, lives>>
      BY <1>6 DEF Push, ToPush
    <2>2. pushes' \in [Ids -> Nat]
      BY <1>5, <2>1 DEF Pushed
    <2> QED
      BY <1>5, <2>1, <2>2
  <1>7. CASE PushFails
    <2>1. ToPush /\ End("failed") /\ seen' = seen
          /\ UNCHANGED <<running, keys, cycle, quiet, lives>>
          /\ \/ UNCHANGED <<pushes, excuses>>
             \/ Pushed(items[next].id) /\ excuses' = [excuses EXCEPT ![items[next].id] = @ + 1]
      BY <1>7 DEF PushFails, NotNoted
    <2>2. pushes' \in [Ids -> Nat] /\ excuses' \in [Ids -> Nat]
      <3>1. CASE UNCHANGED <<pushes, excuses>>
        BY <3>1
      <3>2. CASE Pushed(items[next].id) /\ excuses' = [excuses EXCEPT ![items[next].id] = @ + 1]
        <4>1. PICK id \in Ids : id = items[next].id
          BY <1>5, <2>1
        <4>2. pushes' = [pushes EXCEPT ![id] = @ + 1] /\ excuses' = [excuses EXCEPT ![id] = @ + 1]
          BY <3>2, <4>1 DEF Pushed
        <4> QED
          BY <4>1, <4>2
      <3> QED
        BY <2>1, <3>1, <3>2
    <2>3. /\ phase' = "idle" /\ ended' = "failed" /\ items' \in Seq(Item) /\ Len(items') <= ListMax
          /\ next' \in 1 .. Len(items') + 1 /\ next' = 1
      BY <2>1, EndTypes
    <2> QED
      BY <2>1, <2>2, <2>3
  <1>8. CASE Note
    <2>1. ToPush /\ seen' = seen \union {items[next].id} /\ next' = next + 1 /\ phase = "push"
          /\ quiet' \in {quiet, quiet \union {items[next].id}}
          /\ UNCHANGED <<running, phase, items, keys, cycle, ended, pushes, excuses, lives>>
      BY <1>8 DEF Note, ToPush
    <2> QED
      BY <1>5, <2>1
  <1>9. CASE Finish
    <2>1. seen' \subseteq seen /\ Cardinality(seen') <= SeenMax
      BY <1>9, CutTypes
    <2>2. End("done") /\ UNCHANGED <<running, keys, cycle, pushes, quiet, lives>>
          /\ excuses' = [i \in Ids |-> excuses[i] + (IF i \in seen \ seen' THEN 1 ELSE 0)]
      BY <1>9 DEF Finish
    <2>3. /\ phase' = "idle" /\ ended' = "done" /\ items' \in Seq(Item) /\ Len(items') <= ListMax
          /\ next' \in 1 .. Len(items') + 1 /\ next' = 1
      BY <2>2, EndTypes
    <2>4. excuses' \in [Ids -> Nat]
      BY <2>2
    <2> QED
      BY <2>1, <2>2, <2>3, <2>4
  <1>10. ASSUME NEW k \in KeySet, Expire(k) PROVE TypeInv'
    <2>1. keys' = [keys EXCEPT ![k] = Absent]
          /\ UNCHANGED <<running, phase, items, next, seen, cycle, ended, pushes, excuses, quiet, lives>>
      BY <1>10 DEF Expire
    <2>2. Absent \in Key /\ Absent.cycle = 0
      BY DEF Absent, Key
    <2>3. keys' \in [KeySet -> Key] /\ \A j \in KeySet : keys'[j].cycle <= cycle
      BY <2>1, <2>2, ConstantTypes
    <2> QED
      BY <2>1, <2>3
  <1>11. CASE Stop
    BY <1>11 DEF Stop
  <1>12. CASE Restart
    <2>1. End("none") /\ UNCHANGED <<keys, cycle>> /\ running' = TRUE
          /\ lives' = lives + 1 /\ lives < MaxLives
          /\ seen' = {} /\ pushes' = Zero /\ excuses' = Zero /\ quiet' = {}
      BY <1>12 DEF Restart
    <2>2. /\ phase' = "idle" /\ ended' = "none" /\ items' \in Seq(Item) /\ Len(items') <= ListMax
          /\ next' \in 1 .. Len(items') + 1 /\ next' = 1
      BY <2>1, EndTypes
    <2> QED
      BY <2>1, <2>2, ConstantTypes DEF Zero
  <1> QED
    BY <1>1, <1>2, <1>3, <1>4, <1>6, <1>7, <1>8, <1>9, <1>10, <1>11, <1>12, KeysAre DEF Next

\* Whatever the sources answer and whatever fails, the loop stays within the items,
\* the lists hold items, and a cycle that comes to its end leaves the set of ids
\* within its bound.
THEOREM NewsTypes == Spec => []TypeOK
  <1>1. TypeInv => TypeOK
    <2> SUFFICES ASSUME TypeInv PROVE TypeOK
      OBVIOUS
    <2>1. ToSet(items) \subseteq Item
      BY DEF TypeInv, ToSet
    <2>2. \A k \in KeySet : keys[k].cycle \in 0 .. cycle /\ ToSet(keys[k].list) \subseteq Item
      BY DEF TypeInv, Key, ToSet
    <2> QED
      BY <2>1, <2>2, KeysAre DEF TypeInv, TypeOK
  <1> QED
    BY <1>1, TypeInit, TypeNext, PTL DEF Spec

-----------------------------------------------------------------------------
(* No hot item is lost, and none told twice without a failure to blame. *)

PushInv ==
    /\ \A i \in seen : pushes[i] > 0 \/ i \in quiet
    /\ \A i \in Ids : pushes[i] <= 1 + excuses[i]
    /\ \A i \in Ids \ seen : pushes[i] <= excuses[i]

LEMMA PushInit == Init => PushInv
  BY DEF Init, PushInv, Zero

LEMMA PushNext == TypeInv /\ PushInv /\ [Next]_news => PushInv'
  <1> SUFFICES ASSUME TypeInv, PushInv, [Next]_news PROVE PushInv'
    OBVIOUS
  <1>1. seen \subseteq Ids /\ pushes \in [Ids -> Nat] /\ excuses \in [Ids -> Nat]
    BY DEF TypeInv
  <1>2. CASE UNCHANGED <<seen, pushes, excuses, quiet>>
    BY <1>2 DEF PushInv
  <1>3. CASE Gather \/ Store \/ StoreFails \/ (\E k \in ToSet(Keys) : Expire(k)) \/ Stop
             \/ UNCHANGED news
    BY <1>2, <1>3 DEF Gather, Store, StoreFails, Expire, Stop, news
  <1>4. ASSUME ToPush PROVE items[next].id \in Ids
    <2>1. items \in Seq(Item) /\ next \in 1 .. Len(items)
      BY <1>4 DEF TypeInv, ToPush
    <2>2. items[next] \in Item
      BY <2>1
    <2> QED
      BY <2>2 DEF Item
  <1>5. CASE Push
    <2>1. PICK id \in Ids : /\ id = items[next].id /\ id \notin seen
                            /\ pushes' = [pushes EXCEPT ![id] = @ + 1]
                            /\ seen' = seen \union {id} /\ UNCHANGED <<excuses, quiet>>
      BY <1>4, <1>5 DEF Push, IsNews, Pushed
    <2>2. pushes'[id] = pushes[id] + 1 /\ \A i \in Ids \ {id} : pushes'[i] = pushes[i]
      BY <1>1, <2>1
    <2>3. pushes[id] <= excuses[id] /\ pushes[id] \in Nat /\ excuses[id] \in Nat
      BY <1>1, <2>1 DEF PushInv
    <2> QED
      BY <1>1, <2>1, <2>2, <2>3 DEF PushInv
  <1>6. CASE PushFails
    <2>1. CASE UNCHANGED <<pushes, excuses>>
      BY <1>2, <1>6, <2>1 DEF PushFails, NotNoted
    <2>2. CASE ~UNCHANGED <<pushes, excuses>>
      <3>1. PICK id \in Ids : /\ pushes' = [pushes EXCEPT ![id] = @ + 1]
                              /\ excuses' = [excuses EXCEPT ![id] = @ + 1]
                              /\ UNCHANGED <<seen, quiet>>
        BY <1>4, <1>6, <2>2 DEF PushFails, Pushed, NotNoted
      <3>2. /\ pushes'[id] = pushes[id] + 1 /\ excuses'[id] = excuses[id] + 1
            /\ \A i \in Ids \ {id} : pushes'[i] = pushes[i] /\ excuses'[i] = excuses[i]
        BY <1>1, <3>1
      <3>3. pushes[id] \in Nat /\ excuses[id] \in Nat
        BY <1>1
      <3> QED
        BY <1>1, <3>1, <3>2, <3>3 DEF PushInv
    <2> QED
      BY <2>1, <2>2
  <1>7. CASE Note
    <2>1. PICK id \in Ids : /\ seen' = seen \union {id} /\ UNCHANGED <<pushes, excuses>>
                            /\ quiet \subseteq quiet' /\ (id \in seen \/ id \in quiet')
      BY <1>4, <1>7 DEF Note, IsNews
    <2> QED
      BY <1>1, <2>1 DEF PushInv
  <1>8. CASE Finish
    <2>1. /\ seen' \subseteq seen /\ UNCHANGED <<pushes, quiet>>
          /\ excuses' = [i \in Ids |-> excuses[i] + (IF i \in seen \ seen' THEN 1 ELSE 0)]
      BY <1>8, CutTypes DEF Finish
    <2>2. \A i \in Ids : /\ excuses'[i] = excuses[i] + (IF i \in seen \ seen' THEN 1 ELSE 0)
                         /\ pushes[i] \in Nat /\ excuses[i] \in Nat
      BY <1>1, <2>1
    <2> QED
      BY <1>1, <2>1, <2>2 DEF PushInv
  <1>9. CASE Restart
    BY <1>9 DEF Restart, PushInv, Zero
  <1> QED
    BY <1>3, <1>5, <1>6, <1>7, <1>8, <1>9 DEF Next

\* No hot item is taken for known without having been published, and none is
\* published twice but after a failure or after its id was cut from the set.
THEOREM NewsPushedOnce == Spec => []PushedOnce
  <1>1. PushInv => PushedOnce
    BY DEF PushInv, PushedOnce
  <1> QED
    BY <1>1, TypeInit, TypeNext, PushInit, PushNext, PTL DEF Spec

-----------------------------------------------------------------------------
(* The four lists keep in step. *)

\* The keys the cycle has written, when it comes to each phase; some may have expired.
Done ==
    IF phase = "HOT" THEN {"all"}
    ELSE IF phase = "WARM" THEN {"all", "HOT"}
    ELSE IF phase = "COLD" THEN {"all", "HOT", "WARM"}
    ELSE IF phase = "push" THEN KeySet
    ELSE {}

InStep(k) ==
    /\ keys["all"].cycle > 0 => keys[k].cycle <= keys["all"].cycle
    /\ keys[k].cycle > 0 /\ keys[k].cycle = keys["all"].cycle =>
         keys[k].list = OfImpact(keys["all"].list, k)

StepInv ==
    /\ \A k \in KeySet \ {"all"} : InStep(k)
    /\ \A k \in Done : keys[k].cycle \in {0, cycle}
    /\ "all" \in Done /\ keys["all"].cycle > 0 => keys["all"].list = items
    /\ phase = "all" => \A k \in KeySet : keys[k].cycle < cycle
    /\ phase # "idle" => cycle > 0
    /\ ended = "done" /\ phase = "idle" => \A k \in KeySet : keys[k].cycle \in {0, cycle}

LEMMA StepInit == Init => StepInv
  BY KeysAre DEF Init, StepInv, InStep, Done, Absent, KeySet

LEMMA StepSame ==
  ASSUME StepInv, UNCHANGED <<keys, items, phase, cycle, ended>>
  PROVE  StepInv'
  BY DEF StepInv, InStep, Done

\* A cycle ends, whatever the keys are by then.
LEMMA StepEnds ==
  ASSUME NEW how, End(how), how # "done", \A k \in KeySet \ {"all"} : InStep(k)'
  PROVE  StepInv'
  BY DEF StepInv, Done, End

\* A key is written.
LEMMA StepWritten ==
  ASSUME TypeInv, StepInv, phase \in KeySet, Written
  PROVE  /\ \A k \in KeySet \ {"all"} : InStep(k)'
         /\ keys'[phase] = [cycle |-> cycle, list |-> ListFor(phase)]
         /\ \A k \in KeySet \ {phase} : keys'[k] = keys[k]
  <1>1. /\ keys'[phase] = [cycle |-> cycle, list |-> ListFor(phase)]
        /\ \A k \in KeySet \ {phase} : keys'[k] = keys[k]
    BY WrittenType
  <1>2. \A k \in KeySet : keys[k].cycle <= cycle /\ keys[k].cycle \in Nat /\ cycle \in Nat
    BY DEF TypeInv, Key
  <1>3. CASE phase = "all"
    <2>1. keys'["all"].cycle = cycle
      BY <1>1, <1>3
    <2>2. \A k \in KeySet : keys[k].cycle < cycle
      BY <1>3 DEF StepInv
    <2> QED
      BY <1>1, <1>2, <1>3, <2>1, <2>2 DEF InStep, KeySet
  <1>4. CASE phase # "all"
    <2>1. /\ keys["all"].cycle \in {0, cycle} /\ keys'["all"] = keys["all"]
          /\ keys["all"].cycle > 0 => keys["all"].list = items
      BY <1>1, <1>4 DEF StepInv, Done, KeySet
    <2>2. keys'[phase].cycle = cycle /\ keys'[phase].list = OfImpact(items, phase)
      BY <1>1, <1>4, ListForType
    <2>3. ASSUME NEW k \in KeySet \ {"all"} PROVE InStep(k)'
      <3>1. CASE k = phase
        BY <1>2, <2>1, <2>2, <3>1 DEF InStep
      <3>2. CASE k # phase
        BY <1>1, <2>1, <3>2 DEF StepInv, InStep
      <3> QED
        BY <3>1, <3>2
    <2> QED
      BY <1>1, <2>3
  <1> QED
    BY <1>3, <1>4

LEMMA StepNext == TypeInv /\ StepInv /\ [Next]_news => StepInv'
  <1> SUFFICES ASSUME TypeInv, StepInv, [Next]_news PROVE StepInv'
    OBVIOUS
  <1>1. /\ \A k \in KeySet : keys[k].cycle <= cycle /\ keys[k].cycle \in Nat
        /\ cycle \in Nat /\ keys \in [KeySet -> Key]
    BY DEF TypeInv, Key
  <1>2. CASE Push \/ Note \/ Stop \/ UNCHANGED news
    BY <1>2, StepSame DEF Push, Note, Stop, news
  <1>3. CASE Gather
    <2>1. /\ UNCHANGED keys /\ cycle' = cycle + 1
          /\ \/ End("empty")
             \/ phase' = "all"
      BY <1>3 DEF Gather
    <2>2. \A k \in KeySet \ {"all"} : InStep(k)'
      BY <2>1 DEF StepInv, InStep
    <2>3. CASE phase' = "all"
      BY <1>1, <2>1, <2>2, <2>3 DEF StepInv, Done
    <2> QED
      BY <2>1, <2>2, <2>3, StepEnds
  <1>4. CASE Store
    <2>1. /\ phase \in KeySet /\ Written /\ UNCHANGED <<items, cycle>>
          /\ phase' = IF phase = "COLD" THEN "push"
                      ELSE Keys[1 + CHOOSE n \in 1 .. 3 : Keys[n] = phase]
      BY <1>4, KeysAre DEF Store
    <2>2. phase' = IF phase = "all" THEN "HOT" ELSE IF phase = "HOT" THEN "WARM"
                   ELSE IF phase = "WARM" THEN "COLD" ELSE "push"
      <3>1. CASE phase = "COLD"
        BY <2>1, <3>1
      <3>2. CASE phase # "COLD"
        BY <2>1, <3>2, NextKey DEF KeySet
      <3> QED
        BY <3>1, <3>2
    <2>3. /\ \A k \in KeySet \ {"all"} : InStep(k)'
          /\ keys'[phase] = [cycle |-> cycle, list |-> ListFor(phase)]
          /\ \A k \in KeySet \ {phase} : keys'[k] = keys[k]
      BY <2>1, StepWritten
    <2>4. Done' = Done \union {phase}
      BY <2>1, <2>2 DEF Done, KeySet
    <2>5. Done \subseteq KeySet
      BY DEF Done, KeySet
    <2>6. \A k \in Done' : keys'[k].cycle \in {0, cycle'}
      BY <2>1, <2>3, <2>4, <2>5 DEF StepInv
    <2>7. keys'["all"].cycle > 0 => keys'["all"].list = items'
      <3>1. CASE phase = "all"
        BY <2>1, <2>3, <3>1, ListForType
      <3>2. CASE phase # "all"
        <4>1. "all" \in Done
          BY <2>1, <3>2 DEF Done, KeySet
        <4> QED
          BY <2>1, <2>3, <3>2, <4>1 DEF StepInv, KeySet
      <3> QED
        BY <3>1, <3>2
    <2>8. phase' # "all" /\ phase' # "idle" /\ cycle' > 0
      BY <2>1, <2>2 DEF StepInv, KeySet
    <2> QED
      BY <2>3, <2>6, <2>7, <2>8 DEF StepInv
  <1>5. CASE StoreFails
    <2>1. phase \in KeySet /\ (Written \/ UNCHANGED keys) /\ End("failed")
      BY <1>5, KeysAre DEF StoreFails
    <2>2. CASE Written
      BY <2>1, <2>2, StepWritten, StepEnds
    <2>3. CASE UNCHANGED keys
      <3>1. \A k \in KeySet \ {"all"} : InStep(k)'
        BY <2>3 DEF StepInv, InStep
      <3> QED
        BY <2>1, <3>1, StepEnds
    <2> QED
      BY <2>1, <2>2, <2>3
  <1>6. CASE PushFails \/ Restart
    <2>1. UNCHANGED keys /\ (End("failed") \/ End("none"))
      BY <1>6 DEF PushFails, Restart
    <2>2. \A k \in KeySet \ {"all"} : InStep(k)'
      BY <2>1 DEF StepInv, InStep
    <2> QED
      BY <2>1, <2>2, StepEnds
  <1>7. CASE Finish
    <2>1. UNCHANGED <<keys, cycle>> /\ phase = "push" /\ phase' = "idle"
      BY <1>7 DEF Finish, End
    <2>2. \A k \in KeySet : keys'[k].cycle \in {0, cycle'}
      BY <2>1 DEF StepInv, Done
    <2>3. \A k \in KeySet \ {"all"} : InStep(k)'
      BY <2>1 DEF StepInv, InStep
    <2> QED
      BY <2>1, <2>2, <2>3 DEF StepInv, Done
  <1>8. ASSUME NEW k \in KeySet, Expire(k) PROVE StepInv'
    <2>1. /\ keys' = [keys EXCEPT ![k] = Absent] /\ UNCHANGED <<phase, items, cycle, ended>>
          /\ keys[k].cycle > 0
      BY <1>8 DEF Expire
    <2>2. keys'[k].cycle = 0 /\ \A j \in KeySet \ {k} : keys'[j] = keys[j]
      BY <1>1, <2>1 DEF Absent
    <2>3. Done' = Done /\ Done \subseteq KeySet
      BY <2>1 DEF Done, KeySet
    <2>4. \A j \in KeySet \ {"all"} : InStep(j)'
      BY <1>1, <2>2 DEF StepInv, InStep, KeySet
    <2>5. /\ \A j \in Done' : keys'[j].cycle \in {0, cycle'}
          /\ "all" \in Done' /\ keys'["all"].cycle > 0 => keys'["all"].list = items'
      BY <2>1, <2>2, <2>3 DEF StepInv
    <2>6. phase' = "all" => \A j \in KeySet : keys'[j].cycle < cycle'
      BY <1>1, <2>1, <2>2 DEF StepInv
    <2>7. ended' = "done" /\ phase' = "idle" => \A j \in KeySet : keys'[j].cycle \in {0, cycle'}
      BY <1>1, <2>1, <2>2 DEF StepInv
    <2>8. phase' # "idle" => cycle' > 0
      BY <2>1 DEF StepInv
    <2> QED
      BY <2>4, <2>5, <2>6, <2>7, <2>8 DEF StepInv
  <1> QED
    BY <1>2, <1>3, <1>4, <1>5, <1>6, <1>7, <1>8, KeysAre DEF Next

\* Whatever failed or expired, the lists of a cycle agree, none is of a later cycle
\* than the list of all items, and from the first item that is pushed to the end of
\* the cycle there is no list of an earlier one.
THEOREM NewsKeysInStep == Spec => []KeysInStep
  <1>1. TypeInv /\ StepInv => KeysInStep
    <2> SUFFICES ASSUME TypeInv, StepInv PROVE KeysInStep
      OBVIOUS
    <2>1. \A n \in 2 .. 4 : Keys[n] \in KeySet \ {"all"}
      <3>1. 2 .. 4 = {2, 3, 4}
        OBVIOUS
      <3> QED
        BY <3>1, KeysAre DEF KeySet
    <2>2. phase = "push" => \A k \in KeySet : keys[k].cycle \in {0, cycle}
      BY DEF StepInv, Done
    <2>3. ended = "done" /\ phase = "idle" => \A k \in KeySet : keys[k].cycle \in {0, cycle}
      BY DEF StepInv
    <2> QED
      BY <2>1, <2>2, <2>3, KeysAre DEF StepInv, InStep, KeysInStep
  <1> QED
    BY <1>1, TypeInit, TypeNext, StepInit, StepNext, PTL DEF Spec
=============================================================================
