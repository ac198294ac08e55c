------------------------ MODULE StrategyRegistryProofs ------------------------
(***************************************************************************)
(* Theorems about StrategyRegistry, for any number of strategies, events,  *)
(* requests, and any sizes of the dict and the lists.                      *)
(***************************************************************************)
EXTENDS StrategyRegistry, FiniteSetTheorems, TLAPS

LEMMA KeptType ==
  ASSUME TypeOK
  PROVE  /\ Kept \subseteq 1 .. Len(entries) /\ Len(entries) \in Nat
         /\ IsFiniteSet(Kept) /\ Cardinality(Kept) \in Nat
         /\ \A k \in Kept : entries[k] \in Ids
<1>1. Len(entries) \in Nat /\ DOMAIN entries = 1 .. Len(entries)
  BY DEF TypeOK
<1>2. Kept \subseteq 1 .. Len(entries)
  BY <1>1 DEF Kept
<1>3. IsFiniteSet(Kept)
  <2>1. IsFiniteSet(1 .. Len(entries))
    BY <1>1, FS_Interval
  <2>2. QED
    BY <1>2, <2>1, FS_Subset
<1>4. QED
  BY <1>1, <1>2, <1>3, FS_CardinalityType DEF TypeOK, Kept

LEMMA UpTo == \A m \in Nat : IsFiniteSet(1 .. m) /\ Cardinality(1 .. m) = m
<1> TAKE m \in Nat
<1>1. IsFiniteSet(1 .. m) /\ Cardinality(1 .. m) = IF 1 > m THEN 0 ELSE m - 1 + 1
  BY FS_Interval
<1>2. QED
  BY <1>1

\* order lists the n members of S, the lowest first.
Sorts(order, n, S) ==
  /\ S \subseteq Nat \ {0} /\ IsFiniteSet(S) /\ n \in Nat /\ n = Cardinality(S)
  /\ order \in [1 .. n -> S] /\ \A i, j \in 1 .. n : i < j => order[i] < order[j]

\* It lists them all, each once and none at a later place than its value.
InPlace(order, n, S) ==
  /\ \A i, j \in 1 .. n : order[i] = order[j] => i = j
  /\ \A i \in 1 .. n : i <= order[i]
  /\ \A k \in S : \E i \in 1 .. n : order[i] = k

LEMMA InOrder ==
  ASSUME NEW S, NEW n, NEW order, Sorts(order, n, S)
  PROVE  InPlace(order, n, S)
<1> USE DEF Sorts
<1>1. \A i \in 1 .. n : order[i] \in S /\ order[i] \in Nat \ {0}
  OBVIOUS
<1>2. ASSUME NEW i \in 1 .. n, NEW j \in 1 .. n, order[i] = order[j] PROVE i = j
  <2>1. ~(i < j) /\ ~(j < i)
    BY <1>1, <1>2
  <2>2. QED
    BY <2>1
<1>3. ASSUME NEW i \in 1 .. n PROVE i <= order[i]
  <2> DEFINE first == [j \in 1 .. i |-> order[j]]
  <2>1. ASSUME NEW j \in 1 .. i PROVE order[j] \in 1 .. order[i]
    <3>1. j \in 1 .. n /\ (j < i \/ j = i)
      BY <2>1
    <3>2. order[j] <= order[i]
      BY <1>1, <3>1
    <3>3. QED
      BY <1>1, <3>1, <3>2
  <2>2. first \in [1 .. i -> 1 .. order[i]]
    BY <2>1
  <2>3. \A a, b \in 1 .. i : first[a] = first[b] => a = b
    BY <1>2
  <2>4. first \in Injection(1 .. i, 1 .. order[i])
    BY <2>2, <2>3 DEF Injection, IsInjective
  <2>5. i \in Nat \ {0} /\ order[i] \in Nat \ {0}
    BY <1>1
  <2> HIDE DEF first
  <2>6. IsFiniteSet(1 .. order[i]) /\ Cardinality(1 .. order[i]) = order[i] /\ Cardinality(1 .. i) = i
    BY <2>5, UpTo
  <2>7. Cardinality(1 .. i) <= Cardinality(1 .. order[i])
    BY <2>4, <2>6, FS_Injection
  <2>8. QED
    BY <2>6, <2>7
<1>4. ASSUME NEW k \in S PROVE \E i \in 1 .. n : order[i] = k
  <2>1. order \in Injection(1 .. n, S)
    BY <1>2 DEF Injection, IsInjective
  <2>2. Cardinality(1 .. n) = Cardinality(S)
    BY UpTo
  <2>3. order \in Surjection(1 .. n, S)
    BY <2>1, <2>2, FS_Injection
  <2>4. QED
    BY <2>3 DEF Surjection
<1>5. QED
  BY <1>2, <1>3, <1>4 DEF InPlace

\* No key is twice in the dict.
Distinct == \A j, k \in Kept : entries[j] = entries[k] => j = k

\* What an insertion does, with a rebuild or without.
LEMMA InsertKeeps ==
  ASSUME TypeOK, Distinct, NEW id \in Ids, id \notin Live, Insert(id)
  PROVE  /\ entries' \in Seq(Ids \cup {Hole}) /\ Len(entries') \in Nat \ {0}
         /\ Len(entries') <= room' /\ room' \in Nat
         /\ entries'[Len(entries')] = id
         /\ \A k \in Kept : \E i \in Kept' :
              i <= k /\ i < Len(entries') /\ entries'[i] = entries[k]
         /\ \A i \in Kept' : i # Len(entries') => \E k \in Kept : entries'[i] = entries[k]
         /\ Distinct'
<1> USE StrategyRegistryAssumption
<1>1. \A k \in Kept : entries[k] # id
  BY DEF Live, Kept
<1>2. id # Hole
  OBVIOUS
<1>3. CASE Len(entries) < room
  <2>1. entries' = Append(entries, id) /\ room' = room
    BY <1>3 DEF Insert
  <2>2. entries' \in Seq(Ids \cup {Hole}) /\ Len(entries') = Len(entries) + 1
    BY <2>1 DEF TypeOK
  <2>3. entries'[Len(entries')] = id /\ \A k \in 1 .. Len(entries) : entries'[k] = entries[k]
    BY <2>1, <2>2 DEF TypeOK
  <2>4. Kept' = Kept \cup {Len(entries')}
    <3>1. DOMAIN entries' = 1 .. Len(entries) + 1 /\ DOMAIN entries = 1 .. Len(entries)
          /\ Len(entries) \in Nat
      BY <2>2 DEF TypeOK
    <3>2. QED
      BY <1>2, <2>2, <2>3, <3>1 DEF Kept
  <2>5. \A k \in Kept : entries'[k] = entries[k] /\ k < Len(entries') /\ k \in Nat
    BY <2>2, <2>3, KeptType
  <2>6. Distinct'
    BY <1>1, <2>3, <2>4, <2>5 DEF Distinct
  <2>7. Len(entries) \in Nat /\ room \in Nat
    BY DEF TypeOK
  <2>8. \A k \in Kept : \E i \in Kept' :
          i <= k /\ i < Len(entries') /\ entries'[i] = entries[k]
    BY <2>4, <2>5
  <2>9. \A i \in Kept' : i # Len(entries') => \E k \in Kept : entries'[i] = entries[k]
    BY <2>4, <2>5
  <2>10. Len(entries') \in Nat \ {0} /\ Len(entries') <= room' /\ room' \in Nat
    BY <1>3, <2>1, <2>2, <2>7
  <2>11. QED
    BY <2>2, <2>3, <2>6, <2>8, <2>9, <2>10
<1>4. CASE ~(Len(entries) < room)
  <2>1. PICK n : n = Cardinality(Kept)
    OBVIOUS
  <2>2. n \in Nat /\ IsFiniteSet(Kept) /\ Kept \subseteq Nat \ {0}
        /\ \A k \in Kept : entries[k] \in Ids
    BY <2>1, KeptType
  <2>3. PICK order \in [1 .. n -> Kept] :
          /\ \A i, j \in 1 .. n : i < j => order[i] < order[j]
          /\ entries' = Append([i \in 1 .. n |-> entries[order[i]]], id)
          /\ room' = IF 2 * n > Room THEN 2 * n ELSE Room
    <3>1. PICK order \in [1 .. Cardinality(Kept) -> Kept] :
            /\ \A i, j \in DOMAIN order : i < j => order[i] < order[j]
            /\ entries' = Append([i \in DOMAIN order |-> entries[order[i]]], id)
            /\ room' = Rebuilt
      BY <1>4 DEF Insert
    <3>2. order \in [1 .. n -> Kept] /\ DOMAIN order = 1 .. n
      BY <2>1, <3>1
    <3>3. room' = IF 2 * n > Room THEN 2 * n ELSE Room
      BY <2>1, <3>1 DEF Rebuilt
    <3>4. QED
      BY <3>1, <3>2, <3>3
  <2>4. /\ \A i, j \in 1 .. n : order[i] = order[j] => i = j
        /\ \A i \in 1 .. n : i <= order[i]
        /\ \A k \in Kept : \E i \in 1 .. n : order[i] = k
    <3>1. Sorts(order, n, Kept)
      BY <2>1, <2>2, <2>3 DEF Sorts
    <3>2. InPlace(order, n, Kept)
      BY <3>1, InOrder
    <3>3. QED
      BY <3>2 DEF InPlace
  <2>5. PICK moved : moved = [i \in 1 .. n |-> entries[order[i]]]
    OBVIOUS
  <2>6. moved \in Seq(Ids \cup {Hole}) /\ Len(moved) = n
        /\ \A i \in 1 .. n : moved[i] = entries[order[i]]
    <3>1. \A i \in 1 .. n : entries[order[i]] \in Ids \cup {Hole}
      BY <2>2, <2>3
    <3>2. moved \in [1 .. n -> Ids \cup {Hole}]
      BY <2>5, <3>1
    <3>3. moved \in Seq(Ids \cup {Hole}) /\ Len(moved) = n
      BY <2>2, <3>2
    <3>4. QED
      BY <2>5, <3>3
  <2>7. /\ entries' \in Seq(Ids \cup {Hole}) /\ Len(entries') = n + 1 /\ entries'[n + 1] = id
        /\ \A i \in 1 .. n : entries'[i] = entries[order[i]]
    BY <2>2, <2>3, <2>5, <2>6
  <2>8. \A i \in 1 .. n : order[i] \in Kept /\ entries'[i] \in Ids
    BY <2>2, <2>7
  <2>9. Kept' = 1 .. n + 1
    <3>1. DOMAIN entries' = 1 .. n + 1
      BY <2>7
    <3>2. \A i \in 1 .. n + 1 : entries'[i] # Hole
      BY <1>2, <2>2, <2>7, <2>8
    <3>3. QED
      BY <3>1, <3>2 DEF Kept
  <2>10. Distinct'
    <3> SUFFICES ASSUME NEW i \in 1 .. n + 1, NEW j \in 1 .. n + 1, entries'[i] = entries'[j]
                 PROVE  i = j
      BY <2>9 DEF Distinct
    <3>1. CASE i \in 1 .. n /\ j \in 1 .. n
      <4>1. entries[order[i]] = entries[order[j]] /\ order[i] \in Kept /\ order[j] \in Kept
        BY <2>7, <2>8, <3>1
      <4>2. QED
        BY <2>4, <3>1, <4>1 DEF Distinct
    <3>2. CASE i = n + 1 \/ j = n + 1
      <4>1. \A m \in 1 .. n : entries'[m] # entries'[n + 1]
        BY <1>1, <2>7, <2>8
      <4>2. QED
        BY <2>2, <3>2, <4>1
    <3>3. QED
      BY <2>2, <3>1, <3>2
  <2>11. room' \in Nat /\ n + 1 <= room'
    BY <2>2, <2>3
  <2>12. ASSUME NEW k \in Kept
         PROVE  \E i \in Kept' : i <= k /\ i < Len(entries') /\ entries'[i] = entries[k]
    <3>1. PICK i \in 1 .. n : order[i] = k
      BY <2>4
    <3>2. i <= k /\ i < n + 1 /\ entries'[i] = entries[k] /\ i \in 1 .. n + 1
      BY <2>2, <2>4, <2>7, <3>1
    <3>3. QED
      BY <2>7, <2>9, <3>2
  <2>13. \A i \in Kept' : i # Len(entries') => \E k \in Kept : entries'[i] = entries[k]
    <3> SUFFICES ASSUME NEW i \in 1 .. n + 1, i # n + 1
                 PROVE  \E k \in Kept : entries'[i] = entries[k]
      BY <2>7, <2>9
    <3>1. i \in 1 .. n
      BY <2>2
    <3>2. QED
      BY <2>7, <2>8, <3>1
  <2>14. QED
    BY <2>2, <2>7, <2>10, <2>11, <2>12, <2>13
<1>5. QED
  BY <1>3, <1>4

-----------------------------------------------------------------------------
(* Types, and the keys of the dict. *)

DictInv == TypeOK /\ Distinct

LEMMA ConstantTypes ==
  /\ MaxEvents \in Nat /\ MaxRequests \in Nat /\ Room \in Nat \ {0} /\ Keep \in Nat \ {0}
  /\ Hole \notin Ids
BY StrategyRegistryAssumption

LEMMA CountType == TypeOK /\ Count => requests' \in 0 .. MaxRequests
<1>1. TypeOK => requests \in 0 .. MaxRequests
  BY DEF TypeOK
<1>2. QED
  BY <1>1, ConstantTypes DEF Count

\* What becomes of a record keeps it a record.
LEMMA RecordChanges ==
  ASSUME NEW r \in Record, NEW active \in BOOLEAN
  PROVE  /\ [r EXCEPT !.errors = @ + 1] \in Record
         /\ [r EXCEPT !.signals = @ + 1] \in Record
         /\ [r EXCEPT !.enabled = active] \in Record
BY DEF Record

\* What becomes of an iterator keeps it an iterator.
LEMMA AdvancedType ==
  ASSUME NEW i \in [pos : Nat, used : Nat, left : Nat], NEW k \in Nat, i.left > 0
  PROVE  [i EXCEPT !.pos = k, !.left = @ - 1] \in [pos : Nat, used : Nat, left : Nat]
<1>1. i.left \in Nat /\ i.left > 0
  OBVIOUS
<1>2. PICK m \in Nat : m = i.left - 1
  BY <1>1
<1>3. [i EXCEPT !.pos = k, !.left = @ - 1] = [i EXCEPT !.pos = k, !.left = m]
  BY <1>2
<1>4. [i EXCEPT !.pos = k, !.left = m] \in [pos : Nat, used : Nat, left : Nat]
  OBVIOUS
<1>5. QED
  BY <1>3, <1>4

LEMMA InitDict == Init => DictInv
<1> SUFFICES ASSUME Init PROVE DictInv
  OBVIOUS
<1> USE StrategyRegistryAssumption
<1>1. TypeOK
  <2>1. Fresh \in Record
    BY DEF Fresh, Record
  <2>2. <<>> \in Seq(Ids \cup {Hole}) /\ <<>> \in Seq(Ids) /\ Len(<<>>) = 0
    OBVIOUS
  <2>3. entries \in Seq(Ids \cup {Hole}) /\ Len(entries) <= room /\ room \in Nat
    BY <2>2, ConstantTypes DEF Init
  <2>4. rec \in [Ids -> Record]
    BY <2>1 DEF Init
  <2>5. /\ stored \in [Ids -> Nat] /\ pushed \in [Ids -> Nat] /\ lost \in [Ids -> Nat]
        /\ iter \in [pos : Nat, used : Nat, left : Nat]
    BY DEF Init
  <2>6. events \in 0 .. MaxEvents /\ requests \in 0 .. MaxRequests /\ calls \in Seq(Ids)
    BY <2>2, ConstantTypes DEF Init
  <2>7. QED
    BY <2>3, <2>4, <2>5, <2>6 DEF Init, TypeOK
<1>2. Kept = {}
  BY DEF Init, Kept
<1>3. QED
  BY <1>1, <1>2 DEF DictInv, Distinct

\* A step that leaves the dict alone keeps its keys apart.
LEMMA SameDict == Distinct /\ UNCHANGED entries => Distinct'
  BY DEF Distinct, Kept

LEMMA ListTypes ==
  ASSUME TypeOK
  PROVE  /\ stored \in [Ids -> Nat] /\ pushed \in [Ids -> Nat] /\ lost \in [Ids -> Nat]
         /\ untrimmed \in [Ids -> Nat] /\ cur \in Ids
         /\ \A n \in Nat : ListAfter(n) \in Nat /\ PushesAfter(n) \in Nat
BY ConstantTypes DEF TypeOK, ListAfter, PushesAfter, Trimmed

LEMMA NextDict == DictInv /\ [Next]_vars => DictInv'
<1> SUFFICES ASSUME TypeOK, Distinct, [Next]_vars PROVE DictInv'
  BY DEF DictInv
<1> USE StrategyRegistryAssumption
<1>1. ASSUME NEW symbol \in Feeds, Begin(symbol) PROVE DictInv'
  <2>1. Iterator \in [pos : Nat, used : Nat, left : Nat]
    BY KeptType DEF Iterator
  <2>2. Live \subseteq Ids
    BY DEF Live, TypeOK
  <2>3. QED
    <3>1. events' \in 0 .. MaxEvents
      <4>1. events \in 0 .. MaxEvents
        BY DEF TypeOK
      <4>2. QED
        BY <1>1, <4>1, ConstantTypes DEF Begin
    <3>2. steady' \subseteq Ids /\ calls' \in Seq(Ids)
      BY <1>1, <2>2 DEF Begin
    <3>3. QED
      BY <1>1, <2>1, <3>1, <3>2, SameDict DEF Begin, DictInv, TypeOK, dictVars, listVars
<1>2. CASE EndIteration
  BY <1>2, SameDict DEF EndIteration, GiveUp, DictInv, TypeOK, dictVars, listVars, histVars, Awaits
<1>3. ASSUME NEW k \in DOMAIN entries, Skip(k) \/ Misread(k) \/ Quiet(k) \/ Throws(k) \/ Signals(k)
      PROVE  DictInv'
  <2>1. k \in Nat /\ iter.left \in Nat /\ iter.left > 0 /\ entries[k] \in Ids
    <3>1. Yields(k)
      BY <1>3 DEF Skip, Misread, Quiet, Throws, Signals
    <3>2. k \in Kept /\ iter.left > 0
      BY <3>1 DEF Yields, KeysFrom
    <3>3. iter.left \in Nat
      BY DEF TypeOK
    <3>4. QED
      BY <3>2, <3>3, KeptType
  <2>2. [iter EXCEPT !.pos = k, !.left = @ - 1] \in [pos : Nat, used : Nat, left : Nat]
    BY <2>1, AdvancedType DEF TypeOK
  <2>3. Append(calls, entries[k]) \in Seq(Ids)
    BY <2>1 DEF TypeOK
  <2>4. rec[entries[k]] \in Record /\ rec \in [Ids -> Record]
    BY <2>1 DEF TypeOK
  <2>5. /\ [rec EXCEPT ![entries[k]].errors = @ + 1] \in [Ids -> Record]
        /\ [rec EXCEPT ![entries[k]].signals = @ + 1] \in [Ids -> Record]
    BY <2>1, <2>4, RecordChanges
  <2>6. CASE Skip(k)
    BY <2>2, <2>6, SameDict
       DEF Skip, Advance, AfterSkip, DictInv, TypeOK, dictVars, listVars, histVars, Awaits
  <2>7. CASE Misread(k)
    BY <2>7, SameDict DEF Misread, GiveUp, DictInv, TypeOK, dictVars, listVars, histVars, Awaits
  <2>8. CASE Quiet(k)
    BY <2>2, <2>3, <2>8, SameDict DEF Quiet, Advance, DictInv, TypeOK, dictVars, listVars
  <2>9. CASE Throws(k)
    BY <2>2, <2>3, <2>5, <2>9, SameDict DEF Throws, Advance, DictInv, TypeOK, dictVars, listVars
  <2>10. CASE Signals(k)
    BY <2>1, <2>2, <2>3, <2>5, <2>10, SameDict
       DEF Signals, Advance, DictInv, TypeOK, dictVars, listVars, Awaits
  <2>11. QED
    BY <1>3, <2>6, <2>7, <2>8, <2>9, <2>10
<1>4. CASE Published
  <2>1. /\ stored' \in [Ids -> Nat] /\ pushed' \in [Ids -> Nat] /\ untrimmed' \in [Ids -> Nat]
        /\ stage' \in {"next"} \cup Awaits
    <3>1. /\ stored' = [stored EXCEPT ![cur] = ListAfter(stored[cur])]
          /\ pushed' = [pushed EXCEPT ![cur] = PushesAfter(pushed[cur])]
          /\ untrimmed' = [untrimmed EXCEPT ![cur] = IF stage = "trim" THEN 0 ELSE untrimmed[cur]]
      BY <1>4 DEF Published
    <3>2. stage' \in {"next"} \cup Awaits
      BY <1>4 DEF Published, After, Awaits
    <3>3. QED
      BY <3>1, <3>2, ListTypes
  <2>2. QED
    BY <1>4, <2>1, SameDict DEF Published, DictInv, TypeOK, dictVars, histVars
<1>5. CASE PublishFails
  <2>1. rec' \in [Ids -> Record]
    <3>1. cur \in Ids /\ rec \in [Ids -> Record]
      BY DEF TypeOK
    <3>2. rec' = [rec EXCEPT ![cur] = [rec[cur] EXCEPT !.errors = @ + 1]]
      BY <1>5 DEF PublishFails, NotApplied, AnswerLost, Fails, CountedError
    <3>3. [rec[cur] EXCEPT !.errors = @ + 1] \in Record
      BY <3>1, RecordChanges
    <3>4. QED
      BY <3>1, <3>2, <3>3
  <2>2. /\ stored' \in [Ids -> Nat] /\ pushed' \in [Ids -> Nat] /\ lost' \in [Ids -> Nat]
        /\ untrimmed' \in [Ids -> Nat]
    <3>1. CASE NotApplied
      <4>1. /\ lost' = [lost EXCEPT ![cur] = IF stage = "trim" THEN lost[cur] ELSE lost[cur] + 1]
            /\ untrimmed' = [untrimmed EXCEPT ![cur] = IF stage = "trim" THEN untrimmed[cur] + 1
                                                       ELSE untrimmed[cur]]
            /\ stored' = stored /\ pushed' = pushed
        BY <3>1 DEF NotApplied
      <4>2. QED
        BY <4>1, ListTypes
    <3>2. CASE AnswerLost
      <4>1. /\ stored' = [stored EXCEPT ![cur] = ListAfter(stored[cur])]
            /\ pushed' = [pushed EXCEPT ![cur] = PushesAfter(pushed[cur])]
            /\ lost' = [lost EXCEPT ![cur] = IF stage \in {"push", "trim"} THEN lost[cur]
                                             ELSE lost[cur] + 1]
            /\ untrimmed' = [untrimmed EXCEPT ![cur] = IF stage = "trim" THEN 0
                                                       ELSE PushesAfter(untrimmed[cur])]
        BY <3>2 DEF AnswerLost
      <4>2. QED
        BY <4>1, ListTypes
    <3>3. QED
      BY <1>5, <3>1, <3>2 DEF PublishFails
  <2>3. Fails
    BY <1>5 DEF PublishFails, NotApplied, AnswerLost
  <2>4. QED
    BY <2>1, <2>2, <2>3, SameDict DEF Fails, DictInv, TypeOK, dictVars, histVars
<1>6. ASSUME NEW id \in Ids, NEW symbols \in Subscriptions, Add(id, symbols) PROVE DictInv'
  <2>1. id \notin Live /\ Insert(id)
    BY <1>6 DEF Add
  <2>2. /\ entries' \in Seq(Ids \cup {Hole}) /\ Len(entries') <= room' /\ room' \in Nat
        /\ Distinct'
    BY <2>1, InsertKeeps
  <2>3. [Fresh EXCEPT !.symbols = symbols] \in Record
    BY DEF Fresh, Record
  <2>4. rec' \in [Ids -> Record]
    BY <1>6, <2>3 DEF Add, TypeOK
  <2>5. requests' \in 0 .. MaxRequests
    BY <1>6, CountType DEF Add
  <2>6. QED
    BY <1>6, <2>2, <2>4, <2>5 DEF Add, DictInv, TypeOK, listVars
<1>7. ASSUME NEW id \in Ids, Remove(id) PROVE DictInv'
  <2>1. entries' = [k \in 1 .. Len(entries) |-> IF entries[k] = id THEN Hole ELSE entries[k]]
    BY <1>7 DEF Remove, Without, TypeOK
  <2>2. entries' \in Seq(Ids \cup {Hole}) /\ Len(entries') = Len(entries)
    <3>1. Len(entries) \in Nat /\ \A k \in 1 .. Len(entries) : entries[k] \in Ids \cup {Hole}
      <4>1. entries \in Seq(Ids \cup {Hole})
        BY DEF TypeOK
      <4>2. QED
        BY <4>1
    <3>2. entries' \in [1 .. Len(entries) -> Ids \cup {Hole}]
      BY <2>1, <3>1
    <3>3. QED
      BY <3>1, <3>2
  <2>3. Distinct'
    <3>1. DOMAIN entries = 1 .. Len(entries) /\ DOMAIN entries' = 1 .. Len(entries)
      <4>1. entries \in Seq(Ids \cup {Hole})
        BY DEF TypeOK
      <4>2. QED
        BY <2>1, <4>1
    <3>2. \A k \in 1 .. Len(entries) : entries'[k] # Hole => entries'[k] = entries[k]
      BY <2>1
    <3>3. \A k \in Kept' : k \in Kept /\ entries'[k] = entries[k]
      BY <3>1, <3>2 DEF Kept
    <3>4. QED
      BY <3>3 DEF Distinct
  <2>4. requests' \in 0 .. MaxRequests
    BY <1>7, CountType DEF Remove
  <2>5. QED
    BY <1>7, <2>2, <2>3, <2>4 DEF Remove, DictInv, TypeOK, listVars
<1>8. ASSUME NEW id \in Ids, NEW active \in BOOLEAN, Patch(id, active) PROVE DictInv'
  <2>1. rec' \in [Ids -> Record]
    <3>1. rec \in [Ids -> Record] /\ rec' = [rec EXCEPT ![id] = [rec[id] EXCEPT !.enabled = active]]
      BY <1>8 DEF Patch, TypeOK
    <3>2. [rec[id] EXCEPT !.enabled = active] \in Record
      BY <3>1, RecordChanges
    <3>3. QED
      BY <3>1, <3>2
  <2>2. requests' \in 0 .. MaxRequests
    BY <1>8, CountType DEF Patch
  <2>3. QED
    BY <1>8, <2>1, <2>2, SameDict DEF Patch, DictInv, TypeOK, dictVars, listVars
<1>9. CASE UNCHANGED vars
  BY <1>9, SameDict DEF vars, dictVars, listVars, histVars, DictInv, TypeOK
<1>10. QED
  BY <1>1, <1>2, <1>3, <1>4, <1>5, <1>6, <1>7, <1>8, <1>9 DEF Next, Dispatch, Requests

\* Every variable keeps its type: no entry of the dict is beyond its room, however
\* often it is rebuilt (registry.py 51, 56).
THEOREM RegistryTypes == Spec => []TypeOK
<1>1. DictInv => TypeOK
  BY DEF DictInv
<1>2. QED
  BY <1>1, InitDict, NextDict, PTL DEF Spec

-----------------------------------------------------------------------------
(* No strategy is called twice by a dispatch, nor after its removal. *)

\* A call was of a strategy that is removed, or that the iterator has passed.
Passed(id) == id \in removed \/ \E k \in Kept : k <= iter.pos /\ entries[k] = id

CalledInv ==
  /\ DictInv
  /\ \A k \in Kept : entries[k] \notin removed
  /\ \A j \in DOMAIN calls : Passed(calls[j])
  /\ CalledOnce

LEMMA InitCalled == Init => CalledInv
<1> SUFFICES ASSUME Init PROVE CalledInv
  OBVIOUS
<1>1. DOMAIN calls = {} /\ DOMAIN entries = {}
  BY DEF Init
<1>2. QED
  BY <1>1, InitDict DEF CalledInv, CalledOnce, Kept

\* What the iterator yields was not called yet by this dispatch and is not removed.
LEMMA YieldsNew ==
  ASSUME CalledInv, NEW k \in DOMAIN entries, Yields(k)
  PROVE  /\ k \in Kept /\ k \in Nat /\ iter.pos \in Nat /\ iter.pos < k
         /\ entries[k] \in Ids \ removed
         /\ \A j \in DOMAIN calls : calls[j] # entries[k]
<1>1. k \in Kept /\ k >= iter.pos + 1
  BY DEF Yields, KeysFrom
<1>2. k \in Nat /\ entries[k] \in Ids
  BY <1>1, KeptType DEF CalledInv, DictInv
<1>3. iter.pos \in Nat
  BY DEF CalledInv, DictInv, TypeOK
<1>4. iter.pos < k
  BY <1>1, <1>2, <1>3
<1>5. entries[k] \notin removed
  BY <1>1 DEF CalledInv
<1>6. ASSUME NEW j \in DOMAIN calls, calls[j] = entries[k] PROVE FALSE
  <2>1. PICK h \in Kept : h <= iter.pos /\ entries[h] = entries[k]
    BY <1>5, <1>6 DEF CalledInv, Passed
  <2>2. h = k
    BY <1>1, <2>1 DEF CalledInv, DictInv, Distinct
  <2>3. QED
    BY <1>2, <1>3, <1>4, <2>1, <2>2
<1>7. QED
  BY <1>1, <1>2, <1>3, <1>4, <1>5, <1>6

\* A call of what the iterator yields.
Calls(k) == /\ calls' = Append(calls, entries[k]) /\ iter'.pos = k
            /\ UNCHANGED <<entries, removed>>

LEMMA CallKeeps ==
  ASSUME CalledInv, DictInv', NEW k \in DOMAIN entries, Yields(k), Calls(k)
  PROVE  CalledInv'
<1>1. /\ k \in Kept /\ k \in Nat /\ iter.pos \in Nat /\ iter.pos < k
      /\ \A j \in DOMAIN calls : calls[j] # entries[k]
  BY YieldsNew
<1>2. PICK n \in Nat : n = Len(calls) /\ DOMAIN calls = 1 .. n /\ DOMAIN calls' = 1 .. n + 1
  BY DEF CalledInv, DictInv, TypeOK, Calls
<1>3. calls'[n + 1] = entries[k] /\ \A j \in 1 .. n : calls'[j] = calls[j]
  BY <1>2 DEF CalledInv, DictInv, TypeOK, Calls
<1>4. Kept' = Kept /\ entries' = entries /\ removed' = removed /\ iter'.pos = k
  BY DEF Calls, Kept
<1>5. ASSUME NEW id, Passed(id) PROVE Passed(id)'
  <2>1. \A h \in Kept : h \in Nat
    BY KeptType DEF CalledInv, DictInv
  <2>2. ASSUME NEW h \in Kept, h <= iter.pos PROVE h <= k
    BY <1>1, <2>1, <2>2
  <2>3. QED
    BY <1>4, <1>5, <2>2 DEF Passed
<1>6. Passed(entries[k])'
  <2>1. k <= k
    BY <1>1
  <2>2. QED
    BY <1>1, <1>4, <2>1 DEF Passed
<1>7. ASSUME NEW j \in DOMAIN calls' PROVE Passed(calls[j])'
  <2>1. j \in 1 .. n \/ j = n + 1
    BY <1>2
  <2>2. CASE j \in 1 .. n
    <3>1. j \in DOMAIN calls /\ Passed(calls[j])
      BY <1>2, <2>2 DEF CalledInv
    <3>2. calls'[j] = calls[j]
      BY <1>3, <2>2
    <3>3. QED
      BY <1>5, <3>1, <3>2 DEF Passed
  <2>3. CASE j = n + 1
    BY <1>3, <1>4, <1>6, <2>3 DEF Passed
  <2>4. QED
    BY <2>1, <2>2, <2>3
<1>8. CalledOnce'
  <2> SUFFICES ASSUME NEW i \in DOMAIN calls', NEW j \in DOMAIN calls', i # j
               PROVE  calls'[i] # calls'[j]
    BY DEF CalledOnce
  <2>1. (i \in 1 .. n \/ i = n + 1) /\ (j \in 1 .. n \/ j = n + 1)
    BY <1>2
  <2>2. \A a, b \in 1 .. n : a # b => calls[a] # calls[b]
    BY <1>2 DEF CalledInv, CalledOnce
  <2>3. \A a \in 1 .. n : calls[a] # entries[k]
    BY <1>1, <1>2
  <2>4. QED
    BY <1>3, <2>1, <2>2, <2>3
<1>9. QED
  BY <1>4, <1>7, <1>8 DEF CalledInv

\* A step that calls nothing and leaves the dict alone; the iterator only goes on.
LEMMA NoCallKeeps ==
  ASSUME CalledInv, DictInv', UNCHANGED <<entries, removed, calls>>, iter'.pos >= iter.pos
  PROVE  CalledInv'
<1>1. Kept' = Kept
  BY DEF Kept
<1>2. iter.pos \in Nat /\ iter'.pos \in Nat /\ \A h \in Kept : h \in Nat
  <2>1. iter.pos \in Nat
    BY DEF CalledInv, DictInv, TypeOK
  <2>2. iter'.pos \in Nat
    BY DEF DictInv, TypeOK
  <2>3. \A h \in Kept : h \in Nat
    BY KeptType DEF CalledInv, DictInv
  <2>4. QED
    BY <2>1, <2>2, <2>3
<1>3. \A h \in Kept : h <= iter.pos => h <= iter'.pos
  BY <1>2
<1>4. ASSUME NEW id, Passed(id) PROVE Passed(id)'
  BY <1>1, <1>3, <1>4 DEF Passed
<1>5. QED
  BY <1>1, <1>4 DEF CalledInv, CalledOnce

LEMMA NextCalled == CalledInv /\ [Next]_vars => CalledInv'
<1> SUFFICES ASSUME CalledInv, [Next]_vars PROVE CalledInv'
  OBVIOUS
<1>1. DictInv /\ TypeOK /\ DictInv' /\ TypeOK'
  BY NextDict DEF CalledInv, DictInv
<1>2. iter \in [pos : Nat, used : Nat, left : Nat] /\ iter.pos \in Nat /\ iter.pos >= iter.pos
  BY <1>1 DEF TypeOK
<1>3. ASSUME NEW symbol \in Feeds, Begin(symbol) PROVE CalledInv'
  <2>1. DOMAIN calls' = {} /\ Kept' = Kept /\ entries' = entries /\ removed' = removed
    BY <1>3 DEF Begin, dictVars, Kept
  <2>2. QED
    BY <1>1, <2>1 DEF CalledInv, CalledOnce
<1>4. CASE EndIteration
  BY <1>1, <1>2, <1>4, NoCallKeeps DEF EndIteration, GiveUp, dictVars, histVars
<1>5. ASSUME NEW k \in DOMAIN entries, Skip(k) \/ Misread(k) \/ Quiet(k) \/ Throws(k) \/ Signals(k)
      PROVE  CalledInv'
  <2>1. Yields(k)
    BY <1>5 DEF Skip, Misread, Quiet, Throws, Signals
  <2>2. k \in Nat /\ iter.pos < k /\ k >= iter.pos
    BY <1>2, <2>1, YieldsNew
  <2>3. Advance(k) => iter'.pos = k
    BY <1>2 DEF Advance
  <2>4. CASE Skip(k)
    BY <1>1, <2>2, <2>3, <2>4, NoCallKeeps DEF Skip, dictVars, histVars
  <2>5. CASE Misread(k)
    BY <1>1, <1>2, <2>5, NoCallKeeps DEF Misread, GiveUp, dictVars, histVars
  <2>6. CASE Quiet(k) \/ Throws(k) \/ Signals(k)
    <3>1. Calls(k)
      BY <2>3, <2>6 DEF Quiet, Throws, Signals, Calls, dictVars
    <3>2. QED
      BY <1>1, <2>1, <3>1, CallKeeps
  <2>7. QED
    BY <1>5, <2>4, <2>5, <2>6
<1>6. CASE Published
  BY <1>1, <1>2, <1>6, NoCallKeeps DEF Published, dictVars, histVars
<1>7. CASE PublishFails
  BY <1>1, <1>2, <1>7, NoCallKeeps
     DEF PublishFails, NotApplied, AnswerLost, Fails, dictVars, histVars
<1>8. ASSUME NEW id \in Ids, NEW symbols \in Subscriptions, Add(id, symbols) PROVE CalledInv'
  <2>1. /\ id \notin Live /\ id \notin removed /\ Insert(id)
        /\ UNCHANGED <<iter, calls, removed>>
    BY <1>8 DEF Add
  <2>2. /\ entries'[Len(entries')] = id
        /\ \A k \in Kept : \E i \in Kept' : i <= k /\ entries'[i] = entries[k]
        /\ \A i \in Kept' : i # Len(entries') => \E k \in Kept : entries'[i] = entries[k]
    BY <1>1, <2>1, InsertKeeps DEF DictInv
  <2>3. \A i \in Kept' : entries'[i] \notin removed'
    BY <2>1, <2>2 DEF CalledInv
  <2>4. ASSUME NEW other, Passed(other) PROVE Passed(other)'
    <3>1. CASE other \in removed
      BY <2>1, <3>1 DEF Passed
    <3>2. ASSUME NEW k \in Kept, k <= iter.pos, entries[k] = other PROVE Passed(other)'
      <4>1. PICK i \in Kept' : i <= k /\ entries'[i] = entries[k]
        BY <2>2
      <4>2. k \in Nat /\ i \in Nat
        <5>1. k \in Nat
          BY <1>1, KeptType
        <5>2. i \in DOMAIN entries' /\ entries' \in Seq(Ids \cup {Hole})
          BY <1>1 DEF Kept, TypeOK
        <5>3. QED
          BY <5>1, <5>2
      <4>3. i <= iter.pos
        BY <1>2, <3>2, <4>1, <4>2
      <4>4. QED
        BY <2>1, <3>2, <4>1, <4>3 DEF Passed
    <3>3. QED
      BY <2>4, <3>1, <3>2 DEF Passed
  <2>5. QED
    BY <1>1, <2>1, <2>3, <2>4 DEF CalledInv, CalledOnce
<1>9. ASSUME NEW id \in Ids, Remove(id) PROVE CalledInv'
  <2>1. /\ entries' = [k \in DOMAIN entries |-> IF entries[k] = id THEN Hole ELSE entries[k]]
        /\ removed' = removed \cup {id} /\ UNCHANGED <<iter, calls>>
    BY <1>9 DEF Remove, Without
  <2>2. Kept' = {k \in Kept : entries[k] # id} /\ \A k \in Kept' : entries'[k] = entries[k]
    BY <2>1 DEF Kept
  <2>3. ASSUME NEW other, Passed(other) PROVE Passed(other)'
    BY <2>1, <2>2, <2>3 DEF Passed
  <2>4. QED
    BY <1>1, <2>1, <2>2, <2>3 DEF CalledInv, CalledOnce
<1>10. ASSUME NEW id \in Ids, NEW active \in BOOLEAN, Patch(id, active) PROVE CalledInv'
  BY <1>1, <1>2, <1>10, NoCallKeeps DEF Patch, dictVars
<1>11. CASE UNCHANGED vars
  BY <1>1, <1>2, <1>11, NoCallKeeps DEF vars, dictVars, histVars
<1>12. QED
  BY <1>3, <1>4, <1>5, <1>6, <1>7, <1>8, <1>9, <1>10, <1>11 DEF Next, Dispatch, Requests

\* A dispatch calls no strategy twice, however many are added, removed or rebuilt
\* into a smaller array while it awaits a publication (registry.py 64-76).
THEOREM RegistryCalledOnce == Spec => []CalledOnce
<1>1. CalledInv => CalledOnce
  BY DEF CalledInv
<1>2. QED
  BY <1>1, InitCalled, NextCalled, PTL DEF Spec

\* A step calls no strategy that is removed.
LEMMA StepCalls ==
  CalledInv /\ [Next]_vars => [\A id \in removed : Called(id)' => Called(id)]_vars
<1> SUFFICES ASSUME CalledInv, [Next]_vars, NEW id \in removed, Called(id)'
             PROVE  Called(id) \/ UNCHANGED vars
  OBVIOUS
<1>1. ASSUME NEW k \in DOMAIN entries, Yields(k), calls' = Append(calls, entries[k])
      PROVE  Called(id)
  <2>1. entries[k] # id
    BY <1>1, YieldsNew
  <2>2. /\ DOMAIN calls' = 1 .. Len(calls) + 1 /\ DOMAIN calls = 1 .. Len(calls)
        /\ Len(calls) \in Nat
        /\ calls'[Len(calls) + 1] = entries[k] /\ \A j \in DOMAIN calls : calls'[j] = calls[j]
    <3>1. calls \in Seq(Ids) /\ entries[k] \in Ids
      BY <1>1, YieldsNew DEF CalledInv, DictInv, TypeOK
    <3>2. QED
      BY <1>1, <3>1
  <2>3. PICK j \in DOMAIN calls' : calls'[j] = id
    BY DEF Called
  <2>4. j \in DOMAIN calls
    BY <2>1, <2>2, <2>3
  <2>5. QED
    BY <2>2, <2>3, <2>4 DEF Called
<1>2. ASSUME UNCHANGED calls PROVE Called(id)
  BY <1>2 DEF Called
<1>3. ASSUME NEW symbol \in Feeds, Begin(symbol) PROVE Called(id)
  BY <1>3 DEF Begin, Called
<1>4. ASSUME NEW k \in DOMAIN entries, Skip(k) \/ Misread(k) \/ Quiet(k) \/ Throws(k) \/ Signals(k)
      PROVE  Called(id)
  <2>1. CASE Skip(k) \/ Misread(k)
    <3>1. UNCHANGED histVars
      BY <2>1 DEF Skip, Misread
    <3>2. QED
      BY <1>2, <3>1 DEF histVars
  <2>2. CASE Quiet(k) \/ Throws(k) \/ Signals(k)
    <3>1. Yields(k) /\ calls' = Append(calls, entries[k])
      BY <2>2 DEF Quiet, Throws, Signals
    <3>2. QED
      BY <1>1, <3>1
  <2>3. QED
    BY <1>4, <2>1, <2>2
<1>5. CASE Dispatch
  BY <1>2, <1>3, <1>4, <1>5
     DEF Dispatch, EndIteration, Published, PublishFails, NotApplied, AnswerLost, Fails, histVars
<1>6. CASE Requests
  BY <1>2, <1>6 DEF Requests, Add, Remove, Patch
<1>7. QED
  BY <1>5, <1>6 DEF Next

\* A strategy whose removal was answered is not called again, not even by the
\* dispatch that awaited a publication when the request came (lab.py 133-141).
THEOREM RegistryNotCalledOnceRemoved == Spec => NotCalledOnceRemoved
<1>1. QED
  BY InitCalled, NextCalled, StepCalls, PTL DEF Spec, NotCalledOnceRemoved

-----------------------------------------------------------------------------
(* Every signal that was counted is accounted for. *)

InFlight(id) == IF cur = id /\ stage \in Awaits \ {"trim"} THEN 1 ELSE 0
Trimming(id) == IF cur = id /\ stage = "trim" THEN 1 ELSE 0

Accounted(id) ==
  /\ rec[id].signals = pushed[id] + lost[id] + InFlight(id)
  /\ rec[id].errors >= lost[id] + untrimmed[id]
  /\ stored[id] <= pushed[id]
  /\ stored[id] <= Keep + untrimmed[id] + Trimming(id)

\* An id that was not handed out yet: Add will give it a record without signals.
Unused(id) ==
  /\ pushed[id] = 0 /\ lost[id] = 0 /\ stored[id] = 0 /\ untrimmed[id] = 0
  /\ ~(cur = id /\ stage \in Awaits)

SignalsInv ==
  /\ DictInv
  /\ \A id \in Ids : Accounted(id)
  /\ \A id \in Ids \ (Live \cup removed) : Unused(id)

LEMMA InitSignals == Init => SignalsInv
<1> SUFFICES ASSUME Init, NEW id \in Ids PROVE DictInv /\ Accounted(id) /\ Unused(id)
  BY InitDict DEF SignalsInv
<1>1. /\ rec[id].signals = 0 /\ rec[id].errors = 0 /\ pushed[id] = 0 /\ lost[id] = 0
      /\ stored[id] = 0 /\ untrimmed[id] = 0 /\ stage = "idle"
  BY DEF Init, Fresh
<1>2. "idle" \notin Awaits
  BY DEF Awaits
<1>3. Keep \in Nat
  BY ConstantTypes
<1>4. InFlight(id) = 0 /\ Trimming(id) = 0
  BY <1>1, <1>2 DEF InFlight, Trimming
<1>5. Accounted(id)
  BY <1>1, <1>3, <1>4 DEF Accounted
<1>6. QED
  BY <1>1, <1>2, <1>5, InitDict DEF Unused

\* The numbers of one strategy.
LEMMA Numbers ==
  ASSUME TypeOK, NEW id \in Ids
  PROVE  /\ rec[id] \in Record /\ rec[id].signals \in Nat /\ rec[id].errors \in Nat
         /\ pushed[id] \in Nat /\ lost[id] \in Nat /\ stored[id] \in Nat
         /\ untrimmed[id] \in Nat /\ Keep \in Nat
         /\ InFlight(id) \in 0 .. 1 /\ Trimming(id) \in 0 .. 1
<1>1. rec[id] \in Record
  BY DEF TypeOK
<1>2. rec[id].signals \in Nat /\ rec[id].errors \in Nat
  BY <1>1 DEF Record
<1>3. QED
  BY <1>1, <1>2, ConstantTypes DEF TypeOK, InFlight, Trimming

\* No publication begins or ends, and the numbers stay.
SameNumbers(id) ==
  /\ rec'[id].signals = rec[id].signals
  /\ pushed'[id] = pushed[id] /\ lost'[id] = lost[id] /\ stored'[id] = stored[id]
  /\ untrimmed'[id] = untrimmed[id]
  /\ InFlight(id)' = InFlight(id) /\ Trimming(id)' = Trimming(id)

LEMMA SameAccounted ==
  ASSUME TypeOK, TypeOK', NEW id \in Ids, Accounted(id), SameNumbers(id),
         rec'[id].errors >= rec[id].errors
  PROVE  Accounted(id)'
<1>1. /\ rec[id].errors \in Nat /\ rec'[id].errors \in Nat /\ lost[id] \in Nat
      /\ untrimmed[id] \in Nat
  <2>1. rec'[id] \in Record
    BY DEF TypeOK
  <2>2. rec'[id].errors \in Nat
    BY <2>1 DEF Record
  <2>3. QED
    BY <2>2, Numbers
<1>2. rec'[id].errors >= lost[id] + untrimmed[id]
  BY <1>1 DEF Accounted
<1>3. QED
  BY <1>2 DEF Accounted, SameNumbers

\* A step that leaves the ids handed out, the lists and the publication alone.
LEMMA SameSignals ==
  ASSUME SignalsInv, DictInv', Live' \cup removed' = Live \cup removed,
         UNCHANGED listVars, stage \notin Awaits, stage' \notin Awaits,
         \A id \in Ids : rec'[id].signals = rec[id].signals /\ rec'[id].errors >= rec[id].errors
  PROVE  SignalsInv'
<1>1. ASSUME NEW id \in Ids PROVE SameNumbers(id)
  <2>1. "trim" \in Awaits
    BY DEF Awaits
  <2>2. QED
    BY <2>1 DEF SameNumbers, InFlight, Trimming, listVars
<1>2. ASSUME NEW id \in Ids PROVE Accounted(id)'
  BY <1>1, SameAccounted DEF SignalsInv, DictInv
<1>3. ASSUME NEW id \in Ids \ (Live' \cup removed') PROVE Unused(id)'
  BY DEF SignalsInv, Unused, listVars
<1>4. QED
  BY <1>2, <1>3 DEF SignalsInv

\* The keys after an insertion and after a removal.
LEMMA LiveKeys ==
  ASSUME TypeOK, Distinct
  PROVE  /\ Live = {entries[k] : k \in Kept} /\ Live \subseteq Ids
         /\ \A id \in Ids \ Live : Insert(id) /\ TypeOK' => Live' = Live \cup {id}
         /\ \A id \in Live : entries' = Without(id) => Live' \cup {id} = Live
<1>1. Live = {entries[k] : k \in Kept}
  BY DEF Live, Kept
<1>2. Live' = {entries'[k] : k \in Kept'}
  BY DEF Live, Kept
<1>3. \A k \in Kept : entries[k] \in Ids
  BY KeptType
<1>4. ASSUME NEW id \in Ids \ Live, Insert(id), TypeOK' PROVE Live' = Live \cup {id}
  <2>1. /\ Len(entries') \in Nat \ {0} /\ entries'[Len(entries')] = id
        /\ \A k \in Kept : \E i \in Kept' : entries'[i] = entries[k]
        /\ \A i \in Kept' : i # Len(entries') => \E k \in Kept : entries'[i] = entries[k]
    BY <1>4, InsertKeeps
  <2>2. Len(entries') \in Kept'
    <3>1. Len(entries') \in DOMAIN entries'
      <4>1. entries' \in Seq(Ids \cup {Hole})
        BY <1>4 DEF TypeOK
      <4>2. QED
        BY <2>1, <4>1
    <3>2. id # Hole
      BY ConstantTypes
    <3>3. QED
      BY <2>1, <3>1, <3>2 DEF Kept
  <2>3. QED
    BY <1>1, <1>2, <2>1, <2>2
<1>5. ASSUME NEW id \in Live, entries' = Without(id) PROVE Live' \cup {id} = Live
  <2>1. /\ DOMAIN entries' = DOMAIN entries
        /\ \A k \in DOMAIN entries : entries'[k] = IF entries[k] = id THEN Hole ELSE entries[k]
    BY <1>5 DEF Without
  <2>2. QED
    BY <1>5, <2>1 DEF Live
<1>6. QED
  BY <1>1, <1>3, <1>4, <1>5

LEMMA NextSignals == SignalsInv /\ [Next]_vars => SignalsInv'
<1> SUFFICES ASSUME SignalsInv, [Next]_vars PROVE SignalsInv'
  OBVIOUS
<1>1. DictInv /\ TypeOK /\ Distinct /\ DictInv' /\ TypeOK'
  BY NextDict DEF SignalsInv, DictInv
<1>2. UNCHANGED entries => Live' = Live
  BY DEF Live
<1>3. \A id \in Ids : rec[id].errors >= rec[id].errors
  BY <1>1, Numbers
<1>4. "next" \notin Awaits /\ "idle" \notin Awaits
  BY DEF Awaits
<1>5. ASSUME NEW symbol \in Feeds, Begin(symbol) PROVE SignalsInv'
  BY <1>1, <1>2, <1>3, <1>4, <1>5, SameSignals DEF Begin, dictVars
<1>6. CASE EndIteration
  BY <1>1, <1>2, <1>3, <1>4, <1>6, SameSignals DEF EndIteration, GiveUp, dictVars, histVars
<1>7. ASSUME NEW k \in DOMAIN entries, Skip(k) \/ Misread(k) \/ Quiet(k) PROVE SignalsInv'
  <2>1. UNCHANGED <<entries, removed, rec, listVars>> /\ stage = "next"
    BY <1>7 DEF Skip, Misread, Quiet, Yields, dictVars, histVars
  <2>2. stage' \notin Awaits
    BY <1>4, <1>7, <2>1 DEF Skip, Misread, Quiet, GiveUp, AfterSkip
  <2>3. QED
    BY <1>1, <1>2, <1>3, <1>4, <2>1, <2>2, SameSignals
<1>8. ASSUME NEW k \in DOMAIN entries, Throws(k) PROVE SignalsInv'
  <2>1. UNCHANGED <<entries, removed, listVars, stage>> /\ stage = "next"
    BY <1>8 DEF Throws, Yields, dictVars
  <2>2. ASSUME NEW id \in Ids
        PROVE  rec'[id].signals = rec[id].signals /\ rec'[id].errors >= rec[id].errors
    <3>1. rec' = [rec EXCEPT ![entries[k]] = [rec[entries[k]] EXCEPT !.errors = @ + 1]]
      BY <1>8 DEF Throws
    <3>2. rec \in [Ids -> Record] /\ rec[id] \in Record /\ rec[id].errors \in Nat
      BY <1>1, Numbers DEF TypeOK
    <3>3. rec'[id] = rec[id] \/ rec'[id] = [rec[id] EXCEPT !.errors = @ + 1]
      BY <3>1, <3>2
    <3>4. QED
      BY <3>2, <3>3 DEF Record
  <2>3. QED
    BY <1>1, <1>2, <1>4, <2>1, <2>2, SameSignals
<1>9. ASSUME NEW k \in DOMAIN entries, Signals(k) PROVE SignalsInv'
  <2>1. /\ UNCHANGED <<entries, removed, listVars>> /\ stage = "next" /\ stage' = "broadcast"
        /\ cur' = entries[k] /\ k \in Kept
        /\ rec' = [rec EXCEPT ![entries[k]] = [rec[entries[k]] EXCEPT !.signals = @ + 1]]
    BY <1>9 DEF Signals, Yields, KeysFrom, dictVars
  <2>2. entries[k] \in Live
    BY <1>1, <2>1, LiveKeys
  <2>3. ASSUME NEW id \in Ids PROVE Accounted(id)'
    <3>1. /\ rec \in [Ids -> Record] /\ rec[id] \in Record /\ rec[id].signals \in Nat
          /\ pushed[id] \in Nat /\ lost[id] \in Nat
      BY <1>1, Numbers DEF TypeOK
    <3>2. InFlight(id) = 0 /\ Trimming(id) = 0 /\ Trimming(id)' = 0
      BY <1>4, <2>1 DEF InFlight, Trimming
    <3>3. CASE id = entries[k]
      <4>1. rec'[id].signals = rec[id].signals + 1 /\ rec'[id].errors = rec[id].errors
        BY <2>1, <3>1, <3>3 DEF Record
      <4>2. InFlight(id)' = 1
        BY <2>1, <3>3 DEF InFlight, Awaits
      <4>3. rec'[id].signals = pushed[id] + lost[id] + 1
        BY <3>1, <3>2, <4>1 DEF SignalsInv, Accounted
      <4>4. QED
        BY <2>1, <3>2, <4>1, <4>2, <4>3 DEF SignalsInv, Accounted, listVars
    <3>4. CASE id # entries[k]
      <4>1. rec'[id] = rec[id] /\ InFlight(id)' = 0
        BY <2>1, <3>1, <3>4 DEF InFlight
      <4>2. QED
        BY <2>1, <3>2, <4>1 DEF SignalsInv, Accounted, listVars
    <3>5. QED
      BY <3>3, <3>4
  <2>4. ASSUME NEW id \in Ids \ (Live' \cup removed') PROVE Unused(id)'
    <3>1. id \notin Live /\ id \notin removed /\ id # cur'
      BY <1>2, <2>1, <2>2
    <3>2. QED
      BY <2>1, <3>1 DEF SignalsInv, Unused, listVars
  <2>5. QED
    BY <1>1, <2>3, <2>4 DEF SignalsInv
<1>10. CASE Published
  <2>1. /\ stage \in Awaits /\ stage' = After(stage) /\ cur \in Ids
        /\ UNCHANGED <<entries, removed, rec, lost, cur>>
    BY <1>1, <1>10 DEF Published, TypeOK, dictVars, histVars
  <2>2. ASSUME NEW id \in Ids, id # cur
        PROVE  /\ stored'[id] = stored[id] /\ pushed'[id] = pushed[id]
               /\ untrimmed'[id] = untrimmed[id]
    BY <1>1, <1>10, <2>2 DEF Published, TypeOK
  <2>3. ASSUME NEW id \in Ids, id # cur PROVE Accounted(id)'
    <3>1. SameNumbers(id)
      BY <2>1, <2>2, <2>3 DEF SameNumbers, InFlight, Trimming
    <3>2. QED
      BY <1>1, <1>3, <2>1, <3>1, SameAccounted DEF SignalsInv
  <2>4. Accounted(cur)'
    <3>1. /\ rec[cur].signals \in Nat /\ rec[cur].errors \in Nat /\ Keep \in Nat
          /\ pushed[cur] \in Nat /\ lost[cur] \in Nat /\ stored[cur] \in Nat
          /\ untrimmed[cur] \in Nat /\ Accounted(cur)
      BY <1>1, <2>1, Numbers DEF SignalsInv
    <3>2. /\ stored'[cur] = IF stage = "push" THEN stored[cur] + 1
                            ELSE IF stage = "trim" THEN Trimmed(stored[cur]) ELSE stored[cur]
          /\ pushed'[cur] = IF stage = "push" THEN pushed[cur] + 1 ELSE pushed[cur]
          /\ untrimmed'[cur] = IF stage = "trim" THEN 0 ELSE untrimmed[cur]
      BY <1>1, <1>10, <2>1 DEF Published, ListAfter, PushesAfter, TypeOK
    <3>3. stage \in {"broadcast", "broadcastAll", "push", "trim"}
      BY <2>1 DEF Awaits
    <3>4. CASE stage \in {"broadcast", "broadcastAll"}
      <4>1. stage' \in {"broadcastAll", "push"}
        BY <2>1, <3>4 DEF After
      <4>2. SameNumbers(cur)
        BY <2>1, <3>2, <3>4, <4>1 DEF SameNumbers, InFlight, Trimming, Awaits
      <4>3. QED
        BY <1>1, <1>3, <2>1, <3>1, <4>2, SameAccounted
    <3>5. CASE stage = "push"
      <4>1. stage' = "trim"
        BY <2>1, <3>5 DEF After
      <4>2. InFlight(cur) = 1 /\ Trimming(cur) = 0 /\ InFlight(cur)' = 0 /\ Trimming(cur)' = 1
        BY <2>1, <3>5, <4>1 DEF InFlight, Trimming, Awaits
      <4>3. /\ stored'[cur] = stored[cur] + 1 /\ pushed'[cur] = pushed[cur] + 1
            /\ untrimmed'[cur] = untrimmed[cur]
        BY <3>2, <3>5
      <4>4. /\ rec[cur].signals = pushed'[cur] + lost[cur] + 0
            /\ stored'[cur] <= pushed'[cur] /\ stored'[cur] <= Keep + untrimmed[cur] + 1
        BY <3>1, <4>2, <4>3 DEF Accounted
      <4>5. QED
        BY <2>1, <3>1, <4>2, <4>3, <4>4 DEF Accounted
    <3>6. CASE stage = "trim"
      <4>1. stage' = "next"
        BY <2>1, <3>6 DEF After
      <4>2. /\ InFlight(cur) = 0 /\ InFlight(cur)' = 0 /\ Trimming(cur)' = 0
            /\ untrimmed'[cur] = 0
        BY <3>2, <2>1, <3>6, <4>1 DEF InFlight, Trimming, Awaits
      <4>3. stored'[cur] <= stored[cur] /\ stored'[cur] <= Keep /\ pushed'[cur] = pushed[cur]
            /\ stored'[cur] \in Nat
        BY <3>1, <3>2, <3>6 DEF Trimmed
      <4>4. /\ stored'[cur] <= pushed'[cur] /\ stored'[cur] <= Keep + 0 + 0
            /\ rec[cur].errors >= lost[cur] + 0
        BY <3>1, <4>3 DEF Accounted
      <4>5. QED
        BY <2>1, <3>1, <4>2, <4>3, <4>4 DEF Accounted
    <3>7. QED
      BY <3>3, <3>4, <3>5, <3>6
  <2>5. ASSUME NEW id \in Ids \ (Live' \cup removed') PROVE Unused(id)'
    <3>1. Unused(id) /\ id # cur
      BY <1>2, <2>1 DEF SignalsInv, Unused
    <3>2. QED
      BY <2>1, <2>2, <3>1 DEF Unused
  <2>6. QED
    <3>1. \A id \in Ids : Accounted(id)'
      BY <2>1, <2>3, <2>4
    <3>2. QED
      BY <1>1, <2>5, <3>1 DEF SignalsInv
<1>11. CASE PublishFails
  <2>1. /\ stage \in Awaits /\ stage' = "next" /\ cur \in Ids
        /\ UNCHANGED <<entries, removed, cur>>
    BY <1>1, <1>11 DEF PublishFails, NotApplied, AnswerLost, Fails, TypeOK, dictVars, histVars
  <2>2. /\ rec' = [rec EXCEPT ![cur] = [rec[cur] EXCEPT !.errors = @ + 1]]
        /\ rec \in [Ids -> Record]
    BY <1>1, <1>11 DEF PublishFails, NotApplied, AnswerLost, Fails, CountedError, TypeOK
  <2>3. ASSUME NEW id \in Ids, id # cur
        PROVE  /\ rec'[id] = rec[id] /\ stored'[id] = stored[id] /\ pushed'[id] = pushed[id]
               /\ lost'[id] = lost[id] /\ untrimmed'[id] = untrimmed[id]
    BY <1>1, <1>11, <2>2, <2>3, ListTypes DEF PublishFails, NotApplied, AnswerLost
  <2>4. ASSUME NEW id \in Ids, id # cur PROVE Accounted(id)'
    <3>1. SameNumbers(id)
      BY <2>1, <2>3, <2>4 DEF SameNumbers, InFlight, Trimming
    <3>2. rec'[id].errors >= rec[id].errors
      BY <1>3, <2>3, <2>4
    <3>3. QED
      BY <1>1, <3>1, <3>2, SameAccounted DEF SignalsInv
  <2>5. Accounted(cur)'
    <3>1. /\ rec[cur] \in Record /\ rec[cur].signals \in Nat /\ rec[cur].errors \in Nat
          /\ Keep \in Nat /\ pushed[cur] \in Nat /\ lost[cur] \in Nat /\ stored[cur] \in Nat
          /\ untrimmed[cur] \in Nat /\ Accounted(cur)
      BY <1>1, <2>1, Numbers DEF SignalsInv
    <3>2. rec'[cur].signals = rec[cur].signals /\ rec'[cur].errors = rec[cur].errors + 1
      BY <2>1, <2>2, <3>1 DEF Record
    <3>3. InFlight(cur)' = 0 /\ Trimming(cur)' = 0
      BY <1>4, <2>1 DEF InFlight, Trimming
    <3>4. CASE stage = "trim"
      <4>1. InFlight(cur) = 0 /\ Trimming(cur) = 1
        BY <2>1, <3>4 DEF InFlight, Trimming
      <4>2. pushed'[cur] = pushed[cur] /\ lost'[cur] = lost[cur]
        BY <1>1, <1>11, <3>4, ListTypes DEF PublishFails, NotApplied, AnswerLost, PushesAfter
      <4>3. \/ stored'[cur] = stored[cur] /\ untrimmed'[cur] = untrimmed[cur] + 1
            \/ stored'[cur] = Trimmed(stored[cur]) /\ untrimmed'[cur] = 0
        BY <1>1, <1>11, <3>4, ListTypes DEF PublishFails, NotApplied, AnswerLost, ListAfter
      <4>4. /\ rec'[cur].signals = pushed'[cur] + lost'[cur] + 0
            /\ rec'[cur].errors >= lost'[cur] + untrimmed'[cur]
            /\ stored'[cur] <= pushed'[cur]
            /\ stored'[cur] <= Keep + untrimmed'[cur] + 0
        BY <3>1, <3>2, <4>1, <4>2, <4>3 DEF Accounted, Trimmed
      <4>5. QED
        BY <2>1, <3>3, <4>4 DEF Accounted
    <3>5. CASE stage # "trim"
      <4>1. InFlight(cur) = 1 /\ Trimming(cur) = 0
        BY <2>1, <3>5 DEF InFlight, Trimming
      <4>2. \/ /\ lost'[cur] = lost[cur] + 1 /\ pushed'[cur] = pushed[cur]
               /\ stored'[cur] = stored[cur] /\ untrimmed'[cur] = untrimmed[cur]
            \/ /\ lost'[cur] = lost[cur] /\ pushed'[cur] = pushed[cur] + 1
               /\ stored'[cur] = stored[cur] + 1 /\ untrimmed'[cur] = untrimmed[cur] + 1
        BY <1>1, <1>11, <3>5, ListTypes
           DEF PublishFails, NotApplied, AnswerLost, ListAfter, PushesAfter
      <4>3. /\ rec'[cur].signals = pushed'[cur] + lost'[cur] + 0
            /\ rec'[cur].errors >= lost'[cur] + untrimmed'[cur]
            /\ stored'[cur] <= pushed'[cur]
            /\ stored'[cur] <= Keep + untrimmed'[cur] + 0
        BY <3>1, <3>2, <4>1, <4>2 DEF Accounted
      <4>4. QED
        BY <2>1, <3>3, <4>3 DEF Accounted
    <3>6. QED
      BY <3>4, <3>5
  <2>6. ASSUME NEW id \in Ids \ (Live' \cup removed') PROVE Unused(id)'
    <3>1. Unused(id) /\ id # cur
      BY <1>2, <2>1 DEF SignalsInv, Unused
    <3>2. QED
      BY <2>1, <2>3, <3>1 DEF Unused
  <2>7. QED
    <3>1. \A id \in Ids : Accounted(id)'
      BY <2>1, <2>4, <2>5
    <3>2. QED
      BY <1>1, <2>6, <3>1 DEF SignalsInv
<1>12. ASSUME NEW id \in Ids, NEW symbols \in Subscriptions, Add(id, symbols) PROVE SignalsInv'
  <2>1. /\ id \notin Live /\ id \notin removed /\ Insert(id)
        /\ rec' = [rec EXCEPT ![id] = [Fresh EXCEPT !.symbols = symbols]]
        /\ UNCHANGED <<listVars, stage, cur, removed>>
    BY <1>12 DEF Add
  <2>2. Live' = Live \cup {id}
    BY <1>1, <2>1, LiveKeys
  <2>3. ASSUME NEW other \in Ids, other # id PROVE Accounted(other)'
    <3>1. rec'[other] = rec[other]
      BY <1>1, <2>1, <2>3 DEF TypeOK
    <3>2. SameNumbers(other)
      BY <2>1, <3>1 DEF SameNumbers, InFlight, Trimming, listVars
    <3>3. QED
      BY <1>1, <1>3, <3>1, <3>2, SameAccounted DEF SignalsInv
  <2>4. Accounted(id)'
    <3>1. Unused(id)
      BY <2>1 DEF SignalsInv
    <3>2. rec'[id].signals = 0 /\ rec'[id].errors = 0
      BY <1>1, <2>1 DEF TypeOK, Fresh
    <3>3. InFlight(id)' = 0 /\ Trimming(id)' = 0 /\ Keep \in Nat
      BY <2>1, <3>1, ConstantTypes DEF Unused, InFlight, Trimming, Awaits
    <3>4. QED
      BY <2>1, <3>1, <3>2, <3>3 DEF Unused, Accounted, listVars
  <2>5. ASSUME NEW other \in Ids \ (Live' \cup removed') PROVE Unused(other)'
    BY <2>1, <2>2 DEF SignalsInv, Unused, listVars
  <2>6. QED
    BY <1>1, <2>3, <2>4, <2>5 DEF SignalsInv
<1>13. ASSUME NEW id \in Ids, Remove(id) PROVE SignalsInv'
  <2>1. /\ id \in Live /\ entries' = Without(id) /\ removed' = removed \cup {id}
        /\ UNCHANGED <<rec, listVars, stage, cur>>
    BY <1>13 DEF Remove
  <2>2. Live' \cup removed' = Live \cup removed
    BY <1>1, <2>1, LiveKeys
  <2>3. ASSUME NEW other \in Ids PROVE Accounted(other)'
    <3>1. SameNumbers(other)
      BY <2>1 DEF SameNumbers, InFlight, Trimming, listVars
    <3>2. QED
      BY <1>1, <1>3, <2>1, <3>1, SameAccounted DEF SignalsInv
  <2>4. QED
    BY <1>1, <2>1, <2>2, <2>3 DEF SignalsInv, Unused, listVars
<1>14. ASSUME NEW id \in Ids, NEW active \in BOOLEAN, Patch(id, active) PROVE SignalsInv'
  <2>1. /\ rec' = [rec EXCEPT ![id] = [rec[id] EXCEPT !.enabled = active]]
        /\ UNCHANGED <<entries, listVars, stage, cur, removed>>
    BY <1>14 DEF Patch, dictVars
  <2>2. ASSUME NEW other \in Ids
        PROVE  rec'[other].signals = rec[other].signals /\ rec'[other].errors = rec[other].errors
    <3>1. rec \in [Ids -> Record] /\ rec[other] \in Record
      BY <1>1 DEF TypeOK
    <3>2. rec'[other] = rec[other] \/ rec'[other] = [rec[other] EXCEPT !.enabled = active]
      BY <2>1, <3>1
    <3>3. QED
      BY <3>1, <3>2 DEF Record
  <2>3. ASSUME NEW other \in Ids PROVE Accounted(other)'
    <3>1. SameNumbers(other)
      BY <2>1, <2>2 DEF SameNumbers, InFlight, Trimming, listVars
    <3>2. QED
      BY <1>1, <1>3, <2>2, <3>1, SameAccounted DEF SignalsInv
  <2>4. QED
    BY <1>1, <1>2, <2>1, <2>3 DEF SignalsInv, Unused, listVars
<1>15. CASE UNCHANGED vars
  BY <1>1, <1>2, <1>15
     DEF SignalsInv, Accounted, Unused, InFlight, Trimming, vars, dictVars, listVars, histVars
<1>16. QED
  BY <1>5, <1>6, <1>7, <1>8, <1>9, <1>10, <1>11, <1>12, <1>13, <1>14, <1>15
     DEF Next, Dispatch, Requests

\* A counted signal is in its list, lost, or being published.  A loss, and a push whose
\* publication failed since the last trim, has an error of its own; only by those
\* pushes is a list over its limit (registry.py 74-79, 110-114).
THEOREM RegistrySignalsAccounted == Spec => []SignalsAccounted
<1>1. SignalsInv => SignalsAccounted
  BY DEF SignalsInv, SignalsAccounted, Accounted, InFlight, Trimming
<1>2. QED
  BY <1>1, InitSignals, NextSignals, PTL DEF Spec

-----------------------------------------------------------------------------
(* A dispatch that nobody disturbs reaches every strategy that waits for it. *)

\* The iterator expects as many keys as are ahead of it, and every steady strategy
\* was called or is ahead.
Ahead ==
  /\ iter.used = Cardinality(Kept) /\ iter.left = Cardinality(KeysFrom(iter.pos + 1))
  /\ \A id \in steady : Called(id) \/ \E k \in KeysFrom(iter.pos + 1) : entries[k] = id

Reached ==
  \/ result = "done" /\ \A id \in steady : Called(id)
  \/ result = "raised" /\ \E id \in Live : ~Readable(id)

ReachInv ==
  /\ DictInv
  /\ ~changed =>
       /\ \A id \in steady : rec[id].enabled /\ Subscribed(id, event)
       /\ stage # "idle" => Ahead
       /\ stage = "idle" /\ events > 0 => Reached

LEMMA InitReach == Init => ReachInv
<1> SUFFICES ASSUME Init PROVE ReachInv
  OBVIOUS
<1>1. steady = {} /\ stage = "idle" /\ events = 0
  BY DEF Init
<1>2. QED
  BY <1>1, InitDict DEF ReachInv

\* The strategy is on or off as before, for the same symbols.
SameWishes ==
  \A id \in Ids : rec'[id].enabled = rec[id].enabled /\ rec'[id].symbols = rec[id].symbols

\* A counter that moves changes no strategy's wishes.
LEMMA CountedWishes ==
  ASSUME TypeOK, NEW id \in Ids,
         \/ rec' = rec
         \/ rec' = [rec EXCEPT ![id] = [rec[id] EXCEPT !.errors = @ + 1]]
         \/ rec' = [rec EXCEPT ![id] = [rec[id] EXCEPT !.signals = @ + 1]]
  PROVE  SameWishes
<1> SUFFICES ASSUME NEW other \in Ids
             PROVE  /\ rec'[other].enabled = rec[other].enabled
                    /\ rec'[other].symbols = rec[other].symbols
  BY DEF SameWishes
<1>1. rec \in [Ids -> Record] /\ rec[other] \in Record
  BY DEF TypeOK
<1>2. \/ rec'[other] = rec[other]
      \/ rec'[other] = [rec[other] EXCEPT !.errors = @ + 1]
      \/ rec'[other] = [rec[other] EXCEPT !.signals = @ + 1]
  BY <1>1
<1>3. QED
  BY <1>1, <1>2 DEF Record

\* The iterator takes the first key ahead of it.
LEMMA TakesFirst ==
  ASSUME TypeOK, NEW k \in DOMAIN entries, Yields(k), Cardinality(KeysFrom(iter.pos + 1)) = iter.left
  PROVE  /\ KeysFrom(k + 1) = KeysFrom(iter.pos + 1) \ {k}
         /\ Cardinality(KeysFrom(k + 1)) = iter.left - 1
<1>1. k \in KeysFrom(iter.pos + 1) /\ \A j \in KeysFrom(iter.pos + 1) : k <= j
  BY DEF Yields
<1>2. /\ IsFiniteSet(Kept) /\ \A j \in Kept : j \in Nat
      /\ iter.pos \in Nat /\ iter.left \in Nat
  <2>1. IsFiniteSet(Kept) /\ \A j \in Kept : j \in Nat
    BY KeptType
  <2>2. iter.pos \in Nat /\ iter.left \in Nat
    BY DEF TypeOK
  <2>3. QED
    BY <2>1, <2>2
<1>3. \A j \in Kept : j >= k + 1 <=> j >= iter.pos + 1 /\ j # k
  <2>1. k \in Nat /\ k >= iter.pos + 1
    BY <1>1, <1>2 DEF KeysFrom
  <2>2. \A j \in Kept : j >= iter.pos + 1 => k <= j
    BY <1>1 DEF KeysFrom
  <2>3. QED
    BY <1>2, <2>1, <2>2
<1>4. KeysFrom(k + 1) = KeysFrom(iter.pos + 1) \ {k}
  BY <1>3 DEF KeysFrom
<1>5. IsFiniteSet(KeysFrom(iter.pos + 1))
  BY <1>2, FS_Subset DEF KeysFrom
<1>6. QED
  BY <1>1, <1>4, <1>5, FS_RemoveElement

\* The iterator passed k, whose strategy was called or did not want the event.
Passes(k) ==
  /\ UNCHANGED <<entries, steady, changed, event, events>>
  /\ iter' = [iter EXCEPT !.pos = k, !.left = @ - 1] /\ stage' # "idle"
  /\ \A id \in Ids : Called(id) => Called(id)'
  /\ entries[k] \in steady => Called(entries[k])'

LEMMA PassKeeps ==
  ASSUME ReachInv, DictInv', SameWishes, NEW k \in DOMAIN entries, Yields(k), Passes(k)
  PROVE  ReachInv'
<1> SUFFICES ASSUME ~changed'
             PROVE  /\ \A id \in steady' : rec'[id].enabled /\ Subscribed(id, event)'
                    /\ Ahead'
  BY DEF ReachInv, Passes
<1>1. TypeOK /\ steady \subseteq Ids
  BY DEF ReachInv, DictInv, TypeOK
<1>2. stage = "next" /\ Ahead /\ \A id \in steady : rec[id].enabled /\ Subscribed(id, event)
  BY DEF ReachInv, Yields, Passes
<1>3. \A id \in steady' : rec'[id].enabled /\ Subscribed(id, event)'
  <2> SUFFICES ASSUME NEW id \in steady PROVE rec'[id].enabled /\ Subscribed(id, event)'
    BY DEF Passes
  <2>1. rec'[id].enabled = rec[id].enabled /\ rec'[id].symbols = rec[id].symbols
    BY <1>1 DEF SameWishes
  <2>2. QED
    BY <1>2, <2>1 DEF Subscribed, Readable, Passes
<1>4. /\ KeysFrom(k + 1) = KeysFrom(iter.pos + 1) \ {k}
      /\ Cardinality(KeysFrom(k + 1)) = iter.left - 1
  BY <1>1, <1>2, TakesFirst DEF Ahead
<1>5. iter'.pos = k /\ iter'.left = iter.left - 1 /\ iter'.used = iter.used
  BY <1>1 DEF Passes, TypeOK
<1>6. Kept' = Kept /\ entries' = entries /\ steady' = steady
  BY DEF Passes, Kept
<1>7. KeysFrom(iter.pos + 1)' = KeysFrom(k + 1)
  BY <1>5, <1>6 DEF KeysFrom
<1>8. ASSUME NEW id \in steady
      PROVE  Called(id)' \/ \E j \in KeysFrom(k + 1) : entries[j] = id
  <2>1. CASE Called(id)
    BY <1>1, <2>1 DEF Passes
  <2>2. ASSUME NEW j \in KeysFrom(iter.pos + 1), entries[j] = id
        PROVE  Called(id)' \/ \E i \in KeysFrom(k + 1) : entries[i] = id
    <3>1. CASE j = k
      BY <2>2, <3>1 DEF Passes
    <3>2. CASE j # k
      BY <1>4, <2>2, <3>2
    <3>3. QED
      BY <3>1, <3>2
  <2>3. QED
    BY <1>2, <2>1, <2>2 DEF Ahead
<1>9. Ahead'
  BY <1>2, <1>4, <1>5, <1>6, <1>7, <1>8 DEF Ahead
<1>10. QED
  BY <1>3, <1>9

\* A step between two iterations, or that changes nothing the iteration looks at.
LEMMA AwaitKeeps ==
  ASSUME ReachInv, DictInv', SameWishes,
         UNCHANGED <<entries, steady, changed, event, events, iter, calls, result>>,
         stage = "idle" <=> stage' = "idle"
  PROVE  ReachInv'
<1> SUFFICES ASSUME ~changed
             PROVE  /\ \A id \in steady : rec'[id].enabled /\ Subscribed(id, event)'
                    /\ stage # "idle" => Ahead'
                    /\ stage = "idle" /\ events > 0 => Reached'
  BY DEF ReachInv
<1>1. steady \subseteq Ids /\ Live \subseteq Ids
  BY LiveKeys DEF ReachInv, DictInv, TypeOK
<1>2. Kept' = Kept /\ Live' = Live /\ \A id : Called(id)' = Called(id)
  BY DEF Kept, Live, Called
<1>3. \A id \in steady : rec'[id].enabled /\ Subscribed(id, event)'
  <2> SUFFICES ASSUME NEW id \in steady PROVE rec'[id].enabled /\ Subscribed(id, event)'
    OBVIOUS
  <2>1. rec'[id].enabled = rec[id].enabled /\ rec'[id].symbols = rec[id].symbols
    BY <1>1 DEF SameWishes
  <2>2. QED
    BY <2>1 DEF Subscribed, Readable, ReachInv
<1>4. KeysFrom(iter.pos + 1)' = KeysFrom(iter.pos + 1)
  BY <1>2 DEF KeysFrom
<1>5. stage # "idle" => Ahead'
  BY <1>2, <1>4 DEF ReachInv, Ahead
<1>6. \A id \in Live : Readable(id)' = Readable(id)
  BY <1>1 DEF SameWishes, Readable
<1>7. stage = "idle" /\ events > 0 => Reached'
  BY <1>2, <1>6 DEF ReachInv, Reached
<1>8. QED
  BY <1>3, <1>5, <1>7

LEMMA NextReach == ReachInv /\ [Next]_vars => ReachInv'
<1> SUFFICES ASSUME ReachInv, [Next]_vars PROVE ReachInv'
  OBVIOUS
<1>1. DictInv /\ TypeOK /\ Distinct /\ DictInv' /\ TypeOK'
  BY NextDict DEF ReachInv, DictInv
<1>2. rec' = rec => SameWishes
  BY DEF SameWishes
<1>3. "next" \notin Awaits /\ "idle" \notin Awaits
  BY DEF Awaits
<1>4. ASSUME NEW symbol \in Feeds, Begin(symbol) PROVE ReachInv'
  <2>1. /\ UNCHANGED <<entries, rec>> /\ event' = symbol /\ stage' = "next" /\ iter' = Iterator
        /\ steady' = {i \in Live : rec[i].enabled /\ Subscribed(i, symbol)}
    BY <1>4 DEF Begin, dictVars
  <2>2. Kept' = Kept /\ \A k \in Kept : k \in Nat /\ k >= 1
    BY <1>1, <2>1, KeptType DEF Kept
  <2>3. iter'.pos = 0 /\ iter'.used = Cardinality(Kept) /\ iter'.left = Cardinality(Kept)
    BY <2>1 DEF Iterator
  <2>4. KeysFrom(iter.pos + 1)' = Kept
    BY <2>2, <2>3 DEF KeysFrom
  <2>5. \A id \in steady' : \E k \in Kept : entries[k] = id
    BY <1>1, <2>1, LiveKeys
  <2>6. Ahead'
    BY <2>1, <2>2, <2>3, <2>4, <2>5 DEF Ahead
  <2>7. \A id \in steady' : rec'[id].enabled /\ Subscribed(id, event)'
    BY <2>1 DEF Subscribed, Readable
  <2>8. QED
    BY <1>1, <2>1, <2>6, <2>7 DEF ReachInv
<1>5. CASE EndIteration
  <2>1. UNCHANGED <<entries, rec, steady, calls, changed, event>> /\ stage = "next" /\ stage' = "idle"
    BY <1>5 DEF EndIteration, GiveUp, dictVars, histVars
  <2> SUFFICES ASSUME ~changed PROVE Reached'
    BY <1>1, <2>1 DEF ReachInv, Subscribed, Readable
  <2>2. Ahead /\ iter.left = Cardinality(KeysFrom(iter.pos + 1)) /\ ~SizeChanged
    BY <2>1 DEF ReachInv, Ahead, SizeChanged
  <2>3. IsFiniteSet(KeysFrom(iter.pos + 1))
    BY <1>1, KeptType, FS_Subset DEF KeysFrom
  <2>4. KeysFrom(iter.pos + 1) # {} => iter.left # 0
    BY <2>2, <2>3, FS_EmptySet
  <2>5. KeysFrom(iter.pos + 1) = {} /\ result' = "done"
    BY <1>5, <2>2, <2>4 DEF EndIteration
  <2>6. \A id \in steady : Called(id)
    BY <2>2, <2>5 DEF Ahead
  <2>7. QED
    BY <2>1, <2>5, <2>6 DEF Reached, Called
<1>6. ASSUME NEW k \in DOMAIN entries, Misread(k) PROVE ReachInv'
  <2>1. /\ UNCHANGED <<entries, rec, steady, changed, event>> /\ stage' = "idle"
        /\ result' = "raised" /\ k \in Kept /\ ~Readable(entries[k])
    BY <1>6 DEF Misread, GiveUp, Yields, KeysFrom, dictVars, histVars
  <2>2. entries[k] \in Live' /\ ~Readable(entries[k])'
    BY <2>1 DEF Live, Kept, Readable
  <2>3. Reached'
    BY <2>1, <2>2 DEF Reached
  <2>4. QED
    BY <1>1, <2>1, <2>3 DEF ReachInv, Subscribed, Readable
<1>7. ASSUME NEW k \in DOMAIN entries, Skip(k) PROVE ReachInv'
  <2>1. Yields(k) /\ UNCHANGED <<entries, rec, calls, steady, changed, event, events>>
        /\ stage' = "next" /\ Advance(k)
    BY <1>7 DEF Skip, AfterSkip, dictVars, histVars
  <2>2. CASE changed
    BY <1>1, <2>1, <2>2 DEF ReachInv
  <2>3. CASE ~changed
    <3>1. entries[k] \notin steady
      BY <1>7, <2>3 DEF Skip, Wants, Subscribed, ReachInv
    <3>2. Passes(k)
      BY <2>1, <3>1 DEF Passes, Advance, Called
    <3>3. QED
      BY <1>1, <1>2, <2>1, <3>2, PassKeeps
  <2>4. QED
    BY <2>2, <2>3
<1>8. ASSUME NEW k \in DOMAIN entries, Quiet(k) \/ Throws(k) \/ Signals(k) PROVE ReachInv'
  <2>1. /\ Yields(k) /\ UNCHANGED <<entries, steady, changed, event, events>>
        /\ Advance(k) /\ calls' = Append(calls, entries[k])
    BY <1>8 DEF Quiet, Throws, Signals, dictVars
  <2>2. stage' # "idle"
    BY <1>8, <2>1 DEF Quiet, Throws, Signals, Yields
  <2>3. entries[k] \in Ids
    BY <1>1, <2>1, KeptType DEF Yields, KeysFrom
  <2>4. SameWishes
    BY <1>1, <1>8, <2>3, CountedWishes DEF Quiet, Throws, Signals
  <2>5. /\ DOMAIN calls' = 1 .. Len(calls) + 1 /\ DOMAIN calls = 1 .. Len(calls)
        /\ Len(calls) \in Nat /\ Len(calls) + 1 \in DOMAIN calls'
        /\ calls'[Len(calls) + 1] = entries[k] /\ \A j \in DOMAIN calls : calls'[j] = calls[j]
    <3>1. calls \in Seq(Ids)
      BY <1>1 DEF TypeOK
    <3>2. QED
      BY <2>1, <2>3, <3>1
  <2>6. Called(entries[k])'
    BY <2>1, <2>5 DEF Called
  <2>7. \A id \in Ids : Called(id) => Called(id)'
    BY <2>5 DEF Called
  <2>8. Passes(k)
    BY <2>1, <2>2, <2>6, <2>7 DEF Passes, Advance
  <2>9. QED
    BY <1>1, <2>1, <2>4, <2>8, PassKeeps
<1>9. CASE Published
  <2>1. /\ UNCHANGED <<entries, rec, steady, changed, event, events, iter, calls, result>>
        /\ stage # "idle" /\ stage' # "idle"
    BY <1>3, <1>9 DEF Published, After, Awaits, dictVars, histVars
  <2>2. QED
    BY <1>1, <1>2, <2>1, AwaitKeeps
<1>10. CASE PublishFails
  <2>1. /\ UNCHANGED <<entries, steady, changed, event, events, iter, calls, result>>
        /\ stage # "idle" /\ stage' # "idle"
        /\ rec' = [rec EXCEPT ![cur] = [rec[cur] EXCEPT !.errors = @ + 1]]
    BY <1>3, <1>10 DEF PublishFails, NotApplied, AnswerLost, Fails, CountedError, dictVars, histVars
  <2>2. SameWishes
    BY <1>1, <2>1, CountedWishes DEF TypeOK
  <2>3. QED
    BY <1>1, <2>1, <2>2, AwaitKeeps
<1>11. ASSUME NEW id \in Ids, (\E symbols \in Subscriptions : Add(id, symbols)) \/ Remove(id)
       PROVE  ReachInv'
  <2>1. changed' = TRUE
    BY <1>11 DEF Add, Remove
  <2>2. QED
    BY <1>1, <2>1 DEF ReachInv
<1>12. ASSUME NEW id \in Ids, NEW active \in BOOLEAN, Patch(id, active) PROVE ReachInv'
  <2>1. /\ UNCHANGED <<entries, changed, event, events, iter, calls, result, stage>>
        /\ rec' = [rec EXCEPT ![id] = [rec[id] EXCEPT !.enabled = active]]
        /\ steady' = IF active THEN steady ELSE steady \ {id}
    BY <1>12 DEF Patch, dictVars
  <2>2. ASSUME NEW other \in Ids
        PROVE  /\ rec'[other].symbols = rec[other].symbols
               /\ (other # id \/ active) /\ rec[other].enabled => rec'[other].enabled
    <3>1. rec \in [Ids -> Record] /\ rec[other] \in Record
      BY <1>1 DEF TypeOK
    <3>2. CASE other = id
      BY <2>1, <3>1, <3>2 DEF Record
    <3>3. CASE other # id
      BY <2>1, <3>1, <3>3
    <3>4. QED
      BY <3>2, <3>3
  <2>3. steady \subseteq Ids /\ steady' \subseteq steady /\ (active \/ id \notin steady') /\ Live \subseteq Ids
    BY <1>1, <2>1, LiveKeys DEF TypeOK
  <2> SUFFICES ASSUME ~changed
               PROVE  /\ \A other \in steady' : rec'[other].enabled /\ Subscribed(other, event)'
                      /\ stage # "idle" => Ahead'
                      /\ stage = "idle" /\ events > 0 => Reached'
    BY <1>1, <2>1 DEF ReachInv
  <2>4. ASSUME NEW other \in steady' PROVE rec'[other].enabled /\ Subscribed(other, event)'
    BY <2>1, <2>2, <2>3 DEF ReachInv, Subscribed, Readable
  <2>5. Kept' = Kept /\ Live' = Live /\ \A other : Called(other)' = Called(other)
    BY <2>1 DEF Kept, Live, Called
  <2>6. KeysFrom(iter.pos + 1)' = KeysFrom(iter.pos + 1)
    BY <2>1, <2>5 DEF KeysFrom
  <2>7. stage # "idle" => Ahead'
    BY <2>1, <2>3, <2>5, <2>6 DEF ReachInv, Ahead
  <2>8. \A other \in Live : Readable(other)' = Readable(other)
    BY <2>2, <2>3 DEF Readable
  <2>9. stage = "idle" /\ events > 0 => Reached'
    BY <2>1, <2>3, <2>5, <2>8 DEF ReachInv, Reached
  <2>10. QED
    BY <2>4, <2>7, <2>9
<1>13. CASE UNCHANGED vars
  BY <1>1, <1>2, <1>13, AwaitKeeps DEF vars, dictVars, listVars, histVars
<1>14. QED
  BY <1>4, <1>5, <1>6, <1>7, <1>8, <1>9, <1>10, <1>11, <1>12, <1>13
     DEF Next, Dispatch, Requests

\* Without an addition or a removal meanwhile, a dispatch calls every strategy that
\* stays enabled and subscribed, unless some strategy's symbols cannot be searched
\* (registry.py 64-79): the iterator's count of the keys left is what is ahead of it.
THEOREM RegistryReachesAll == Spec => []UndisturbedReachesAll
<1>1. ReachInv => UndisturbedReachesAll
  BY DEF ReachInv, Reached, UndisturbedReachesAll
<1>2. QED
  BY <1>1, InitReach, NextReach, PTL DEF Spec
===============================================================================
