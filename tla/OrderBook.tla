------------------------------ MODULE OrderBook ------------------------------
(***************************************************************************)
(* The L2 order book of feed/src/order_book.cpp, as values and operators:  *)
(* the feed process keeps one book per security in a map it shares between *)
(* its receive threads (module UmdfFeed), so a book is a record here and   *)
(* every method that changes it is an operator from a book to a book.      *)
(*                                                                         *)
(* A side (bids_ or asks_, a std::map from price to quantity) is a total   *)
(* function on Prices in which 0 stands for "no such key": the code never  *)
(* stores a zero quantity, it erases the key.                              *)
(***************************************************************************)
EXTENDS Integers, FiniteSets

CONSTANTS Prices,      \* the prices that occur; 0 is a price the feed may send
          Symbols,     \* the symbols a book may carry, NoSymbol among them
          Depth        \* levels of a side in a snapshot: 5 in the code

ASSUME OrderBookAssumption ==
  /\ Prices \subseteq Nat
  /\ IsFiniteSet(Prices)
  /\ Depth \in Nat \ {0}

Sides == {"bids", "asks"}

Side == [Prices -> Nat]

Book == [symbol : Symbols, bids : Side, asks : Side,
         lastPx : Prices \cup {0}, lastQty : Nat, volume : Nat, value : Nat]

EmptySide == [p \in Prices |-> 0]

\* The constructor copies the symbol once; nothing changes it afterwards.
NewBook(symbol) ==
  [symbol |-> symbol, bids |-> EmptySide, asks |-> EmptySide,
   lastPx |-> 0, lastQty |-> 0, volume |-> 0, value |-> 0]

\* Mutant: a zero quantity inserts nothing but does not erase either.
SetLevelKeepsZero(side, price, qty, action) ==
  IF action = 2 THEN [side EXCEPT ![price] = 0]
  ELSE IF qty = 0 THEN side ELSE [side EXCEPT ![price] = qty]

\* Mutant: the quantity is taken for what was executed at the level.
SetLevelRelative(side, price, qty, action) ==
  [side EXCEPT ![price] = IF action = 2 THEN 0 ELSE @ - qty]

\* apply_bid and apply_ask: action 2 or a zero quantity erases the level,
\* anything else inserts it or overwrites its quantity.
SetLevel(side, price, qty, action) ==
  [side EXCEPT ![price] = IF action = 2 \/ qty = 0 THEN 0 ELSE qty]

\* Better(s, p, q): price p comes before price q on side s.
Better(s, p, q) == IF s = "bids" THEN p > q ELSE p < q

Levels(side) == {p \in Prices : side[p] # 0}

\* The levels a snapshot copies: the Depth best ones of the side.
TopLevels(s, side) ==
  LET top == {p \in Levels(side) :
                Cardinality({q \in Levels(side) : Better(s, q, p)}) < Depth}
  IN  [p \in top |-> side[p]]

\* snapshot(): vwap is value / volume, left as the pair it is computed from.
SnapshotOf(book) ==
  [symbol |-> book.symbol,
   bids   |-> TopLevels("bids", book.bids),
   asks   |-> TopLevels("asks", book.asks),
   lastPx |-> book.lastPx, lastQty |-> book.lastQty,
   volume |-> book.volume, value |-> book.value]

==============================================================================
