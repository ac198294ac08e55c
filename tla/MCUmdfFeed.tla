------------------------------ MODULE MCUmdfFeed ------------------------------
(***************************************************************************)
(* Packet contents for the model-checking runs of UmdfFeed.                *)
(***************************************************************************)
EXTENDS UmdfFeed

CONSTANTS s1, s2

E(via, type, sec, price, qty, action) ==
  [via |-> via, type |-> type, sec |-> sec, price |-> price, qty |-> qty,
   action |-> action]

\* A quote that inserts a level; a delete that names a quantity, and a trade on a book;
\* a trade without a book, an entry that is ignored, and a quote without a price; two
\* levels of a side, the first of which is erased.
MCBookContents ==
  {<<E("W", "bid", s1, 1, 5, 0)>>,
   <<E("X", "bid", s1, 1, 6, 2), E("X", "trade", s1, 2, 1, 0)>>,
   <<E("W", "trade", s2, 1, 2, 0), E("X", "other", s1, 1, 1, 0), E("X", "bid", s2, 0, 3, 0)>>,
   <<E("W", "offer", s2, 2, 9, 0), E("X", "offer", s2, 1, 4, 0), E("X", "offer", s2, 2, 0, 1)>>}

\* One quote and one trade: enough for two threads to meet in the publisher.
MCQuoteAndTrade == {<<E("W", "bid", s1, 1, 5, 0)>>, <<E("X", "trade", s1, 1, 2, 0)>>}

\* One trade: the least that shows whether a repeated packet counts twice.
MCTrade == {<<E("X", "trade", s1, 1, 2, 0)>>}

===============================================================================
