----------------------------- MODULE Indicators -----------------------------
(***************************************************************************)
(* The incremental indicators of app/indicators, on exact numbers: prices  *)
(* are integers (ticks), a fraction is a numerator with its denominator,   *)
(* and a comparison of fractions is one of products.  Each indicator is    *)
(* its state, the update, and the readings the rest of the code compares.  *)
(***************************************************************************)
EXTENDS Integers, Sequences, FiniteSetsExt, SequencesExt

Positive(x) == IF x > 0 THEN x ELSE 0

\* Mutant: a deque without a maximum length.
PushAll(buf, size, v) == Append(buf, v)

\* RollingBuffer.push: a deque with a maximum length.
Push(buf, size, v) == Append(IF Len(buf) < size THEN buf ELSE Tail(buf), v)

(* Simple moving average: a running total beside the buffer. *)
NewSMA == [buf |-> <<>>, total |-> 0]

Leaving(buf, period) == IF Len(buf) = period THEN Head(buf) ELSE 0
UpdateSMA(s, period, v) ==
    [buf |-> Push(s.buf, period, v),
     total |-> s.total - Leaving(s.buf, period) + v]

(* Exponential moving average: num / den, k = 2 / (period + 1). *)
NewEMA == [num |-> 0, den |-> 0, count |-> 0]
UpdateEMA(e, period, v) ==
    IF e.den = 0 THEN [num |-> v, den |-> 1, count |-> e.count + 1]
    ELSE [num |-> 2 * v * e.den + (period - 1) * e.num,
          den |-> e.den * (period + 1), count |-> e.count + 1]

(* Session VWAP. *)
NewVWAP == [pq |-> 0, q |-> 0]
UpdateVWAP(w, price, qty) == [pq |-> w.pq + price * qty, q |-> w.q + qty]
PriceAbove(w, price) == price * w.q > w.pq

(* Wilder's RSI: the averages are gain / (period * scale), loss / (period * scale). *)
NoPrice == 0    \* _prev is None
NewRSI == [gain |-> 0, loss |-> 0, scale |-> 1, prev |-> NoPrice, count |-> 0]

\* Mutant: the smoothed average counts whole, not for period - 1.
SmoothedWhole(avg, change, period, scale) == avg * period + change * period * scale

Smoothed(avg, change, period, scale) == avg * (period - 1) + change * period * scale

UpdateRSI(r, period, v) ==
    LET up == Positive(v - r.prev)
        down == Positive(r.prev - v)
    IN  IF r.prev = NoPrice THEN [r EXCEPT !.prev = v]
        ELSE IF r.count < period
        THEN [r EXCEPT !.prev = v, !.count = @ + 1, !.gain = @ + up, !.loss = @ + down]
        ELSE [gain |-> Smoothed(r.gain, up, period, r.scale),
              loss |-> Smoothed(r.loss, down, period, r.scale),
              scale |-> r.scale * period, prev |-> v, count |-> r.count + 1]
\* value() = 100 gain / (gain + loss); 100 without a loss, 50 with neither.
RSIBelow30(r, period) == r.count >= period /\ 3 * r.loss > 7 * r.gain
RSIAbove70(r, period) == r.count >= period /\ 3 * r.gain > 7 * r.loss

(* Bollinger bands, two standard deviations wide: pct_b is below 0.05 when the  *)
(* last price is more than 1.8 deviations below the mean, and above 0.95 as far *)
(* above.  Sums are taken over the full buffer, and scaled by the period.       *)
BandOffset(buf, period) == period * buf[Len(buf)] - SumFunction(buf)
BandVariance(buf, period) ==
    LET mean == SumFunction(buf)
    IN  SumFunction([i \in DOMAIN buf |-> (period * buf[i] - mean) * (period * buf[i] - mean)])
OutsideBand(buf, period) ==
    100 * period * BandOffset(buf, period) * BandOffset(buf, period)
        > 324 * BandVariance(buf, period)
BandLower(buf, period) ==
    Len(buf) = period /\ BandOffset(buf, period) < 0 /\ OutsideBand(buf, period)
BandUpper(buf, period) ==
    Len(buf) = period /\ BandOffset(buf, period) > 0 /\ OutsideBand(buf, period)

(* Order flow delta: a trade whose aggressor is not known counts as a sale. *)
NewDelta == [buy |-> 0, sell |-> 0, cum |-> 0, history |-> <<>>]

\* Mutant: the cumulative delta tests for sales, the volumes for purchases.
SaleSubtracts(cum, qty, side) == IF side = "S" THEN cum - qty ELSE cum + qty

Accumulate(cum, qty, side) == IF side = "B" THEN cum + qty ELSE cum - qty

UpdateDelta(d, window, qty, side) ==
    LET cum == Accumulate(d.cum, qty, side)
    IN  [buy |-> IF side = "B" THEN d.buy + qty ELSE d.buy,
         sell |-> IF side = "B" THEN d.sell ELSE d.sell + qty,
         cum |-> cum, history |-> Push(d.history, window, cum)]

(* Volume profile: a function from the price levels traded to their volumes. *)
NewProfile == [k \in {} |-> 0]
UpdateProfile(p, price, qty, side) ==
    LET old == IF price \in DOMAIN p THEN p[price] ELSE [buy |-> 0, sell |-> 0]
        new == IF side = "B" THEN [old EXCEPT !.buy = @ + qty]
                             ELSE [old EXCEPT !.sell = @ + qty]
    IN  [k \in DOMAIN p \union {price} |-> IF k = price THEN new ELSE p[k]]

\* result(): the point of control (the first of the largest levels) and the value
\* area, grown from it towards the larger of its neighbours.
LevelVolume(p, k) == p[k].buy + p[k].sell
Volumes(p) == [k \in DOMAIN p |-> LevelVolume(p, k)]
ProfileTotal(p) == SumFunction(Volumes(p))
PointOfControl(p) ==
    Min({k \in DOMAIN p : \A j \in DOMAIN p : LevelVolume(p, j) <= LevelVolume(p, k)})
AreaVolume(p, area) ==
    SumFunctionOnSet(Volumes(p), {k \in DOMAIN p : k >= area[1] /\ k <= area[2]})
LevelsBelow(p, k) == {j \in DOMAIN p : j < k}
LevelsAbove(p, k) == {j \in DOMAIN p : j > k}

\* Mutant: seven tenths exactly are not enough.
Exceeded(part, total) == 10 * part > 7 * total

Reached(part, total) == 10 * part >= 7 * total

\* Whether the area grows downwards: the level below is not the smaller neighbour.
Downwards(p, area) ==
    /\ LevelsBelow(p, area[1]) # {}
    /\ LevelsAbove(p, area[2]) = {}
        \/ LevelVolume(p, Max(LevelsBelow(p, area[1]))) >= LevelVolume(p, Min(LevelsAbove(p, area[2])))

Complete(p, area) ==
    \/ Reached(AreaVolume(p, area), ProfileTotal(p))
    \/ LevelsBelow(p, area[1]) = {} /\ LevelsAbove(p, area[2]) = {}

ValueArea(p) ==
    LET grow[area \in (DOMAIN p) \X (DOMAIN p)] ==
            IF Complete(p, area) THEN area
            ELSE IF Downwards(p, area) THEN grow[<<Max(LevelsBelow(p, area[1])), area[2]>>]
            ELSE grow[<<area[1], Min(LevelsAbove(p, area[2]))>>]
    IN  grow[<<PointOfControl(p), PointOfControl(p)>>]
=============================================================================
