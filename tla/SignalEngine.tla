---------------------------- MODULE SignalEngine ----------------------------
(***************************************************************************)
(* The signal engine (app/signals/engine.py) and, beside it, what the feed *)
(* subscriber and the strategies compute from the same trades: delta,      *)
(* volume profile and moving average.  Per symbol, one trade after the     *)
(* other; a session reset clears the engine's indicators.                  *)
(***************************************************************************)
EXTENDS Indicators

CONSTANTS
    Symbols,
    Trades,         \* the trades to choose from: [price, qty, side]
    RsiPeriod, BandPeriod, FastPeriod, SlowPeriod, Window,
    NoSymbol,
    MaxTrades, MaxResets    \* bounds of the model

ASSUME EngineAssumption ==
    /\ NoSymbol \notin Symbols
    /\ \A t \in Trades : t.price \in Nat \ {NoPrice} /\ t.qty \in Nat /\ t.side \in {"B", "S", "U"}
    /\ {RsiPeriod, BandPeriod, FastPeriod, SlowPeriod, Window} \subseteq Nat \ {0}
    /\ {MaxTrades, MaxResets} \subseteq Nat

VARIABLES
    states,     \* _states: the indicators of each symbol; a symbol not seen has new ones
    prevAbove,  \* _prev_above of the VWAP cross: "none", "above" or "below"
    study,      \* delta, profile and moving average of each symbol
    results,    \* the signals the last trade gave, and its symbol
    tape,       \* the trades of each symbol since the start: history
    opened,     \* how many of them the last reset has cleared: history
    resets

vars == <<states, prevAbove, study, results, tape, opened, resets>>

NewState ==
    [rsi |-> NewRSI, bb |-> <<>>, ema9 |-> NewEMA, ema21 |-> NewEMA, vwap |-> NewVWAP]
NewStudy == [delta |-> NewDelta, profile |-> NewProfile, sma |-> NewSMA]

Init ==
    /\ states = [s \in Symbols |-> NewState]
    /\ prevAbove = [s \in Symbols |-> "none"]
    /\ study = [s \in Symbols |-> NewStudy]
    /\ results = [symbol |-> NoSymbol, signals |-> {}]
    /\ tape = [s \in Symbols |-> <<>>]
    /\ opened = [s \in Symbols |-> 0]
    /\ resets = 0

Traded == SumFunction([s \in Symbols |-> Len(tape[s])])

UpdateState(st, price, qty) ==
    [rsi |-> UpdateRSI(st.rsi, RsiPeriod, price),
     bb |-> Push(st.bb, BandPeriod, price),
     ema9 |-> UpdateEMA(st.ema9, FastPeriod, price),
     ema21 |-> UpdateEMA(st.ema21, SlowPeriod, price),
     vwap |-> UpdateVWAP(st.vwap, price, qty)]

RSISignal(st) ==
    {sig \in {<<"RSI", "BUY">>, <<"RSI", "SELL">>} :
        IF sig[2] = "BUY" THEN RSIBelow30(st.rsi, RsiPeriod) ELSE RSIAbove70(st.rsi, RsiPeriod)}

BollingerSignal(st) ==
    {sig \in {<<"BOLLINGER", "BUY">>, <<"BOLLINGER", "SELL">>} :
        IF sig[2] = "BUY" THEN BandLower(st.bb, BandPeriod) ELSE BandUpper(st.bb, BandPeriod)}

Side(above) == IF above THEN "above" ELSE "below"

\* Without a volume there is no VWAP: nothing is compared and nothing kept.
VWAPCrossSignal(prev, now) ==
    IF now = "none" \/ prev \in {"none", now} THEN {}
    ELSE {<<"VWAP_CROSS", IF now = "above" THEN "BUY" ELSE "SELL">>}

\* SignalEngine.on_trade, and the accumulators' update.
OnTrade(s, t) ==
    LET st == UpdateState(states[s], t.price, t.qty)
        now == IF st.vwap.q = 0 THEN "none" ELSE Side(PriceAbove(st.vwap, t.price))
    IN  /\ Traded < MaxTrades
        /\ states' = [states EXCEPT ![s] = st]
        /\ prevAbove' = IF now = "none" THEN prevAbove ELSE [prevAbove EXCEPT ![s] = now]
        /\ results' = [symbol |-> s,
                       signals |-> RSISignal(st) \union BollingerSignal(st)
                                       \union VWAPCrossSignal(prevAbove[s], now)]
        /\ study' = [study EXCEPT ![s] =
               [delta |-> UpdateDelta(@.delta, Window, t.qty, t.side),
                profile |-> UpdateProfile(@.profile, t.price, t.qty, t.side),
                sma |-> UpdateSMA(@.sma, Window, t.price)]]
        /\ tape' = [tape EXCEPT ![s] = Append(@, t)]
        /\ UNCHANGED <<opened, resets>>

\* session_reset of one symbol, or of all.
SessionReset(S) ==
    /\ resets < MaxResets
    /\ states' = [s \in Symbols |-> IF s \in S THEN NewState ELSE states[s]]
    /\ opened' = [s \in Symbols |-> IF s \in S THEN Len(tape[s]) ELSE opened[s]]
    /\ results' = [symbol |-> NoSymbol, signals |-> {}]
    /\ resets' = resets + 1
    /\ UNCHANGED <<prevAbove, study, tape>>

Next ==
    \/ \E s \in Symbols, t \in Trades : OnTrade(s, t)
    \/ \E s \in Symbols : SessionReset({s})
    \/ SessionReset(Symbols)

Spec == Init /\ [][Next]_vars

-----------------------------------------------------------------------------
(* Reference definitions: what the indicators should be, from the trades alone. *)

Session(s) == SubSeq(tape[s], opened[s] + 1, Len(tape[s]))
PricesOf(trades) == [i \in DOMAIN trades |-> trades[i].price]
LastOf(seq, n) == IF Len(seq) <= n THEN seq ELSE SubSeq(seq, Len(seq) - n + 1, Len(seq))

Power(b, n) == LET power[i \in Nat] == IF i = 0 THEN 1 ELSE b * power[i - 1] IN power[n]

\* Wilder's average of changes after the first period, in closed form: the seed
\* and each later change, discounted by (period - 1) / period per trade since.
WilderSum(change, p) ==
    LET late(i) == Positive(i - p)
    IN  SumFunction([i \in DOMAIN change |->
            change[i] * Power(p, late(i)) * Power(p - 1, late(Len(change)) - late(i))])

RefRSI(prices) ==
    LET n == Len(prices) - 1
        ups == [i \in 1 .. n |-> Positive(prices[i + 1] - prices[i])]
        downs == [i \in 1 .. n |-> Positive(prices[i] - prices[i + 1])]
    IN  IF n < RsiPeriod THEN {}
        ELSE LET g == WilderSum(ups, RsiPeriod)
                 l == WilderSum(downs, RsiPeriod)
             IN  IF 10 * g < 3 * (g + l) THEN {<<"RSI", "BUY">>}
                 ELSE IF 10 * g > 7 * (g + l) THEN {<<"RSI", "SELL">>} ELSE {}

\* The variance as the mean square distance of pairs.
RefBollinger(prices) ==
    LET b == LastOf(prices, BandPeriod)
        n == BandPeriod
        apart(i) == SumFunction([j \in 1 .. n |-> (b[i] - b[j]) * (b[i] - b[j])])
        pairs == SumFunction([i \in 1 .. n |-> apart(i)])
        off == SumFunction([i \in 1 .. n |-> b[n] - b[i]])
    IN  IF Len(prices) < n \/ 200 * off * off <= 324 * pairs THEN {}
        ELSE {<<"BOLLINGER", IF off < 0 THEN "BUY" ELSE "SELL">>}

\* Where the last price lies, from the distances weighted by volume.
RefSide(trades) ==
    LET n == Len(trades)
        away(i) == trades[i].qty * (trades[n].price - trades[i].price)
    IN  IF \A i \in 1 .. n : trades[i].qty = 0 THEN "none"
        ELSE Side(SumFunction([i \in 1 .. n |-> away(i)]) > 0)

RefCross(trades) ==
    VWAPCrossSignal(RefSide(SubSeq(trades, 1, Len(trades) - 1)), RefSide(trades))

-----------------------------------------------------------------------------

\* Every variable holds a value of its type, and no buffer more than its size.
TypeOK ==
    /\ \A s \in Symbols :
        /\ states[s].rsi \in [gain : Nat, loss : Nat, scale : Nat, prev : Nat, count : Nat]
        /\ Len(states[s].bb) <= BandPeriod
        /\ {states[s].ema9, states[s].ema21} \subseteq [num : Nat, den : Nat, count : Nat]
        /\ states[s].vwap \in [pq : Nat, q : Nat]
        /\ prevAbove[s] \in {"none", "above", "below"}
        /\ opened[s] \in 0 .. Len(tape[s])
        /\ Len(study[s].delta.history) <= Window /\ Len(study[s].sma.buf) <= Window
    /\ results.symbol \in Symbols \union {NoSymbol}
    /\ resets \in 0 .. MaxResets

\* The signals of a trade are those of the trades of its symbol and session,
\* computed from nothing: no value is carried over from another symbol or, once
\* the session has a VWAP, from the session before (engine.py:113-139,
\* rsi.py:14-42, bollinger.py:26-37, vwap.py:14-21).
SignalsMatchReference ==
    LET s == results.symbol
        trades == Session(s)
    IN  s # NoSymbol /\ (\E i \in 1 .. Len(trades) - 1 : trades[i].qty > 0) =>
            results.signals = RefRSI(PricesOf(trades)) \union RefBollinger(PricesOf(trades))
                                  \union RefCross(trades)

\* What is accumulated is what the tape says.  A moving average lies between the
\* least and the greatest price it covers, and forgets what left its window; the
\* delta is that of all trades, and its history holds the last Window values
\* (moving_average.py:10-43, vwap.py:14-21, delta.py:37-46).
Between(num, den, prices) ==
    prices # {} => (\E p \in prices : p * den <= num) /\ (\E p \in prices : num <= p * den)
Signed(t) == IF t.side = "B" THEN t.qty ELSE -t.qty
DeltaAfter(trades, n) == SumFunction([i \in 1 .. n |-> Signed(trades[i])])

StudiesMatchTape ==
    \A s \in Symbols :
        LET n == Len(tape[s])
            session == ToSet(PricesOf(Session(s)))
            sma == study[s].sma
            delta == study[s].delta
        IN  /\ Between(sma.total, Len(sma.buf), ToSet(LastOf(PricesOf(tape[s]), Window)))
            /\ Between(states[s].ema9.num, states[s].ema9.den, session)
            /\ Between(states[s].ema21.num, states[s].ema21.den, session)
            /\ states[s].ema9.count = Len(Session(s))
            /\ Between(states[s].vwap.pq, states[s].vwap.q,
                       {t.price : t \in {u \in ToSet(Session(s)) : u.qty > 0}})
            /\ delta.cum = DeltaAfter(tape[s], n)
            /\ delta.cum = delta.buy - delta.sell
            /\ delta.history = LastOf([i \in 1 .. n |-> DeltaAfter(tape[s], i)], Window)

\* The value area is around the point of control, holds seven tenths of what was
\* traded, and did so only with the level that was added last; the profile holds
\* all that was traded (volume_profile.py:48-107).
ValueAreaJustEnough ==
    \A s \in Symbols :
        LET p == study[s].profile
            total == ProfileTotal(p)
            area == ValueArea(p)
            poc == PointOfControl(p)
            without(k) == AreaVolume(p, area) - LevelVolume(p, k)
        IN  /\ total = SumFunction([i \in DOMAIN tape[s] |-> tape[s][i].qty])
            /\ total > 0 =>
                /\ area[1] <= poc /\ poc <= area[2]
                /\ 10 * AreaVolume(p, area) >= 7 * total
                /\ area # <<poc, poc>> =>
                       \E k \in {area[1], area[2]} \ {poc} : 10 * without(k) < 7 * total

\* test_signals.py:45, "After reset indicators have no data - no signals from a single tick".
QuietAfterReset ==
    results.symbol # NoSymbol /\ Len(Session(results.symbol)) = 1 => results.signals = {}
=============================================================================
