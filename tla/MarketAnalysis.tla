-------------------------- MODULE MarketAnalysis --------------------------
(***************************************************************************)
(* The indicators of AnalysisService and what MarketBrainService concludes  *)
(* from them, as operators on a tape: a sequence of bars with high, low and *)
(* close, which are whole numbers.  An indicator is a function on the       *)
(* positions of the tape where it exists; its values are fractions.         *)
(***************************************************************************)
EXTENDS Integers, Sequences, FiniteSets, FiniteSetsExt

CONSTANTS Fast, Slow,      \* windows of the two averages: 20 and 50
          Swing,           \* window of ATR and RSI: 14
          MomentumWindow,  \* 10
          MinCandles       \* bars below which the brain is silent: 60

Fraction(n, d) == [n |-> n, d |-> d]
Less(x, y) == x.n * y.d < y.n * x.d
AtMost(x, y) == x.n * y.d <= y.n * x.d
Whole(n) == Fraction(n, 1)

SumOver(f(_), a, b) == MapThenSumSet(f, a .. b)
MeanClose(tape, a, b) == Fraction(SumOver(LAMBDA j : tape[j].close, a, b), b - a + 1)
Distance(x, y) == IF x < y THEN y - x ELSE x - y

\* A simple moving average, and an exponential one that begins with it.
Sma(tape, w) == [i \in w .. Len(tape) |-> MeanClose(tape, i - w + 1, i)]

EmaStep(ema, close, w) == Fraction(2 * close * ema.d + (w - 1) * ema.n, (w + 1) * ema.d)
Ema(tape, w) ==
  LET ema[i \in w .. Len(tape)] ==
        IF i = w THEN MeanClose(tape, 1, w) ELSE EmaStep(ema[i - 1], tape[i].close, w)
  IN ema

TrueRange(tape, j) ==
  Max({tape[j].high - tape[j].low, Distance(tape[j].high, tape[j - 1].close),
       Distance(tape[j].low, tape[j - 1].close)})
Atr(tape, w) ==
  [i \in w + 1 .. Len(tape) |-> Fraction(SumOver(LAMBDA j : TrueRange(tape, j), i - w + 1, i), w)]

Gain(tape, j) == Max({tape[j].close - tape[j - 1].close, 0})
Fall(tape, j) == Max({tape[j - 1].close - tape[j].close, 0})
Rsi(tape, w) ==
  [i \in w + 1 .. Len(tape) |->
     LET gains == SumOver(LAMBDA j : Gain(tape, j), i - w + 1, i)
         falls == SumOver(LAMBDA j : Fall(tape, j), i - w + 1, i)
     IN IF falls = 0 THEN Whole(100) ELSE Fraction(100 * gains, gains + falls)]

-----------------------------------------------------------------------------
(* MarketBrainService.snapshot and advise. *)

\* No value; no fraction has this form.
None == Fraction(0, 0)
LastValue(f) == IF DOMAIN f = {} THEN None ELSE f[Max(DOMAIN f)]

\* The share of the earlier values that the last one reaches.
PercentileRank(f) ==
  LET last == Max(DOMAIN f)
      prior == DOMAIN f \ {last}
      reached == {i \in prior : AtMost(f[i], f[last])}
      flat == \A i, j \in DOMAIN f : ~Less(f[i], f[j])
  IN IF Cardinality(DOMAIN f) < 2 \/ flat THEN Whole(0)
     ELSE Fraction(Cardinality(reached), Cardinality(prior))

TrendStage(close, fast, slow) ==
  IF None \in {fast, slow} THEN "unknown"
  ELSE IF Less(fast, close) /\ Less(slow, fast) THEN "markup"
  ELSE IF Less(close, fast) /\ Less(fast, slow) THEN "markdown"
  ELSE IF Less(fast, close) THEN "accumulation"
  ELSE IF Less(close, fast) THEN "distribution"
  ELSE "unknown"

Regime(stage, volatility) ==
  CASE stage \in {"markup", "accumulation"} -> "bullish"
    [] stage \in {"markdown", "distribution"} -> "bearish"
    [] OTHER -> IF AtMost(Fraction(4, 5), volatility) THEN "volatile" ELSE "ranging"

Direction(regime, stage) ==
  IF regime \in {"bullish", "volatile"} /\ stage \in {"markup", "accumulation"} THEN "long"
  ELSE IF regime \in {"bearish", "volatile"} /\ stage \in {"markdown", "distribution"} THEN "short"
  ELSE "none"

Between(a, x, b) == AtMost(Whole(a), x) /\ AtMost(x, Whole(b))

\* Conviction added or trimmed for the RSI, in hundredths.
Adjustment(direction, rsi) ==
  IF direction = "long"
  THEN IF AtMost(Whole(75), rsi) THEN -15 ELSE IF Between(40, rsi, 70) THEN 5 ELSE 0
  ELSE IF AtMost(rsi, Whole(25)) THEN -15 ELSE IF Between(30, rsi, 60) THEN 5 ELSE 0

\* Confidence is 0.5 + 4 |momentum|, adjusted, kept within 0.05 and 0.98; here
\* in hundredths.
Confidence(direction, momentum, rsi) ==
  LET base == 50 + Adjustment(direction, rsi)
      raw == Fraction(base * momentum.d + 400 * Distance(momentum.n, 0), momentum.d)
  IN IF Less(raw, Whole(5)) THEN Whole(5) ELSE IF Less(Whole(98), raw) THEN Whole(98) ELSE raw

Momentum(tape) ==
  LET n == Min({MomentumWindow, Len(tape) - 1})
      prev == tape[Len(tape) - n].close
  IN IF n <= 0 \/ prev = 0 THEN Whole(0) ELSE Fraction(tape[Len(tape)].close - prev, prev)

ActionThreshold == Whole(55)

\* "unread" below the floor of bars, "flat" without a direction, "weak" with
\* too little confidence, and otherwise the direction.
Advise(tape) ==
  LET stage == TrendStage(Whole(tape[Len(tape)].close), LastValue(Ema(tape, Fast)),
                          LastValue(Ema(tape, Slow)))
      rsi == LastValue(Rsi(tape, Swing))
      direction == Direction(Regime(stage, PercentileRank(Atr(tape, Swing))), stage)
  IN IF Len(tape) < MinCandles THEN "unread"
     ELSE IF direction = "none" THEN "flat"
     ELSE IF Less(Confidence(direction, Momentum(tape), IF rsi = None THEN Whole(0) ELSE rsi),
                  ActionThreshold) THEN "weak"
     ELSE direction

=============================================================================
