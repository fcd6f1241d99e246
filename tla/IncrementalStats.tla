-------------------------- MODULE IncrementalStats --------------------------
(***************************************************************************)
(* IncrementalStats of internal/rules/actions/incremental_stats.go with a  *)
(* count window or in cumulative mode: the ring buffer of the last         *)
(* windowSize values, the running sums that are corrected when a value     *)
(* leaves the window, the cache filled by GetStats, and the statistics     *)
(* computed from them.  Every method takes s.mu for its whole duration, so *)
(* a call is one step.                                                     *)
(*                                                                         *)
(* Numbers are integers.  A statistic that is a quotient in the code is    *)
(* kept exact: a mean or a variance is a pair <<numerator, denominator>>,  *)
(* twice the median too, and a percentile a record (see Exact).            *)
(***************************************************************************)
EXTENDS Integers, Sequences, FiniteSets, TLC

CONSTANTS Values,      \* valid numeric values
          WindowSizes, \* the window sizes a rule may ask for
          Inf,         \* math.Inf(1)
          LowerLimit, UpperLimit,  \* thresholds of the threshold functions
          MaxAdds,     \* bound: valid values added between two resets
          MaxNulls     \* bound: null values added between two resets

ASSUME ValuesAssumption == Values \subseteq Int
ASSUME WindowSizesAssumption == WindowSizes \subseteq Nat
ASSUME InfAssumption == Inf \in Int /\ \A v \in Values : -Inf < v /\ v < Inf
ASSUME BoundsAssumption == MaxAdds \in Nat /\ MaxNulls \in Nat

VARIABLES
  windowSize,    \* fixed when the object is made; 0 selects the cumulative mode
  values,        \* the ring, indexed from 0 as in the code
  valueIndex, windowFull,
  count, sum, sumSquares, min, max,
  firstValueSet, firstValue, lastValue,
  nullCount, validCount,
  cached,        \* meanCached, varianceCached and medianCached while
                 \* cacheValid, else NoCache: a stale cache is never read
  hist           \* history: the values added since the last reset, each with
                 \* the totals of the values and of their squares so far

ring == <<values, valueIndex, windowFull>>
sums == <<count, sum, sumSquares, min, max>>
ends == <<firstValueSet, firstValue, lastValue>>
quality == <<nullCount, validCount>>
vars == <<windowSize, ring, sums, ends, quality, cached, hist>>

Slots == 0 .. windowSize - 1

NoCache == [valid |-> FALSE]

Init ==
  /\ windowSize \in WindowSizes
  /\ values = [i \in Slots |-> 0] /\ valueIndex = 0 /\ windowFull = FALSE
  /\ count = 0 /\ sum = 0 /\ sumSquares = 0 /\ min = Inf /\ max = -Inf
  /\ firstValueSet = FALSE /\ firstValue = 0 /\ lastValue = 0
  /\ nullCount = 0 /\ validCount = 0
  /\ cached = NoCache
  /\ hist = << >>

----------------------------------------------------------------------------
(* History.                                                                *)

\* Totals of the first k values added since the last reset.
HistSum(h, k) == IF k = 0 THEN 0 ELSE h[k].sum
HistSquares(h, k) == IF k = 0 THEN 0 ELSE h[k].squares

Record(v) ==
  hist' = Append(hist, [value |-> v,
                        sum |-> HistSum(hist, Len(hist)) + v,
                        squares |-> HistSquares(hist, Len(hist)) + v * v])

----------------------------------------------------------------------------
(* Adding a value.                                                         *)

addValueCumulative(v) ==
  /\ count' = count + 1
  /\ sum' = sum + v
  /\ sumSquares' = sumSquares + v * v
  /\ min' = IF v < min \/ count = 0 THEN v ELSE min
  /\ max' = IF v > max \/ count = 0 THEN v ELSE max
  /\ UNCHANGED ring

\* The first `limit` slots of the ring that recalculateMinMax scans.
BadScanned(vals, full, n) ==
  {vals[0]} \cup {vals[i] : i \in {j \in Slots : j < n - 1}}

Scanned(vals, full, n) ==
  {vals[i] : i \in {j \in Slots : full \/ j < n}}

Least(S) == CHOOSE x \in S : \A y \in S : x <= y
Greatest(S) == CHOOSE x \in S : \A y \in S : y <= x

BadNextIndex(i) == i + 1
BadWrap(i) == IF i + 2 >= windowSize THEN 0 ELSE i + 1
NextIndex(i) == (i + 1) % windowSize

\* How many old values leave the window when a slot is overwritten.
BadLeaving(full) == 0
Leaving(full) == IF full THEN 1 ELSE 0

addValueWindowed(v) ==
  LET old == values[valueIndex]
      gone == Leaving(windowFull)
      next == NextIndex(valueIndex)
  IN  /\ values' = [values EXCEPT ![valueIndex] = v]
      /\ sum' = sum - gone * old + v
      /\ sumSquares' = sumSquares - gone * (old * old) + v * v
      /\ count' = count - gone + 1
      /\ valueIndex' = next
      /\ windowFull' = (windowFull \/ next = 0)
      /\ IF windowFull' \/ count' > 1
           THEN /\ min' = Least(Scanned(values', windowFull', count'))
                /\ max' = Greatest(Scanned(values', windowFull', count'))
           ELSE min' = v /\ max' = v

\* What becomes of the cache when a value is added.
BadInvalidated(c) == c
Invalidated(c) == NoCache

AddValue(v) ==
  /\ Len(hist) < MaxAdds
  /\ validCount' = validCount + 1
  /\ firstValueSet' = TRUE
  /\ firstValue' = IF firstValueSet THEN firstValue ELSE v
  /\ IF windowSize > 0 THEN addValueWindowed(v) ELSE addValueCumulative(v)
  /\ lastValue' = v
  /\ cached' = Invalidated(cached)
  /\ Record(v)
  /\ UNCHANGED <<windowSize, nullCount>>

\* AddNullValue, and AddValue of a NaN or an infinite number.
AddNullValue ==
  /\ nullCount < MaxNulls
  /\ nullCount' = nullCount + 1
  /\ UNCHANGED <<windowSize, ring, sums, ends, validCount, cached, hist>>

BadReset ==
  /\ count' = 0 /\ sum' = 0 /\ sumSquares' = 0 /\ min' = Inf /\ max' = -Inf
  /\ firstValueSet' = FALSE /\ firstValue' = 0 /\ lastValue' = 0
  /\ nullCount' = 0 /\ validCount' = 0 /\ valueIndex' = 0
  /\ cached' = NoCache /\ hist' = << >>
  /\ UNCHANGED <<windowSize, values, windowFull>>

Reset ==
  /\ count' = 0 /\ sum' = 0 /\ sumSquares' = 0 /\ min' = Inf /\ max' = -Inf
  /\ firstValueSet' = FALSE /\ firstValue' = 0 /\ lastValue' = 0
  /\ cached' = NoCache
  /\ valueIndex' = 0 /\ windowFull' = FALSE
  /\ nullCount' = 0 /\ validCount' = 0
  /\ values' = [i \in Slots |-> 0]
  /\ hist' = << >>
  /\ UNCHANGED windowSize

----------------------------------------------------------------------------
(* The statistics GetStats returns.                                        *)

Lesser(a, b) == IF a < b THEN a ELSE b

\* The slots the window functions look at, in slot order.
validValues == [i \in 1 .. Lesser(count, windowSize) |-> values[i - 1]]

Sorted(s) == SortSeq(s, <)

BadInterpolate(s, num, den) == den * s[num \div den + 1]

\* den times the value at position num/den (from 0) of a sorted sequence,
\* interpolated between its two neighbours.
interpolatePercentile(s, num, den) ==
  LET lower == num \div den
      weight == num % den
  IN  IF weight = 0 THEN den * s[lower + 1]
      ELSE s[lower + 1] * (den - weight) + s[lower + 2] * weight

BadMedianFromWindow == LET s == Sorted(validValues) IN 2 * s[Len(s) \div 2 + 1]

calculateMedianFromWindow ==
  LET s == Sorted(validValues)
      n == Len(s)
  IN  IF n % 2 = 1 THEN 2 * s[n \div 2 + 1] ELSE s[n \div 2] + s[n \div 2 + 1]

fresh ==
  [valid |-> TRUE,
   mean |-> IF count > 0 THEN <<sum, count>> ELSE <<0, 1>>,
   variance |-> IF count > 1
                  THEN <<count * sumSquares - sum * sum, count * (count - 1)>>
                  ELSE <<0, 1>>,
   median2 |-> CASE count = 0 -> <<0, 1>>
                 [] count = 1 -> <<2 * firstValue, 1>>
                 [] count > 1 /\ windowSize > 0 -> <<calculateMedianFromWindow, 1>>
                 [] OTHER -> <<2 * sum, count>>]

\* What GetStats, GetMean, GetVariance and GetMedian answer in this state.
\* (The last three also store their answer, in a cache they leave invalid.)
reported == IF cached # NoCache THEN cached ELSE fresh

\* A percentile is num / den plus z thousandths of the standard deviation.
Exact(num, den) == [num |-> num, den |-> den, z |-> 0]

\* Thousandths of the z-score normalApproximation uses.
ZScore(p) ==
  CASE p <= 25 -> -675
    [] 25 < p /\ p <= 50 -> 0
    [] 50 < p /\ p <= 75 -> 675
    [] 75 < p /\ p <= 90 -> 1280
    [] 90 < p /\ p <= 95 -> 1645
    [] 95 < p /\ p <= 99 -> 2330
    [] OTHER -> 3000

\* The estimate of the cumulative mode, which keeps no values.
normalApproximation(p) ==
  LET mean == Exact(reported.mean[1], reported.mean[2])
  IN  IF reported.variance[1] = 0 THEN mean ELSE [mean EXCEPT !.z = ZScore(p)]

calculatePercentile(p) ==
  CASE count = 0 -> Exact(0, 1)
    [] count = 1 -> Exact(firstValue, 1)
    [] count > 1 /\ windowSize > 0 ->
         Exact(interpolatePercentile(Sorted(validValues), p * (count - 1), 100), 100)
    [] count > 1 /\ windowSize = 0 /\ p = 50 -> Exact(reported.mean[1], reported.mean[2])
    [] OTHER -> normalApproximation(p)

\* The counters below are those of a count window; the estimates that the cumulative
\* mode reports in their place are left out.

\* Slots of the window outside 1.5 interquartile ranges around Q1 and Q3.
getOutlierCount ==
  IF count <= 3 THEN 0
  ELSE LET s == Sorted(validValues)
           q1 == interpolatePercentile(s, Len(s) - 1, 4)
           q3 == interpolatePercentile(s, 3 * (Len(s) - 1), 4)
           iqr == q3 - q1
       IN  Cardinality({i \in DOMAIN s : \/ 8 * s[i] < 2 * q1 - 3 * iqr
                                         \/ 8 * s[i] > 2 * q3 + 3 * iqr})

GetAboveCount == Cardinality({i \in DOMAIN validValues : validValues[i] > UpperLimit})
GetBelowCount == Cardinality({i \in DOMAIN validValues : validValues[i] < LowerLimit})
GetInRangeCount ==
  Cardinality({i \in DOMAIN validValues :
                 LowerLimit <= validValues[i] /\ validValues[i] <= UpperLimit})

\* GetStats recomputes and validates the cache.
GetStats ==
  /\ cached' = reported
  /\ UNCHANGED <<windowSize, ring, sums, ends, quality, hist>>

Next ==
  \/ \E v \in Values : AddValue(v)
  \/ AddNullValue
  \/ Reset
  \/ GetStats

Spec == Init /\ [][Next]_vars

----------------------------------------------------------------------------
(* Properties.                                                             *)

Entry == [value : Values, sum : Int, squares : Int]

\* Type invariant.
TypeOK ==
  /\ windowSize \in WindowSizes
  /\ values \in [Slots -> Values \cup {0}]
  /\ valueIndex \in Nat /\ (windowSize > 0 => valueIndex \in Slots)
  /\ windowFull \in BOOLEAN
  /\ count \in Nat /\ sum \in Int /\ sumSquares \in Int
  /\ min \in Int /\ max \in Int
  /\ firstValueSet \in BOOLEAN
  /\ firstValue \in Values \cup {0} /\ lastValue \in Values \cup {0}
  /\ nullCount \in Nat /\ validCount \in Nat
  /\ hist \in Seq(Entry)

\* Number of values the window should hold after Len(hist) additions.
Held == IF windowSize = 0 THEN Len(hist) ELSE Lesser(Len(hist), windowSize)

\* The values the window should hold, oldest first.
Window == [i \in 1 .. Held |-> hist[Len(hist) - Held + i].value]

\* The running sums, which AddValue corrects by the value it overwrites, are
\* those of exactly the last windowSize values added since the last Reset,
\* however often the ring has wrapped.
RunningSums ==
  /\ count = Held
  /\ sum = HistSum(hist, Len(hist)) - HistSum(hist, Len(hist) - Held)
  /\ sumSquares =
       HistSquares(hist, Len(hist)) - HistSquares(hist, Len(hist) - Held)

\* Position in hist of the value in slot i of the ring.
Source(i) ==
  IF i < valueIndex THEN Len(hist) - valueIndex + 1 + i
                    ELSE Len(hist) - valueIndex + 1 + i - windowSize

\* Every slot in use holds the value that was added Len(hist) - Source(i)
\* additions ago, and the ring counts as full from the windowSize-th addition
\* on: valueIndex is always the oldest slot.
RingHoldsWindow ==
  /\ \A k \in 1 .. Len(hist) :
       /\ hist[k].sum = HistSum(hist, k - 1) + hist[k].value
       /\ hist[k].squares = HistSquares(hist, k - 1) + hist[k].value * hist[k].value
  /\ windowSize > 0 =>
       /\ windowFull <=> Len(hist) >= windowSize
       /\ ~windowFull => valueIndex = Len(hist)
       /\ \A i \in Slots : i < count => values[i] = hist[Source(i)].value

\* min and max are attained by a value still in the window and bound all of
\* them: a minimum that slid out of the window is forgotten.
MinMaxOfWindow ==
  Held > 0 =>
    /\ \E i \in 1 .. Held : min = Window[i]
    /\ \E i \in 1 .. Held : max = Window[i]
    /\ \A i \in 1 .. Held : min <= Window[i] /\ Window[i] <= max

SameRatio(a, b) == a[1] * b[2] = b[1] * a[2]

\* Sum of f(w) over the window.
WindowTotal(f(_)) ==
  LET total[i \in 0 .. Held] == IF i = 0 THEN 0 ELSE total[i - 1] + f(Window[i])
  IN  total[Held]

\* Mean and variance as a call would report them now, cache included, are the
\* arithmetic mean of the window and its sample variance by definition (the
\* squared distances to the mean): the cache is never older than the window
\* and the one-pass formula agrees with the two-pass definition.
MeanAndVarianceOfWindow ==
  LET S == WindowTotal(LAMBDA x : x)
      D == WindowTotal(LAMBDA x : (Held * x - S) * (Held * x - S))
  IN  /\ Held > 0 => SameRatio(reported.mean, <<S, Held>>)
      /\ Held > 1 => SameRatio(reported.variance, <<D, Held * Held * (Held - 1)>>)

\* Twice m is a median of s: as many values lie on one side as on the other,
\* and m is the value, or the mean of the two values, in the middle.
IsMedian2(m, s) ==
  \E a, b \in DOMAIN s :
    LET below(x) == Cardinality({k \in DOMAIN s : s[k] < x})
        upto(x) == Cardinality({k \in DOMAIN s : s[k] <= x})
        n == Len(s)
    IN  /\ m = s[a] + s[b]
        /\ below(s[a]) <= (n - 1) \div 2 /\ (n - 1) \div 2 < upto(s[a])
        /\ below(s[b]) <= n \div 2 /\ n \div 2 < upto(s[b])

ReportsMedian ==
  Held > 0 => reported.median2[2] = 1 /\ IsMedian2(reported.median2[1], Window)

\* The median a call would report now is a median of the values in a window of two or
\* more.  (A window of one reports the first value since the reset, and the cumulative
\* mode the mean, as its comment says.)
MedianOfWindow == windowSize > 1 => ReportsMedian

\* The median of any count window is the middle one of its sorted values, as
\* docs/aggregation_functions.md:81-82 says of "median".
DocumentedMedian == windowSize > 0 => ReportsMedian

AtMost(a, b) == a.num * b.den <= b.num * a.den /\ a.z <= b.z

\* The statistics of one report agree with each other.  In every mode the percentiles are
\* ordered, and p50 is the median although the two are computed by different functions.
\* In a window of two or more they lie between min and max (one of a window of one is
\* the first value since the reset, one of the cumulative mode an estimate), and in a
\* count window the three threshold counters partition the window and fewer than half
\* of its values are outliers.
ReportConsistent ==
  Held > 0 =>
    /\ \A p, q \in {25, 50, 75, 90, 95, 99} :
         p <= q => AtMost(calculatePercentile(p), calculatePercentile(q))
    /\ LET p50 == calculatePercentile(50)
       IN  p50.z = 0 /\ SameRatio(<<2 * p50.num, p50.den>>, reported.median2)
    /\ windowSize > 1 => /\ AtMost(Exact(min, 1), calculatePercentile(25))
                         /\ AtMost(calculatePercentile(99), Exact(max, 1))
    /\ windowSize > 0 => /\ GetAboveCount + GetBelowCount + GetInRangeCount = count
                         /\ getOutlierCount <= (count - 1) \div 2

\* The ring, read from its oldest slot.
Chronological ==
  [i \in 1 .. Lesser(count, windowSize) |->
     values[IF windowFull THEN (valueIndex + i - 1) % windowSize ELSE i - 1]]

Abstract == INSTANCE SlidingWindow WITH window <- Chronological, size <- windowSize

\* The ring buffer implements the sliding window.
RefinesWindow == Abstract!WSpec
=============================================================================
