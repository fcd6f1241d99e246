----------------------- MODULE IncrementalStatsProofs -----------------------
(* Theorems about IncrementalStats, for every window size and value set.   *)
EXTENDS IncrementalStats, WellFoundedInduction, TLAPS

\* One step of the ring index stays in the ring and wraps at its end.
LEMMA NextIndexStep ==
  ASSUME NEW W \in Nat \ {0}, NEW i \in 0 .. W - 1
  PROVE  (i + 1) % W = IF i + 1 = W THEN 0 ELSE i + 1
OBVIOUS

\* A nonempty set of natural numbers has a least element.
LEMMA NatLeast ==
  ASSUME NEW T \in SUBSET Nat, T # {}
  PROVE  \E t \in T : \A u \in T : t <= u
<1>1. PICK t \in T : \A u \in T : ~ (<<u, t>> \in OpToRel(<, Nat))
  BY NatLessThanWellFounded, WFMin
<1>2. \A u \in T : ~ (u < t)
  BY <1>1 DEF OpToRel
<1> QED BY <1>2

\* A nonempty set of values has a least and a greatest element: all values lie
\* strictly between -Inf and Inf.
LEMMA Extrema ==
  ASSUME NEW S, S \subseteq Values, S # {}
  PROVE  /\ Least(S) \in S /\ \A y \in S : Least(S) <= y
         /\ Greatest(S) \in S /\ \A y \in S : y <= Greatest(S)
<1>1. \E x \in S : \A y \in S : x <= y
  <2>1. {v + Inf : v \in S} \in SUBSET Nat
    BY ValuesAssumption, InfAssumption
  <2>2. {v + Inf : v \in S} # {}
    OBVIOUS
  <2>3. \E t \in {v + Inf : v \in S} : \A u \in {v + Inf : v \in S} : t <= u
    BY <2>1, <2>2, NatLeast
  <2>4. PICK x \in S : \A y \in S : x + Inf <= y + Inf
    BY <2>3
  <2> QED BY <2>4, ValuesAssumption, InfAssumption
<1>2. \E x \in S : \A y \in S : y <= x
  <2>1. {Inf - v : v \in S} \in SUBSET Nat
    BY ValuesAssumption, InfAssumption
  <2>2. {Inf - v : v \in S} # {}
    OBVIOUS
  <2>3. \E t \in {Inf - v : v \in S} : \A u \in {Inf - v : v \in S} : t <= u
    BY <2>1, <2>2, NatLeast
  <2>4. PICK x \in S : \A y \in S : Inf - x <= Inf - y
    BY <2>3
  <2> QED BY <2>4, ValuesAssumption, InfAssumption
<1> QED BY <1>1, <1>2 DEF Least, Greatest

----------------------------------------------------------------------------
(* The inductive invariant: the type invariant, what each slot holds, and  *)
(* the two invariants that follow from it step by step.                    *)

IInv == TypeOK /\ RingHoldsWindow /\ RunningSums /\ MinMaxOfWindow

LEMMA InitIInv == Init => IInv
<1> SUFFICES ASSUME Init PROVE IInv
  OBVIOUS
<1>0. windowSize \in WindowSizes /\ windowSize \in Nat
  BY WindowSizesAssumption DEF Init
<1>1. TypeOK
  <2>1. values \in [Slots -> Values \cup {0}]
    BY DEF Init
  <2>2. valueIndex \in Nat /\ (windowSize > 0 => valueIndex \in Slots)
    BY <1>0 DEF Init, Slots
  <2>3. hist \in Seq(Entry)
    BY DEF Init
  <2>4. windowFull \in BOOLEAN /\ firstValueSet \in BOOLEAN
    BY DEF Init
  <2>5. /\ count \in Nat /\ sum \in Int /\ sumSquares \in Int
        /\ min \in Int /\ max \in Int
        /\ firstValue \in Values \cup {0} /\ lastValue \in Values \cup {0}
        /\ nullCount \in Nat /\ validCount \in Nat
    BY InfAssumption DEF Init
  <2> QED BY <1>0, <2>1, <2>2, <2>3, <2>4, <2>5 DEF TypeOK
<1>2. RingHoldsWindow
  BY <1>0 DEF Init, RingHoldsWindow, Slots
<1>3. RunningSums /\ MinMaxOfWindow
  <2>1. Len(hist) = 0 /\ Held = 0
    BY <1>0 DEF Init, Held, Lesser
  <2> QED BY <2>1 DEF Init, RunningSums, MinMaxOfWindow, HistSum, HistSquares
<1> QED BY <1>1, <1>2, <1>3 DEF IInv

LEMMA ResetIInv == IInv /\ Reset => IInv'
<1> SUFFICES ASSUME IInv, Reset PROVE IInv'
  OBVIOUS
<1>0. /\ windowSize' = windowSize /\ windowSize \in WindowSizes
      /\ windowSize \in Nat /\ Slots' = Slots
  BY WindowSizesAssumption DEF Reset, IInv, TypeOK, Slots
<1>1. TypeOK'
  <2>1. values' \in [Slots -> Values \cup {0}]
    BY DEF Reset
  <2>2. valueIndex' \in Nat /\ (windowSize > 0 => valueIndex' \in Slots)
    BY <1>0 DEF Reset, Slots
  <2>3. hist' \in Seq(Entry)
    BY DEF Reset
  <2>4. windowFull' \in BOOLEAN /\ firstValueSet' \in BOOLEAN
    BY DEF Reset
  <2>5. /\ count' \in Nat /\ sum' \in Int /\ sumSquares' \in Int
        /\ min' \in Int /\ max' \in Int
        /\ firstValue' \in Values \cup {0} /\ lastValue' \in Values \cup {0}
        /\ nullCount' \in Nat /\ validCount' \in Nat
    BY InfAssumption DEF Reset
  <2> QED BY <1>0, <2>1, <2>2, <2>3, <2>4, <2>5 DEF TypeOK
<1>2. RingHoldsWindow'
  BY <1>0 DEF Reset, RingHoldsWindow, Slots
<1>3. RunningSums' /\ MinMaxOfWindow'
  <2>1. Len(hist') = 0 /\ Held' = 0
    BY <1>0 DEF Reset, Held, Lesser
  <2> QED BY <2>1 DEF Reset, RunningSums, MinMaxOfWindow, HistSum, HistSquares
<1> QED BY <1>1, <1>2, <1>3 DEF IInv

\* AddNullValue, GetStats and stuttering touch no variable of the window.
LEMMA OthersIInv ==
  IInv /\ (AddNullValue \/ GetStats \/ UNCHANGED vars) => IInv'
<1> SUFFICES ASSUME IInv, AddNullValue \/ GetStats \/ UNCHANGED vars PROVE IInv'
  OBVIOUS
<1>1. UNCHANGED <<windowSize, ring, sums, ends, hist>>
  BY DEF AddNullValue, GetStats, vars
<1>2. nullCount' \in Nat /\ validCount' \in Nat
  BY DEF AddNullValue, GetStats, vars, quality, IInv, TypeOK
<1>3. TypeOK'
  BY <1>1, <1>2 DEF IInv, TypeOK, Slots, ring, sums, ends
<1>4. RingHoldsWindow' /\ RunningSums' /\ MinMaxOfWindow'
  BY <1>1 DEF IInv, RingHoldsWindow, RunningSums, MinMaxOfWindow, Held, Window, Source,
     Slots, ring, sums, ends
<1> QED BY <1>3, <1>4 DEF IInv

----------------------------------------------------------------------------
(* Adding a value.                                                         *)

\* What Record appends, and that it leaves the earlier totals alone.
LEMMA RecordStep ==
  ASSUME TypeOK, NEW v \in Values, Record(v)
  PROVE  /\ hist' \in Seq(Entry)
         /\ Len(hist') = Len(hist) + 1
         /\ \A k \in 1 .. Len(hist) : hist'[k] = hist[k]
         /\ hist'[Len(hist) + 1].value = v
         /\ HistSum(hist', Len(hist) + 1) = HistSum(hist, Len(hist)) + v
         /\ HistSquares(hist', Len(hist) + 1) = HistSquares(hist, Len(hist)) + v * v
         /\ \A k \in 0 .. Len(hist) : /\ HistSum(hist', k) = HistSum(hist, k)
                                      /\ HistSquares(hist', k) = HistSquares(hist, k)
                                      /\ HistSum(hist, k) \in Int
                                      /\ HistSquares(hist, k) \in Int
<1> DEFINE n == Len(hist)
           e == [value |-> v, sum |-> HistSum(hist, n) + v,
                 squares |-> HistSquares(hist, n) + v * v]
<1>1. hist \in Seq(Entry) /\ n \in Nat
  BY DEF TypeOK
<1>2. \A k \in 0 .. n : HistSum(hist, k) \in Int /\ HistSquares(hist, k) \in Int
  <2>1. \A k \in 1 .. n : hist[k] \in Entry
    BY <1>1
  <2>2. \A k \in 1 .. n : hist[k].sum \in Int /\ hist[k].squares \in Int
    BY <2>1 DEF Entry
  <2> QED BY <1>1, <2>2 DEF HistSum, HistSquares
<1>3. v \in Int /\ v * v \in Int
  BY ValuesAssumption
<1>4. e \in Entry
  BY <1>1, <1>2, <1>3 DEF Entry
<1>5. hist' = Append(hist, e)
  BY DEF Record
<1> HIDE DEF e
<1>6. /\ hist' \in Seq(Entry) /\ Len(hist') = n + 1
      /\ \A k \in 1 .. n : hist'[k] = hist[k]
      /\ hist'[n + 1] = e
  BY <1>1, <1>4, <1>5
<1>7. \A k \in 0 .. n : HistSum(hist', k) = HistSum(hist, k)
                       /\ HistSquares(hist', k) = HistSquares(hist, k)
  BY <1>1, <1>6 DEF HistSum, HistSquares
<1>8. /\ hist'[n + 1].value = v
      /\ HistSum(hist', n + 1) = HistSum(hist, n) + v
      /\ HistSquares(hist', n + 1) = HistSquares(hist, n) + v * v
  BY <1>1, <1>6 DEF HistSum, HistSquares, e
<1> QED BY <1>2, <1>6, <1>7, <1>8

\* The slots in use and the positions of the window are the same values.
SlotsMatchWindow ==
  /\ \A i \in Slots : i < count => \E j \in 1 .. Held : values[i] = Window[j]
  /\ \A j \in 1 .. Held : \E i \in Slots : i < count /\ values[i] = Window[j]

RingTyped == hist \in Seq(Entry) /\ valueIndex \in Slots /\ windowSize \in Nat

LEMMA SlotsAreWindow ==
  RingTyped /\ RingHoldsWindow /\ count = Held /\ windowSize > 0 => SlotsMatchWindow
<1> SUFFICES ASSUME RingTyped, RingHoldsWindow, count = Held, windowSize > 0
             PROVE  SlotsMatchWindow
  OBVIOUS
<1> DEFINE n == Len(hist)
<1>1. /\ n \in Nat /\ windowSize \in Nat /\ valueIndex \in 0 .. windowSize - 1
      /\ n < windowSize => valueIndex = n
      /\ \A i \in Slots : i < count => values[i] = hist[Source(i)].value
  BY DEF RingTyped, RingHoldsWindow, Slots
<1>2. Held = count /\ count = IF n < windowSize THEN n ELSE windowSize
  BY <1>1 DEF Held, Lesser
<1> DEFINE src(i) == IF i < valueIndex THEN n - valueIndex + 1 + i
                                     ELSE n - valueIndex + 1 + i - windowSize
<1>s. \A i : Source(i) = src(i)
  BY DEF Source
<1>w. \A j \in 1 .. count : Window[j] = hist[n - count + j].value
  BY <1>2 DEF Window
<1> HIDE DEF n
<1>3. ASSUME NEW i \in Slots, i < count
      PROVE  \E j \in 1 .. Held : values[i] = Window[j]
  <2>1. i \in Nat /\ i < windowSize
    BY <1>1 DEF Slots
  <2>2. src(i) - n + count \in 1 .. count
    <3>1. CASE n < windowSize
      BY <1>1, <1>2, <1>3, <2>1, <3>1
    <3>2. CASE n >= windowSize
      BY <1>1, <1>2, <1>3, <2>1, <3>2
    <3> QED BY <1>1, <3>1, <3>2
  <2>3. n - count + (src(i) - n + count) = src(i)
    BY <1>1, <1>2, <2>1
  <2>4. Window[src(i) - n + count] = hist[src(i)].value
    BY <1>w, <2>2, <2>3
  <2> QED BY <1>1, <1>2, <1>3, <1>s, <2>2, <2>4
<1>4. ASSUME NEW j \in 1 .. Held
      PROVE  \E i \in Slots : i < count /\ values[i] = Window[j]
  <2> DEFINE p == valueIndex - 1 - count + j
             i == IF p < 0 THEN p + windowSize ELSE p
  <2>1. i \in Slots /\ i < count /\ src(i) = n - count + j
    <3>1. CASE n < windowSize
      BY <1>1, <1>2, <3>1 DEF Slots
    <3>2. CASE n >= windowSize
      BY <1>1, <1>2, <3>2 DEF Slots
    <3> QED BY <1>1, <3>1, <3>2
  <2> HIDE DEF i
  <2>2. values[i] = hist[n - count + j].value
    BY <1>1, <1>s, <2>1
  <2> QED BY <1>2, <1>w, <2>1, <2>2
<1> QED BY <1>3, <1>4 DEF SlotsMatchWindow

\* The variables that every AddValue changes in the same way.
LEMMA AddValueFrame ==
  ASSUME TypeOK, NEW v \in Values, AddValue(v)
  PROVE  /\ firstValueSet' \in BOOLEAN
         /\ firstValue' \in Values \cup {0} /\ lastValue' \in Values \cup {0}
         /\ nullCount' \in Nat /\ validCount' \in Nat
         /\ hist' \in Seq(Entry)
<1>1. hist' \in Seq(Entry)
  BY RecordStep DEF AddValue
<1>2. firstValueSet' \in BOOLEAN
  BY DEF AddValue
<1>3. firstValue' \in Values \cup {0} /\ lastValue' \in Values \cup {0}
  BY DEF AddValue, TypeOK
<1>4. nullCount' \in Nat /\ validCount' \in Nat
  BY DEF AddValue, TypeOK
<1> QED BY <1>1, <1>2, <1>3, <1>4

\* The recorded totals still form a chain.
LEMMA HistChain ==
  ASSUME TypeOK, RingHoldsWindow, NEW v \in Values, Record(v)
  PROVE  \A k \in 1 .. Len(hist') :
           /\ hist'[k].sum = HistSum(hist', k - 1) + hist'[k].value
           /\ hist'[k].squares = HistSquares(hist', k - 1) + hist'[k].value * hist'[k].value
<1>1. Len(hist) \in Nat
  BY DEF TypeOK
<1> SUFFICES ASSUME NEW k \in 1 .. Len(hist')
             PROVE  /\ hist'[k].sum = HistSum(hist', k - 1) + hist'[k].value
                    /\ hist'[k].squares =
                         HistSquares(hist', k - 1) + hist'[k].value * hist'[k].value
  OBVIOUS
<1>2. k \in 1 .. Len(hist) + 1 /\ k - 1 \in 0 .. Len(hist)
  BY <1>1, RecordStep
<1>3. HistSum(hist', k - 1) = HistSum(hist, k - 1)
      /\ HistSquares(hist', k - 1) = HistSquares(hist, k - 1)
  BY <1>2, RecordStep
<1>4. CASE k \in 1 .. Len(hist)
  BY <1>3, <1>4, RecordStep DEF RingHoldsWindow
<1>5. CASE k = Len(hist) + 1
  <2>1. hist'[k].value = v /\ k - 1 = Len(hist)
    BY <1>1, <1>5, RecordStep
  <2>2. HistSum(hist', k) = hist'[k].sum /\ HistSquares(hist', k) = hist'[k].squares
    BY <1>1, <1>5 DEF HistSum, HistSquares
  <2> QED BY <1>3, <1>5, <2>1, <2>2, RecordStep
<1> QED BY <1>1, <1>2, <1>4, <1>5

LEMMA CumulativeIInv ==
  ASSUME IInv, NEW v \in Values, AddValue(v), windowSize = 0
  PROVE  IInv'
<1>0. windowSize' = windowSize /\ windowSize \in WindowSizes /\ Slots' = Slots
  BY DEF AddValue, IInv, TypeOK, Slots
<1>1. addValueCumulative(v) /\ Record(v)
  BY DEF AddValue
<1>2. /\ Len(hist) \in Nat /\ count = Len(hist) /\ v \in Int /\ v * v \in Int
      /\ min \in Int /\ max \in Int /\ sum \in Int /\ sumSquares \in Int
  BY ValuesAssumption DEF IInv, TypeOK, RunningSums, Held
<1>3. Len(hist') = Len(hist) + 1 /\ Held = Len(hist) /\ Held' = Len(hist) + 1
  BY <1>0, <1>1, RecordStep DEF IInv, Held
<1>4. TypeOK'
  <2>1. values' \in [Slots -> Values \cup {0}] /\ valueIndex' \in Nat
    BY <1>1 DEF addValueCumulative, ring, IInv, TypeOK
  <2>2. windowFull' \in BOOLEAN
    BY <1>1 DEF addValueCumulative, ring, IInv, TypeOK
  <2>3. count' \in Nat /\ sum' \in Int /\ sumSquares' \in Int /\ min' \in Int /\ max' \in Int
    BY <1>1, <1>2 DEF addValueCumulative
  <2> QED BY <1>0, <2>1, <2>2, <2>3, AddValueFrame DEF IInv, TypeOK
<1>5. RingHoldsWindow'
  BY <1>0, <1>1, HistChain DEF IInv, RingHoldsWindow
<1>6. RunningSums'
  <2>1. /\ sum = HistSum(hist, Len(hist)) /\ sumSquares = HistSquares(hist, Len(hist))
    BY <1>2, <1>3, RecordStep, <1>1 DEF IInv, RunningSums, HistSum, HistSquares
  <2>2. HistSum(hist', 0) = 0 /\ HistSquares(hist', 0) = 0
    BY DEF HistSum, HistSquares
  <2>3. sum' = HistSum(hist', Len(hist) + 1) /\ sumSquares' = HistSquares(hist', Len(hist) + 1)
    BY <1>1, <1>2, <2>1, RecordStep DEF addValueCumulative, IInv
  <2> QED BY <1>1, <1>2, <1>3, <2>2, <2>3 DEF RunningSums, addValueCumulative
<1>7. MinMaxOfWindow'
  <2>1. \A i \in 1 .. Len(hist) : Window[i] = hist[i].value
    BY <1>2, <1>3 DEF Window
  <2>2. \A i \in 1 .. Len(hist) + 1 : Window'[i] = hist'[i].value
    BY <1>2, <1>3 DEF Window
  <2>3. \A i \in 1 .. Len(hist) : hist'[i] = hist[i] /\ hist[i].value \in Int
    <3>1. \A i \in 1 .. Len(hist) : hist[i] \in Entry
      BY DEF IInv, TypeOK
    <3>2. \A i \in 1 .. Len(hist) : hist[i].value \in Int
      BY <3>1, ValuesAssumption DEF Entry
    <3> QED BY <1>1, <3>2, RecordStep DEF IInv
  <2>4. hist'[Len(hist) + 1].value = v
    BY <1>1, RecordStep DEF IInv
  <2>5. \A i \in 1 .. Len(hist) : Window'[i] = Window[i] /\ Window[i] \in Int
    BY <1>2, <2>1, <2>2, <2>3
  <2>6. Window'[Len(hist) + 1] = v
    BY <1>2, <2>2, <2>4
  <2>7. /\ min' = IF v < min \/ count = 0 THEN v ELSE min
        /\ max' = IF v > max \/ count = 0 THEN v ELSE max
    BY <1>1 DEF addValueCumulative
  <2>8. CASE count = 0
    BY <1>2, <1>3, <2>6, <2>7, <2>8 DEF MinMaxOfWindow
  <2>9. CASE count > 0
    <3>1. /\ \E i \in 1 .. Len(hist) : min = Window[i]
          /\ \E i \in 1 .. Len(hist) : max = Window[i]
          /\ \A i \in 1 .. Len(hist) : min <= Window[i] /\ Window[i] <= max
      BY <1>2, <1>3, <2>9 DEF IInv, MinMaxOfWindow
    <3>2. \E i \in 1 .. Len(hist) + 1 : min' = Window'[i]
      BY <1>2, <2>5, <2>6, <2>7, <3>1
    <3>3. \E i \in 1 .. Len(hist) + 1 : max' = Window'[i]
      BY <1>2, <2>5, <2>6, <2>7, <3>1
    <3>4. ASSUME NEW i \in 1 .. Len(hist) + 1
          PROVE  min' <= Window'[i] /\ Window'[i] <= max'
      <4>1. CASE i = Len(hist) + 1
        BY <1>2, <2>6, <2>7, <4>1
      <4>2. CASE i \in 1 .. Len(hist)
        <5>1. min <= Window[i] /\ Window[i] <= max /\ Window'[i] = Window[i] /\ Window[i] \in Int
          BY <2>5, <3>1, <4>2
        <5> QED BY <1>2, <2>7, <2>9, <5>1
      <4> QED BY <1>2, <4>1, <4>2
    <3> QED BY <1>3, <3>2, <3>3, <3>4 DEF MinMaxOfWindow
  <2> QED BY <1>2, <2>8, <2>9
<1> QED BY <1>4, <1>5, <1>6, <1>7 DEF IInv

LEMMA WindowedIInv ==
  ASSUME IInv, NEW v \in Values, AddValue(v), windowSize > 0
  PROVE  IInv'
<1> DEFINE n == Len(hist)
           old == values[valueIndex]
<1>0. /\ windowSize' = windowSize /\ windowSize \in WindowSizes
      /\ windowSize \in Nat /\ Slots' = Slots
  BY WindowSizesAssumption DEF AddValue, IInv, TypeOK, Slots
<1>1. addValueWindowed(v) /\ Record(v)
  BY <1>0 DEF AddValue
<1>2. /\ n \in Nat /\ windowSize \in Nat /\ valueIndex \in 0 .. windowSize - 1
      /\ count \in Nat /\ sum \in Int /\ sumSquares \in Int
      /\ v \in Int /\ v * v \in Int
      /\ values \in [Slots -> Values \cup {0}]
  BY <1>0, ValuesAssumption DEF IInv, TypeOK, Slots
<1>3. /\ windowFull <=> n >= windowSize
      /\ n < windowSize => valueIndex = n
      /\ count = IF n < windowSize THEN n ELSE windowSize
  BY <1>2 DEF IInv, RingHoldsWindow, RunningSums, Held, Lesser
<1>4. Len(hist') = n + 1
  BY <1>1, RecordStep DEF IInv
<1>5. valueIndex' = IF valueIndex + 1 = windowSize THEN 0 ELSE valueIndex + 1
  <2>1. valueIndex' = (valueIndex + 1) % windowSize
    BY <1>1 DEF addValueWindowed, NextIndex
  <2>2. windowSize \in Nat \ {0}
    BY <1>2
  <2>3. (valueIndex + 1) % windowSize =
          IF valueIndex + 1 = windowSize THEN 0 ELSE valueIndex + 1
    BY <1>2, <2>2, NextIndexStep
  <2> QED BY <2>1, <2>3
<1>6. windowFull' <=> n + 1 >= windowSize
  <2>1. windowFull' <=> windowFull \/ valueIndex' = 0
    BY <1>1 DEF addValueWindowed
  <2>2. valueIndex' = 0 <=> valueIndex + 1 = windowSize
    BY <1>2, <1>5
  <2>3. n < windowSize => (valueIndex + 1 = windowSize <=> n + 1 >= windowSize)
    BY <1>2, <1>3
  <2>4. n >= windowSize => n + 1 >= windowSize
    BY <1>2
  <2>5. n >= windowSize \/ n < windowSize
    BY <1>2
  <2> QED BY <1>3, <2>1, <2>2, <2>3, <2>4, <2>5
<1>7. count' = IF n + 1 < windowSize THEN n + 1 ELSE windowSize
  <2>1. count' = count - Leaving(windowFull) + 1
    BY <1>1 DEF addValueWindowed
  <2>2. Leaving(windowFull) = IF n >= windowSize THEN 1 ELSE 0
    BY <1>3 DEF Leaving
  <2>3. count = IF n < windowSize THEN n ELSE windowSize
    BY <1>3
  <2> HIDE DEF n
  <2> QED BY <1>2, <2>1, <2>2, <2>3
<1>8. Held' = count' /\ count' \in Nat /\ count' >= 1
  BY <1>0, <1>2, <1>4, <1>7 DEF Held, Lesser
<1>9. values' = [values EXCEPT ![valueIndex] = v]
  BY <1>1 DEF addValueWindowed
<1>10. values' \in [Slots -> Values \cup {0}]
  BY <1>2, <1>9
<1>11. RingHoldsWindow'
  <2>1. ASSUME NEW i \in Slots, i < count'
        PROVE  values'[i] = hist'[Source(i)'].value
    <3>1. i \in Nat /\ i < windowSize
      BY <1>2 DEF Slots
    <3>2. /\ i < valueIndex' => Source(i)' = n + 1 - valueIndex' + 1 + i
          /\ ~(i < valueIndex') => Source(i)' = n + 1 - valueIndex' + 1 + i - windowSize
      <4>1. Source(i)' = IF i < valueIndex' THEN Len(hist') - valueIndex' + 1 + i
                         ELSE Len(hist') - valueIndex' + 1 + i - windowSize
        BY <1>0 DEF Source
      <4>2. valueIndex' \in Int
        BY <1>2, <1>5
      <4> HIDE DEF n
      <4> QED BY <1>2, <1>4, <3>1, <4>1, <4>2
    <3>3. CASE i = valueIndex
      <4>1. Source(i)' = n + 1
        BY <1>2, <1>5, <3>1, <3>2, <3>3
      <4>2. hist'[n + 1].value = v
        BY <1>1, RecordStep DEF IInv
      <4> QED BY <1>2, <1>9, <3>3, <4>1, <4>2 DEF Slots
    <3>4. CASE i # valueIndex
      <4>1. i < count
        BY <1>2, <1>3, <1>7, <2>1, <3>1, <3>4
      <4>2. Source(i)' = Source(i)
        <5>1. n \in Nat /\ windowSize \in Nat /\ valueIndex \in 0 .. windowSize - 1
          BY <1>2
        <5>2. /\ i < valueIndex => Source(i) = n - valueIndex + 1 + i
              /\ ~(i < valueIndex) => Source(i) = n - valueIndex + 1 + i - windowSize
          BY DEF Source
        <5> HIDE DEF n
        <5>3. CASE valueIndex + 1 = windowSize
          BY <1>5, <3>1, <3>2, <3>4, <5>1, <5>2, <5>3
        <5>4. CASE valueIndex + 1 # windowSize
          BY <1>5, <3>1, <3>2, <3>4, <5>1, <5>2, <5>4
        <5> QED BY <5>3, <5>4
      <4>3. Source(i) \in 1 .. n
        BY <1>2, <1>3, <3>1, <4>1 DEF Source
      <4>4. values'[i] = values[i] /\ values[i] = hist[Source(i)].value
        BY <1>2, <1>9, <3>4, <4>1 DEF IInv, RingHoldsWindow
      <4> QED BY <1>1, <4>2, <4>3, <4>4, RecordStep DEF IInv
    <3> QED BY <3>3, <3>4
  <2>2. ~windowFull' => valueIndex' = Len(hist')
    BY <1>2, <1>3, <1>4, <1>5, <1>6
  <2> QED BY <1>0, <1>1, <1>4, <1>6, <2>1, <2>2, HistChain DEF IInv, RingHoldsWindow
<1>12. RunningSums' /\ sum' \in Int /\ sumSquares' \in Int
  <2>1. /\ sum = HistSum(hist, n) - HistSum(hist, n - count)
        /\ sumSquares = HistSquares(hist, n) - HistSquares(hist, n - count)
    BY DEF IInv, RunningSums
  <2>2. /\ HistSum(hist', n + 1) = HistSum(hist, n) + v
        /\ HistSquares(hist', n + 1) = HistSquares(hist, n) + v * v
        /\ \A k \in 0 .. n : /\ HistSum(hist', k) = HistSum(hist, k)
                              /\ HistSquares(hist', k) = HistSquares(hist, k)
                              /\ HistSum(hist, k) \in Int /\ HistSquares(hist, k) \in Int
    BY <1>1, RecordStep DEF IInv
  <2>3. /\ sum' = sum - Leaving(windowFull) * old + v
        /\ sumSquares' = sumSquares - Leaving(windowFull) * (old * old) + v * v
    BY <1>1 DEF addValueWindowed
  <2>4. old \in Int /\ old * old \in Int
    <3>1. old \in Values \cup {0}
      BY <1>2 DEF Slots
    <3> HIDE DEF old
    <3>2. old \in Int
      BY <3>1, ValuesAssumption
    <3> QED BY <3>2
  <2>5. CASE ~windowFull
    <3>1. sum' = sum + v /\ sumSquares' = sumSquares + v * v
      BY <1>2, <2>3, <2>4, <2>5 DEF Leaving
    <3>2. count = n /\ count' = n + 1
      BY <1>2, <1>3, <1>7, <2>5
    <3>3. HistSum(hist', 0) = 0 /\ HistSquares(hist', 0) = 0
          /\ HistSum(hist, 0) = 0 /\ HistSquares(hist, 0) = 0
      BY DEF HistSum, HistSquares
    <3>4. Len(hist') - Held' = 0 /\ n - count = 0 /\ n \in 0 .. n
      BY <1>2, <1>4, <1>8, <3>2
    <3>5. /\ sum' = HistSum(hist, n) + v
          /\ sumSquares' = HistSquares(hist, n) + v * v
      BY <2>1, <2>2, <3>1, <3>3, <3>4
    <3>6. sum' \in Int /\ sumSquares' \in Int
      BY <1>2, <2>2, <3>4, <3>5
    <3>7. /\ sum' = HistSum(hist', Len(hist')) - HistSum(hist', 0)
          /\ sumSquares' = HistSquares(hist', Len(hist')) - HistSquares(hist', 0)
      BY <1>4, <2>2, <3>3, <3>5, <3>6
    <3> QED BY <1>8, <3>4, <3>6, <3>7 DEF RunningSums
  <2>6. CASE windowFull
    <3> DEFINE k == n - windowSize + 1
    <3>1. sum' = sum - old + v /\ sumSquares' = sumSquares - old * old + v * v
      BY <1>2, <2>3, <2>4, <2>6 DEF Leaving
    <3>2. n >= windowSize /\ count = windowSize /\ count' = windowSize
      BY <1>2, <1>3, <1>7, <2>6
    <3>3. k \in 1 .. n /\ k - 1 = n - windowSize /\ k = n + 1 - windowSize
      BY <1>2, <3>2
    <3>4. old = hist[k].value
      <4>1. Source(valueIndex) = k
        BY <1>2 DEF Source
      <4> QED BY <1>2, <3>2, <4>1 DEF IInv, RingHoldsWindow, Slots
    <3>5. /\ HistSum(hist, k) = HistSum(hist, k - 1) + old
          /\ HistSquares(hist, k) = HistSquares(hist, k - 1) + old * old
      <4>1. /\ hist[k].sum = HistSum(hist, k - 1) + hist[k].value
            /\ hist[k].squares = HistSquares(hist, k - 1) + hist[k].value * hist[k].value
        BY <3>3 DEF IInv, RingHoldsWindow
      <4>2. HistSum(hist, k) = hist[k].sum /\ HistSquares(hist, k) = hist[k].squares
        BY <3>3 DEF HistSum, HistSquares
      <4> QED BY <3>4, <4>1, <4>2
    <3> HIDE DEF k, old, n
    <3>6. /\ sum' = HistSum(hist', n + 1) - HistSum(hist', k)
          /\ sumSquares' = HistSquares(hist', n + 1) - HistSquares(hist', k)
          /\ sum' \in Int /\ sumSquares' \in Int
      BY <1>2, <2>1, <2>2, <2>4, <3>1, <3>2, <3>3, <3>5
    <3> QED
      <4>1. Len(hist') - Held' = k
        BY <1>2, <1>4, <1>8, <3>2, <3>3
      <4> QED BY <1>4, <1>8, <3>6, <4>1 DEF RunningSums
  <2> QED BY <2>5, <2>6
<1>13. min' \in Int /\ max' \in Int /\ MinMaxOfWindow'
  <2> DEFINE S == Scanned(values', windowFull', count')
  <2>1. S = {values'[i] : i \in {j \in Slots : j < count'}}
    <3>1. \A j \in Slots : (windowFull' \/ j < count') <=> j < count'
      BY <1>2, <1>6, <1>7 DEF Slots
    <3> QED BY <1>0, <3>1 DEF Scanned
  <2>2. SlotsMatchWindow'
    <3>1. RingTyped'
      BY <1>0, <1>1, <1>2, <1>5, RecordStep DEF IInv, RingTyped, Slots
    <3>2. (RingTyped /\ RingHoldsWindow /\ count = Held /\ windowSize > 0)'
      BY <1>0, <1>8, <1>11, <3>1
    <3> QED BY <3>2, SlotsAreWindow, PTL
  <2>3. \A j \in 1 .. Held' : Window'[j] \in Values
    <3>1. \A j \in 1 .. Held' : Window'[j] = hist'[Len(hist') - Held' + j].value
      BY DEF Window
    <3>2. \A j \in 1 .. Held' : Len(hist') - Held' + j \in 1 .. Len(hist')
      BY <1>2, <1>4, <1>7, <1>8
    <3>3. \A k \in 1 .. Len(hist') : hist'[k] \in Entry
      BY <1>1, RecordStep DEF IInv
    <3> QED BY <3>1, <3>2, <3>3 DEF Entry
  <2>4. /\ S \subseteq Values
        /\ \A x \in S : \E j \in 1 .. Held' : x = Window'[j]
        /\ \A j \in 1 .. Held' : Window'[j] \in S
    BY <1>0, <2>1, <2>2, <2>3 DEF SlotsMatchWindow
  <2>5. S # {}
    BY <1>8, <2>4
  <2>6. min' = Least(S) /\ max' = Greatest(S)
    <3>1. CASE windowFull' \/ count' > 1
      BY <1>1, <3>1 DEF addValueWindowed
    <3>2. CASE ~windowFull' /\ count' = 1
      <4>1. min' = v /\ max' = v
        BY <1>1, <1>8, <3>2 DEF addValueWindowed
      <4>2. n = 0 /\ Held' = 1
        BY <1>2, <1>6, <1>7, <1>8, <3>2
      <4>3. Window'[1] = v
        BY <1>1, <1>4, <4>2, RecordStep DEF IInv, Window
      <4>4. S = {v}
        BY <2>4, <4>2, <4>3
      <4> QED BY <2>4, <2>5, <4>1, <4>4, Extrema
    <3> QED BY <1>8, <3>1, <3>2
  <2> HIDE DEF S
  <2>7. /\ min' \in S /\ \A y \in S : min' <= y
        /\ max' \in S /\ \A y \in S : y <= max'
    BY <2>4, <2>5, <2>6, Extrema
  <2>8. min' \in Int /\ max' \in Int
    BY <2>4, <2>7, ValuesAssumption
  <2> QED BY <2>4, <2>7, <2>8 DEF MinMaxOfWindow
<1>14. TypeOK'
  <2>1. valueIndex' \in Nat /\ (windowSize > 0 => valueIndex' \in Slots)
    BY <1>2, <1>5 DEF Slots
  <2>2. windowFull' \in BOOLEAN
    BY <1>1 DEF addValueWindowed, IInv, TypeOK
  <2> QED BY <1>0, <1>8, <1>10, <1>12, <1>13, <2>1, <2>2, AddValueFrame DEF IInv, TypeOK
<1> QED BY <1>11, <1>12, <1>13, <1>14 DEF IInv

LEMMA NextIInv == IInv /\ [Next]_vars => IInv'
<1> SUFFICES ASSUME IInv, [Next]_vars PROVE IInv'
  OBVIOUS
<1>1. CASE \E v \in Values : AddValue(v)
  <2> PICK v \in Values : AddValue(v)
    BY <1>1
  <2>1. windowSize = 0 \/ windowSize > 0
    BY WindowSizesAssumption DEF IInv, TypeOK
  <2> QED BY <2>1, CumulativeIInv, WindowedIInv
<1>2. CASE Reset
  BY <1>2, ResetIInv
<1>3. CASE AddNullValue \/ GetStats \/ UNCHANGED vars
  BY <1>3, OthersIInv
<1> QED BY <1>1, <1>2, <1>3 DEF Next

THEOREM Invariance == Spec => []IInv
<1>1. Init => IInv
  BY InitIInv
<1>2. IInv /\ [Next]_vars => IInv'
  BY NextIInv
<1> QED BY <1>1, <1>2, PTL DEF Spec

\* The state of a statistics object keeps its types.
THEOREM TypeCorrect == Spec => []TypeOK
<1>1. IInv => TypeOK
  BY DEF IInv
<1> QED BY <1>1, Invariance, PTL

\* The ring always holds the last windowSize values, each in its slot.
THEOREM RingCorrect == Spec => []RingHoldsWindow
<1>1. IInv => RingHoldsWindow
  BY DEF IInv
<1> QED BY <1>1, Invariance, PTL

\* count, sum and sumSquares are those of the last windowSize values, for every
\* window size and every sequence of additions and resets.
THEOREM SumsCorrect == Spec => []RunningSums
<1>1. IInv => RunningSums
  BY DEF IInv
<1> QED BY <1>1, Invariance, PTL

\* min and max are those of the last windowSize values.
THEOREM MinMaxCorrect == Spec => []MinMaxOfWindow
<1>1. IInv => MinMaxOfWindow
  BY DEF IInv
<1> QED BY <1>1, Invariance, PTL
=============================================================================
