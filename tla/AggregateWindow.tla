---------------------------- MODULE AggregateWindow ----------------------------
(***************************************************************************)
(* The window of one aggregation state, as the engine runs it:             *)
(* executeLegacyAggregateAction on ShardedAggregateStates.                 *)
(*                                                                         *)
(* UpdateState appends a point under the lock of the shard and says        *)
(* whether the window is full.  The worker that filled it computes the     *)
(* result from state.Buffer without the lock, and ClearStateBuffer then    *)
(* truncates whatever is in the buffer.  Workers of the pool execute one   *)
(* rule for several points at a time, so these parts interleave.           *)
(*                                                                         *)
(* The buffer is a Go slice: a backing array, its generation and a length. *)
(* Truncation keeps the array, so that later points overwrite it; an       *)
(* append beyond the capacity moves to a new array of twice the size.  The *)
(* read of the slice without the lock is a data race: its words and its    *)
(* elements are loaded one by one, and a load past the end of an array, or *)
(* of a cell that was never written, gives Garbage.                        *)
(***************************************************************************)
EXTENDS Naturals, Sequences, FiniteSets, SequencesExt

CONSTANTS Workers,
          Window,     \* points per result
          MaxPoints,  \* bound: points the rule matches
          Numeric,    \* those with a value that convertToFloat64 takes
          Garbage

ASSUME WindowAssumption == Window \in Nat \ {0}

VARIABLES next,     \* the next point
          arrays,   \* the arrays of the state, the last one is current; <<>>: no state
          length,   \* len(state.Buffer)
          at,       \* where each worker is in the action
          supported,\* the rule's function is one calculateAggregateResult knows
          failed,   \* history: actions that ended in an error since the buffer was empty
          slice,    \* the slice a worker reads: array and length
          got,      \* the elements it has read
          results,  \* history: the points every result was computed from
          shared,   \* history: points in the buffer while two workers were at work
          expired   \* history: points dropped with an idle state

vars == <<next, arrays, length, at, supported, failed, slice, got, results, shared, expired>>

-----------------------------------------------------------------------------
Capacity(array) == Len(array)
Current == arrays[Len(arrays)]
Buffer  == IF arrays = <<>> THEN <<>> ELSE SubSeq(Current, 1, length)
Busy == {w \in Workers : at[w] # "idle"}

\* An array of n cells with the first "length" ones of the current array and then p.
Array(n, p) ==
    [i \in 1..n |-> IF i = length + 1 THEN p
                   ELSE IF arrays # <<>> /\ i <= Capacity(Current) THEN Current[i] ELSE Garbage]

BadAppended(p) ==
    IF arrays = <<>> THEN <<Array(Window, p)>>
    ELSE Front(arrays) \o <<Array(Capacity(Current), p)>>

\* append(state.Buffer, p), as the arrays after it
Appended(p) ==
    IF arrays = <<>> THEN <<Array(Window, p)>>
    ELSE IF length < Capacity(Current)
         THEN Front(arrays) \o <<Array(Capacity(Current), p)>>
         ELSE Append(arrays, Array(2 * Capacity(Current), p))

Init ==
    /\ next = 1 /\ arrays = <<>> /\ length = 0
    /\ at = [w \in Workers |-> "idle"]
    /\ supported \in BOOLEAN /\ failed = 0
    /\ slice = [w \in Workers |-> [array |-> 0, length |-> 0]]
    /\ got = [w \in Workers |-> <<>>]
    /\ results = <<>> /\ shared = {} /\ expired = {}

BadUpdateState(w) ==
    /\ at[w] = "idle" /\ next <= MaxPoints
    /\ next' = next + 1
    /\ arrays' = Appended(next)
    /\ length' = length + 1
    /\ at' = [at EXCEPT ![w] = IF length' = Window THEN "array" ELSE "idle"]
    /\ shared' = IF Busy = {} THEN shared ELSE shared \cup ToSet(Buffer) \cup {next}
    /\ UNCHANGED <<supported, failed, slice, got, results, expired>>


\* UpdateState: one critical section.
UpdateState(w) ==
    /\ at[w] = "idle" /\ next <= MaxPoints
    /\ next' = next + 1
    /\ arrays' = Appended(next)
    /\ length' = length + 1
    /\ at' = [at EXCEPT ![w] = IF length' >= Window THEN "array" ELSE "idle"]
    /\ shared' = IF Busy = {} THEN shared ELSE shared \cup ToSet(Buffer) \cup {next}
    /\ UNCHANGED <<supported, failed, slice, got, results, expired>>

\* state.Buffer as the argument of calculateAggregateResult: the pointer...
LoadArray(w) ==
    /\ at[w] = "array"
    /\ slice' = [slice EXCEPT ![w].array = Len(arrays)]
    /\ at' = [at EXCEPT ![w] = "length"]
    /\ UNCHANGED <<next, arrays, length, supported, failed, got, results, shared, expired>>

\* ... and the length.
LoadLength(w) ==
    /\ at[w] = "length"
    /\ slice' = [slice EXCEPT ![w].length = length]
    /\ at' = [at EXCEPT ![w] = "read"]
    /\ UNCHANGED <<next, arrays, length, supported, failed, got, results, shared, expired>>

\* The loop over the points of the buffer.
ReadPoint(w) ==
    LET i == Len(got[w]) + 1
        array == arrays[slice[w].array] IN
    /\ at[w] = "read" /\ i <= slice[w].length
    /\ got' = [got EXCEPT ![w] = Append(@, IF i <= Capacity(array) THEN array[i] ELSE Garbage)]
    /\ UNCHANGED <<next, arrays, length, at, supported, failed, slice, results, shared, expired>>

\* What the result is computed from: nothing when the buffer holds no value or the
\* function is not one of avg, sum, max, min and count.
Values(points) == IF supported THEN ToSet(points) \cap Numeric ELSE {}

\* calculateAggregateResult: without a value to compute from, the action returns the
\* error and the buffer stays; else the result is published.
Compute(w) ==
    /\ at[w] = "read" /\ Len(got[w]) = slice[w].length
    /\ IF Values(got[w]) = {}
       THEN at' = [at EXCEPT ![w] = "idle"] /\ failed' = failed + 1 /\ UNCHANGED results
       ELSE /\ at' = [at EXCEPT ![w] = "clear"]
            /\ results' = Append(results, [points |-> ToSet(got[w]), failed |-> failed])
            /\ UNCHANGED failed
    /\ got' = [got EXCEPT ![w] = <<>>]
    /\ UNCHANGED <<next, arrays, length, supported, slice, shared, expired>>

KeepingOne(w) ==
    /\ at[w] = "clear"
    /\ length' = IF length > 0 THEN 1 ELSE 0
    /\ failed' = 0
    /\ at' = [at EXCEPT ![w] = "idle"]
    /\ UNCHANGED <<next, arrays, supported, slice, got, results, shared, expired>>

\* ClearStateBuffer: state.Buffer[:0].
ClearStateBuffer(w) ==
    /\ at[w] = "clear"
    /\ length' = 0 /\ failed' = 0
    /\ at' = [at EXCEPT ![w] = "idle"]
    /\ UNCHANGED <<next, arrays, supported, slice, got, results, shared, expired>>

\* CleanExpiredStates removes a state without an update for ten minutes, far longer
\* than any worker is at work on it.
CleanExpiredStates ==
    /\ arrays # <<>> /\ Busy = {}
    /\ expired' = expired \cup ToSet(Buffer)
    /\ arrays' = <<>> /\ length' = 0 /\ failed' = 0
    /\ UNCHANGED <<next, at, supported, slice, got, results, shared>>

Next ==
    \/ CleanExpiredStates
    \/ \E w \in Workers :
          UpdateState(w) \/ LoadArray(w) \/ LoadLength(w) \/ ReadPoint(w) \/ Compute(w) \/ ClearStateBuffer(w)

Spec == Init /\ [][Next]_vars

-----------------------------------------------------------------------------
\* Type invariant.
TypeOK ==
    /\ next \in 1..(MaxPoints + 1)
    /\ \A g \in DOMAIN arrays : \A i \in DOMAIN arrays[g] : arrays[g][i] \in 1..MaxPoints \cup {Garbage}
    /\ length \in 0..(IF arrays = <<>> THEN 0 ELSE Capacity(Current))
    /\ at \in [Workers -> {"idle", "array", "length", "read", "clear"}]
    /\ supported \in BOOLEAN /\ failed \in 0..MaxPoints
    /\ slice \in [Workers -> [array : Nat, length : 0..MaxPoints]]
    /\ \A w \in Workers : /\ Len(got[w]) <= slice[w].length
                          /\ at[w] \in {"length", "read", "clear"} => slice[w].array \in DOMAIN arrays

\* What the buffer holds beyond a window short of one is accounted for: one point for
\* every worker at work on it and one for every action that ended in an error since it
\* was last empty.  So a window is never left full and alone, and the buffer is bounded
\* as long as no action fails; with values that are no numbers, or a function the engine
\* does not know, it grows by one point per failed action, which the code does not stop.
BufferBound == length <= Window - 1 + Cardinality(Busy) + failed

Gone == (1..(next - 1)) \ (ToSet(Buffer) \cup expired)


Consecutive(points) ==
    /\ points \subseteq 1..MaxPoints
    /\ \A p, q \in points : p..q \subseteq points

\* A result nobody interfered with comes from consecutive points, a window of them and at
\* most one more for every action that failed before: no point of an earlier window
\* slips in from the array that truncation keeps, and none that arrived later.
ResultIsWindow ==
    \A i \in DOMAIN results :
        results[i].points \cap shared = {}
            => /\ Consecutive(results[i].points)
               /\ Cardinality(results[i].points) \in Window..(Window + results[i].failed)
=============================================================================
