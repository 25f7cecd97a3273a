------------------------------ MODULE HistoryChart ------------------------------
(***************************************************************************)
(* What a chart of one sensor draws of its history: chart_points and the   *)
(* downsampling below it, crates/hwall-gui/src/history.rs.  The samples    *)
(* come in one by one; the properties look at every chart of them.         *)
(* A value is an Option, the set of its value.  Floating point is exact    *)
(* but for one thing: the multiples of every in short, if whole numbers,   *)
(* come out just below them.                                               *)
(***************************************************************************)
EXTENDS Integers, Sequences, SequencesExt, FiniteSetsExt

CONSTANTS
    SampleValues,   \* values of a reading, options
    Steps,      \* time since the last sample, and the expected interval
    MinPoints,  \* the fewest points a run is reduced to, 8
    Points,     \* max_points, from the width of the chart
    Windows,    \* lengths of the visible window
    Roundings,  \* the multiples of every that may come out short
    MaxSampleTime     \* bound of the clock

ASSUME ChartAssumption ==
    /\ \A r \in SampleValues : r \in SUBSET Int /\ \A x, y \in r : x = y
    /\ Steps \subseteq [gap : Nat \ {0}, interval : Nat \ {0}]
    /\ MinPoints \in Nat /\ MinPoints >= 3
    /\ Points \subseteq Nat /\ Windows \subseteq Nat /\ MaxSampleTime \in Nat
    /\ Roundings \subseteq SUBSET (Nat \ {0})

VARIABLE samples

Now == IF samples = <<>> THEN 0 ELSE Last(samples).at

-----------------------------------------------------------------------------
(* largest_triangle_three_buckets *)

(* floor of a multiple of every = (n - 2) / (threshold - 2) *)
Floor(k, n, threshold, short) ==
    LET exact == (k * (n - 2)) \div (threshold - 2)
    IN IF k \in short /\ (k * (n - 2)) % (threshold - 2) = 0
       THEN exact - 1 ELSE exact

AtMost(x, y) == IF x <= y THEN x ELSE y
AtLeast(x, y) == IF x >= y THEN x ELSE y
Magnitude(x) == IF x < 0 THEN -x ELSE x

Y(sample) == CHOOSE y \in sample.value : TRUE

(* Indices count from zero, as in the code: those of a bucket, and of the  *)
(* one after it whose average is compared, or the last sample alone.       *)
Bucket(b, n, threshold, short) ==
    LET start == AtMost(Floor(b, n, threshold, short) + 1, n - 1)
        end == AtMost(Floor(b + 1, n, threshold, short) + 1, n - 1)
    IN start .. AtLeast(end, start + 1) - 1

NextBucket(b, n, threshold, short) ==
    LET start == AtMost(Floor(b + 1, n, threshold, short) + 1, n - 1)
        end == AtMost(Floor(b + 2, n, threshold, short) + 1, n)
    IN IF start = end THEN [first |-> n - 1, last |-> n - 1]
                      ELSE [first |-> start, last |-> end - 1]

SumBetween(f, first, last) ==
    LET sum[j \in first - 1 .. last] == IF j < first THEN 0 ELSE sum[j - 1] + f[j]
    IN sum[last]

(* The area is that of the triangle of the last point selected, this one   *)
(* and the average of the next bucket, times twice the size of that bucket.*)
Area(run, anchor, i, next) ==
    LET x == [j \in 0 .. Len(run) - 1 |-> run[j + 1].at - run[1].at]
        y == [j \in 0 .. Len(run) - 1 |-> Y(run[j + 1])]
        size == next.last - next.first + 1
        sum(f) == SumBetween(f, next.first, next.last)
    IN Magnitude((x[anchor] * size - sum(x)) * (y[i] - y[anchor])
                 - (x[anchor] - x[i]) * (sum(y) - y[anchor] * size))

(* The first of the bucket with the largest area. *)
Farthest(run, anchor, bucket, next) ==
    CHOOSE i \in bucket :
        \A j \in bucket :
            LET a == Area(run, anchor, i, next)
                b == Area(run, anchor, j, next)
            IN a > b \/ (a = b /\ i <= j)

Downsampled(run, threshold, short) ==
    LET n == Len(run)
        selected[b \in 0 .. threshold - 2] ==
            IF b = 0 THEN 0
            ELSE Farthest(run, selected[b - 1], Bucket(b - 1, n, threshold, short),
                          NextBucket(b - 1, n, threshold, short))
    IN IF n <= threshold \/ threshold < 3 THEN run
       ELSE [i \in 1 .. threshold |->
               IF i = threshold THEN run[n] ELSE run[selected[i - 1] + 1]]

-----------------------------------------------------------------------------
(* chart_points *)

Point(sample) == [at |-> sample.at, value |-> sample.value]
DrawnPoints(run) == [i \in DOMAIN run |-> Point(run[i])]

AppendSegment(output, segment, max, short) ==
    output \o DrawnPoints(Downsampled(segment, AtLeast(max, MinPoints), short))

(* A mutant: only the interval before a pause explains it. *)
GapAfter(earlier, later) == later.at - earlier.at > 3 * earlier.interval

GapBetween(earlier, later) ==
    later.at - earlier.at > 3 * AtLeast(earlier.interval, later.interval)

Visible(sample, window, end) == sample.at >= end - window /\ sample.at <= end

(* A break is marked unless nothing was drawn before it. *)
Break(output, sample) ==
    IF output # <<>> /\ Last(output).value # {}
    THEN Append(output, [at |-> sample.at, value |-> {}])
    ELSE output

NothingDrawn == [output |-> <<>>, run |-> <<>>, previous |-> {}]

Draw(drawn, sample, max, short) ==
    LET hole == \/ sample.value = {}
                \/ \E p \in drawn.previous : GapBetween(p, sample)
    IN [output |-> IF hole
                   THEN Break(AppendSegment(drawn.output, drawn.run, max, short), sample)
                   ELSE drawn.output,
        run |-> (IF hole THEN <<>> ELSE drawn.run)
                \o (IF sample.value = {} THEN <<>> ELSE <<sample>>),
        previous |-> {sample}]

ChartPoints(window, end, max, short) ==
    LET drawn[i \in 0 .. Len(samples)] ==
            IF i = 0 THEN NothingDrawn
            ELSE IF Visible(samples[i], window, end)
                 THEN Draw(drawn[i - 1], samples[i], max, short)
                 ELSE drawn[i - 1]
        all == drawn[Len(samples)]
    IN AppendSegment(all.output, all.run, max, short)

-----------------------------------------------------------------------------
ChartInit == samples = <<>>

TakeSample ==
    \E value \in SampleValues, step \in Steps :
        /\ Now + step.gap <= MaxSampleTime
        /\ samples' = Append(samples, [at |-> Now + step.gap,
                                       interval |-> step.interval, value |-> value])

ChartNext == TakeSample

ChartSpec == ChartInit /\ [][ChartNext]_samples

-----------------------------------------------------------------------------
(* Properties of every chart *)

Charts == { ChartPoints(w, Now, m, short) :
              w \in Windows, m \in Points, short \in Roundings }

Drawn(chart) == { i \in DOMAIN chart : chart[i].value # {} }

(* Samples of the window, by their time. *)
SampleAt(t) == CHOOSE i \in DOMAIN samples : samples[i].at = t

(* A hole lies between two samples: a reading without a value, or a pause  *)
(* that neither of the two intervals around it explains.                   *)
Hole(a, b) ==
    \E i \in a + 1 .. b :
        \/ samples[i].value = {}
        \/ \A j \in {i - 1, i} :
              samples[i].at - samples[i - 1].at > 3 * samples[j].interval

(* The chart goes forward in time through real samples: a decimated chart  *)
(* shows no averages.                                                      *)
Forward(chart) ==
    /\ \A i \in Drawn(chart) : \E j \in DOMAIN samples : chart[i] = Point(samples[j])
    /\ \A i, j \in DOMAIN chart : i < j => chart[i].at <= chart[j].at
    /\ \A i, j \in Drawn(chart) : i < j => chart[i].at < chart[j].at

(* The line that is drawn goes forward through samples, and two of its     *)
(* points are connected exactly when nothing is missing between them,      *)
(* however many samples were left out.                                     *)
BreaksAtHoles ==
    \A chart \in Charts :
        /\ Forward(chart)
        /\ \A i, j \in Drawn(chart) :
              i < j /\ (i + 1 .. j - 1) \cap Drawn(chart) = {}
              => (j = i + 1 <=> ~Hole(SampleAt(chart[i].at), SampleAt(chart[j].at)))

(* Runs: the samples between two holes. *)
Run(window) ==
    LET shown == { i \in DOMAIN samples : samples[i].at >= Now - window }
    IN { S \in { a .. b : a, b \in shown } :
           /\ S # {} /\ \A i \in S : samples[i].value # {}
           /\ \A i \in S : ~Hole(Min(S), i)
           /\ Min(S) - 1 \in shown =>
                 samples[Min(S) - 1].value = {} \/ Hole(Min(S) - 1, Min(S))
           /\ Max(S) + 1 \in shown => Hole(Max(S), Max(S) + 1) }

(* A run is drawn from its first to its last sample, in no more points than *)
(* fit, and a value that stands out alone is not decimated away, but for    *)
(* the last but one sample: floating point may leave it out of the last     *)
(* bucket.                                                                  *)
ShowsRuns ==
    \A w \in Windows, m \in Points, short \in Roundings :
        LET chart == ChartPoints(w, Now, m, short)
            times == { chart[i].at : i \in Drawn(chart) }
        IN \A S \in Run(w) :
              LET T == { i \in S : samples[i].at \in times }
              IN /\ {Min(S), Max(S)} \subseteq T
                 /\ Cardinality(T) <= AtLeast(m, MinPoints)
                 /\ Cardinality(S) <= AtLeast(m, MinPoints) => T = S
                 /\ \A i \in S :
                       (\A j, k \in S \ {i} : samples[j].value = samples[k].value
                                              /\ samples[i].value # samples[j].value)
                         => i \in T \/ (short # {} /\ i = Max(S) - 1)
=============================================================================
