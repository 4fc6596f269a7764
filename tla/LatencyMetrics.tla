---------------------------- MODULE LatencyMetrics ----------------------------
(***************************************************************************)
(* The timestamps of a request (core/request.py), the latencies the        *)
(* collector derives from them when a worker or a handler reports an       *)
(* outcome (metrics/collector.py), its histograms and its percentiles      *)
(* (metrics/latency.py).  Time is counted in ticks, and what the code does *)
(* within one tick takes no time.                                          *)
(***************************************************************************)
EXTENDS Integers, FiniteSets, SequencesExt

CONSTANTS
    Requests,
    Never,         \* a timestamp that is None
    Horizon,       \* bound on the clock
    Boundaries     \* the buckets' upper bounds

ASSUME MetricsAssumption ==
    /\ Never \notin Int
    /\ Horizon \in Nat
    /\ Boundaries \in Seq(Nat)
    /\ \A i, j \in 1 .. Len(Boundaries) : i < j => Boundaries[i] < Boundaries[j]

VARIABLES
    now,
    stamp,       \* the timestamps of each RuntimeRequest
    worker,      \* how far the worker has got with each request
    handler,     \* and the handler
    samples,     \* queue_wait_times, ttft_times, total_latencies
    hist,        \* their histograms
    reported     \* history: the total latencies recorded for each request

vars == <<now, stamp, worker, handler, samples, hist, reported>>

Series == {"wait", "ttft", "total"}
Time == 0 .. Horizon
Stamps == [created : Time \cup {Never}, enqueued : Time \cup {Never},
           started : Time \cup {Never}, first : Time \cup {Never},
           completed : Time \cup {Never}, failed : Time \cup {Never}]

-----------------------------------------------------------------------------
(* Histogram.                                                              *)

LastBucket == Len(Boundaries) + 1

NewHistogram == [counts |-> [k \in 1 .. LastBucket |-> 0], sum |-> 0, total |-> 0]

(* Faulty: a value on a boundary goes to the bucket after it.              *)
Bucket_Strict(v) ==
    Min({k \in 1 .. Len(Boundaries) : v < Boundaries[k]} \cup {LastBucket})

(* The first bucket whose bound is not below the value, or +Inf.           *)
Bucket(v) ==
    Min({k \in 1 .. Len(Boundaries) : v <= Boundaries[k]} \cup {LastBucket})

Observe(h, v) ==
    [counts |-> [h.counts EXCEPT ![Bucket(v)] = @ + 1],
     sum |-> h.sum + v, total |-> h.total + 1]

(* The exported count of bucket k.                                         *)
Cumulative(h, k) == SumFunctionOnSet(h.counts, 1 .. k)

-----------------------------------------------------------------------------
(* percentile.                                                             *)

(* Python's round of a / b.                                                *)
RoundHalfEven(a, b) ==
    LET q == a \div b
        r == a % b
    IN  IF 2 * r < b \/ (2 * r = b /\ q % 2 = 0) THEN q ELSE q + 1

(* The position, from 0, in n sorted values.                               *)
Index(n, pct) == Min({n - 1, Max({0, RoundHalfEven(pct * (n - 1), 100)})})

(* Into a sorted list, after the values that do not exceed it.             *)
Insert(list, v) ==
    InsertAt(list, Cardinality({i \in DOMAIN list : list[i] <= v}) + 1, v)

Sorted(values) == FoldLeft(Insert, <<>>, values)

(* Faulty: the values are taken in the order they came.                    *)
Percentile_Unsorted(values, pct) ==
    IF values = <<>> THEN 0 ELSE values[Index(Len(values), pct) + 1]

Percentile(values, pct) ==
    IF values = <<>> THEN 0
    ELSE Sorted(values)[Index(Len(values), pct) + 1]

-----------------------------------------------------------------------------
(* MetricsCollector._record_timing.                                        *)

(* Faulty: a later failure replaces the completion.                        *)
EndTime_FailedFirst(s) == IF s.failed # Never THEN s.failed ELSE s.completed

EndTime(s) == IF s.completed # Never THEN s.completed ELSE s.failed

Known(s) ==
    {m \in Series :
        CASE m = "wait" -> s.enqueued # Never /\ s.started # Never
          [] m = "ttft" -> s.first # Never
          [] m = "total" -> EndTime(s) # Never}

(* Faulty: the two ends of the queue wait are exchanged.                   *)
Latency_Swapped(s, m) ==
    CASE m = "wait" -> s.enqueued - s.started
      [] m = "ttft" -> s.first - s.created
      [] m = "total" -> EndTime(s) - s.created

Latency(s, m) ==
    CASE m = "wait" -> s.started - s.enqueued
      [] m = "ttft" -> s.first - s.created
      [] m = "total" -> EndTime(s) - s.created

(* s: the timestamps of request r, those just set included.                *)
RecordTiming(r, s) ==
    /\ samples' = [m \in Series |-> IF m \in Known(s)
                                    THEN Append(samples[m], Latency(s, m))
                                    ELSE samples[m]]
    /\ hist' = [m \in Series |-> IF m \in Known(s)
                                 THEN Observe(hist[m], Latency(s, m))
                                 ELSE hist[m]]
    /\ reported' = [reported EXCEPT ![r] =
                       IF "total" \in Known(s) THEN @ \cup {Latency(s, "total")} ELSE @]

-----------------------------------------------------------------------------
Init ==
    /\ now = 0
    /\ stamp = [r \in Requests |->
                  [created |-> Never, enqueued |-> Never, started |-> Never,
                   first |-> Never, completed |-> Never, failed |-> Never]]
    /\ worker = [r \in Requests |-> "absent"]
    /\ handler = [r \in Requests |-> "absent"]
    /\ samples = [m \in Series |-> <<>>]
    /\ hist = [m \in Series |-> NewHistogram]
    /\ reported = [r \in Requests |-> {}]

Tick ==
    /\ now < Horizon
    /\ now' = now + 1
    /\ UNCHANGED <<stamp, worker, handler, samples, hist, reported>>

(* An accepted request: created, admitted and enqueued in one go.          *)
Enqueue(r) ==
    /\ handler[r] = "absent"
    /\ stamp' = [stamp EXCEPT ![r].created = now, ![r].enqueued = now]
    /\ handler' = [handler EXCEPT ![r] = "waiting"]
    /\ worker' = [worker EXCEPT ![r] = "queued"]
    /\ UNCHANGED <<now, samples, hist, reported>>

(* next_batch marks what it returns, whether its client has gone or not;   *)
(* _execute_batch leaves out the cancelled.                                *)
Dispatch(r) ==
    /\ worker[r] = "queued"
    /\ stamp' = [stamp EXCEPT ![r].started = now]
    /\ worker' = [worker EXCEPT ![r] = IF handler[r] = "gone" THEN "dropped" ELSE "running"]
    /\ UNCHANGED <<now, handler, samples, hist, reported>>

Running(r) == worker[r] = "running" /\ handler[r] # "gone"

FirstToken(r) ==
    /\ Running(r)
    /\ stamp[r].first = Never
    /\ stamp' = [stamp EXCEPT ![r].first = now]
    /\ UNCHANGED <<now, worker, handler, samples, hist, reported>>

(* Faulty: mark_completed is forgotten.                                    *)
Complete_Unmarked(r) ==
    /\ Running(r)
    /\ worker' = [worker EXCEPT ![r] = "reported"]
    /\ RecordTiming(r, stamp[r])
    /\ UNCHANGED <<now, stamp, handler>>

(* _complete_item.                                                         *)
Complete(r) ==
    /\ Running(r)
    /\ stamp' = [stamp EXCEPT ![r].completed = now]
    /\ worker' = [worker EXCEPT ![r] = "reported"]
    /\ RecordTiming(r, stamp'[r])
    /\ UNCHANGED <<now, handler>>

(* _fail_item.                                                             *)
Fail(r) ==
    /\ Running(r)
    /\ stamp' = [stamp EXCEPT ![r].failed = now]
    /\ worker' = [worker EXCEPT ![r] = "reported"]
    /\ RecordTiming(r, stamp'[r])
    /\ UNCHANGED <<now, handler>>

(* The handler learns of the outcome.                                      *)
Answer(r) ==
    /\ handler[r] = "waiting"
    /\ worker[r] = "reported"
    /\ handler' = [handler EXCEPT ![r] = "answered"]
    /\ UNCHANGED <<now, stamp, worker, samples, hist, reported>>

(* Or it cancels, at a timeout or when the client leaves: it may do so     *)
(* after the worker has reported an outcome.                               *)
GiveUp(r) ==
    /\ handler[r] = "waiting"
    /\ stamp' = [stamp EXCEPT ![r].failed = now]
    /\ handler' = [handler EXCEPT ![r] = "gone"]
    /\ RecordTiming(r, stamp'[r])
    /\ UNCHANGED <<now, worker>>

Next ==
    \/ Tick
    \/ \E r \in Requests :
          \/ Enqueue(r) \/ Dispatch(r) \/ FirstToken(r) \/ Complete(r)
          \/ Fail(r) \/ Answer(r) \/ GiveUp(r)

Spec == Init /\ [][Next]_vars

-----------------------------------------------------------------------------
TypeOK ==
    /\ now \in Time
    /\ stamp \in [Requests -> Stamps]
    /\ worker \in [Requests -> {"absent", "queued", "running", "dropped", "reported"}]
    /\ handler \in [Requests -> {"absent", "waiting", "answered", "gone"}]
    /\ samples \in [Series -> Seq(Time)]
    /\ hist \in [Series -> [counts : [1 .. LastBucket -> Nat], sum : Nat, total : Nat]]
    /\ reported \in [Requests -> SUBSET Time]

(* The histograms and the lists are kept apart: each bucket, +Inf          *)
(* included, counts the recorded samples that belong to it.                *)
BucketsAgree ==
    \A m \in Series :
       /\ \A k \in 1 .. LastBucket :
             hist[m].counts[k] = Cardinality({i \in DOMAIN samples[m] : Bucket(samples[m][i]) = k})
       /\ hist[m].total = Len(samples[m])

(* Histogram: "Prometheus export emits cumulative bucket counts".  The     *)
(* exported bucket counts the recorded samples up to its bound, and the    *)
(* count and the sum are those of the samples.                             *)
ExportIsCumulative ==
    /\ BucketsAgree
    /\ \A m \in Series :
          /\ \A k \in 1 .. Len(Boundaries) :
                Cumulative(hist[m], k)
                   = Cardinality({i \in DOMAIN samples[m] : samples[m][i] <= Boundaries[k]})
          /\ hist[m].sum = SumFunction(samples[m])

(* Who reports an outcome records a total latency, and no other latency of *)
(* that request exceeds it: started_at, first_token_at and the end follow  *)
(* each other, whoever sets them.                                          *)
TimingsNested ==
    [][ LET Added(m) == Len(samples'[m]) > Len(samples[m])
            New(m) == samples'[m][Len(samples'[m])]
        IN  /\ Added("total")
            /\ Added("wait") => New("wait") <= New("total")
            /\ Added("ttft") => /\ Added("wait")
                                /\ New("wait") <= New("ttft")
                                /\ New("ttft") <= New("total") ]_samples

(* A completed request has one latency, up to its completion, even if its  *)
(* handler gives up later and reports it once more.                        *)
OneLatency ==
    \A r \in Requests : stamp[r].completed # Never =>
        reported[r] = {stamp[r].completed - stamp[r].created}

CountOf(values, Test(_)) == Cardinality({i \in DOMAIN values : Test(values[i])})

(* The rank of the definition: the least k with k/n >= pct/100.            *)
NearestRank(n, pct) == (pct * n + 99) \div 100

(* p50, p95 and p99 are in order, are among the samples, and each is       *)
(* within one place of the nearest rank.                                   *)
QuantilesNearRank ==
    \A m \in Series :
       LET v == samples[m]
           P(pct) == Percentile(v, pct)
       IN  v # <<>> =>
             /\ P(50) <= P(95) /\ P(95) <= P(99)
             /\ \A pct \in {50, 95, 99} :
                   /\ P(pct) \in Range(v)
                   /\ CountOf(v, LAMBDA x : x <= P(pct)) >= NearestRank(Len(v), pct) - 1
                   /\ CountOf(v, LAMBDA x : x < P(pct)) <= NearestRank(Len(v), pct)
=============================================================================
