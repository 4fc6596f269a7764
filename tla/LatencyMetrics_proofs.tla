------------------------- MODULE LatencyMetrics_proofs -------------------------
(***************************************************************************)
(* Theorems about LatencyMetrics, for any number of requests, any clock    *)
(* and any bucket bounds.                                                  *)
(***************************************************************************)
EXTENDS LatencyMetrics, CollectionTheorems

(***************************************************************************)
(* Buckets.                                                                *)
(***************************************************************************)

(* Every latency has a bucket.                                             *)
LEMMA BucketExists ==
    ASSUME NEW v \in Nat
    PROVE  Bucket(v) \in 1 .. LastBucket
<1>1. Len(Boundaries) \in Nat
  BY MetricsAssumption
<1> DEFINE S == {k \in 1 .. Len(Boundaries) : v <= Boundaries[k]} \cup {LastBucket}
<1>2. S \subseteq 1 .. LastBucket /\ S # {} /\ S \in SUBSET Nat
  BY <1>1 DEF LastBucket
<1>3. Min(S) \in S
  BY <1>2, MinIsLeast
<1>4. QED
  BY <1>2, <1>3 DEF Bucket

Histograms == [counts : [1 .. LastBucket -> Nat], sum : Nat, total : Nat]

(* Counting one more keeps a table of counts.                              *)
LEMMA OneMore ==
    ASSUME NEW D, NEW f \in [D -> Nat], NEW d \in D
    PROVE  [f EXCEPT ![d] = @ + 1] \in [D -> Nat]
<1>1. f[d] + 1 \in Nat
  OBVIOUS
<1>2. QED
  BY <1>1

(* An observation yields a histogram.                                      *)
LEMMA ObserveTyped ==
    ASSUME NEW h \in Histograms, NEW v \in Nat
    PROVE  Observe(h, v) \in Histograms
<1>1. h.counts \in [1 .. LastBucket -> Nat] /\ h.sum \in Nat /\ h.total \in Nat
  BY DEF Histograms
<1>2. [h.counts EXCEPT ![Bucket(v)] = @ + 1] \in [1 .. LastBucket -> Nat]
  BY <1>1, BucketExists, OneMore
<1>3. h.sum + v \in Nat /\ h.total + 1 \in Nat
  BY <1>1
<1>4. QED
  BY <1>2, <1>3, Zenon DEF Histograms, Observe

(***************************************************************************)
(* Percentiles.                                                            *)
(***************************************************************************)

(* The index of percentile is a position in the list, and one place at     *)
(* most from the nearest rank; that of a higher percentile is not lower.   *)
THEOREM IndexNearRank ==
    ASSUME NEW n \in Nat \ {0}
    PROVE  /\ \A pct \in {50, 95, 99} :
                 /\ Index(n, pct) \in 0 .. n - 1
                 /\ Index(n, pct) + 1 \in NearestRank(n, pct) - 1 .. NearestRank(n, pct) + 1
           /\ Index(n, 50) <= Index(n, 95)
           /\ Index(n, 95) <= Index(n, 99)
<1> DEFINE R(pct) == RoundHalfEven(pct * (n - 1), 100)
<1>1. \A a, b \in Int : Min({a, b}) = IF a <= b THEN a ELSE b
  BY DEF Min
<1>2. \A a, b \in Int : Max({a, b}) = IF a >= b THEN a ELSE b
  BY DEF Max
<1>3. \A pct \in {50, 95, 99} :
         /\ R(pct) \in 0 .. n - 1
         /\ R(pct) + 1 \in NearestRank(n, pct) - 1 .. NearestRank(n, pct) + 1
  BY DEF RoundHalfEven, NearestRank
<1>4. R(50) <= R(95) /\ R(95) <= R(99)
  BY DEF RoundHalfEven
<1> HIDE DEF R
<1>5. \A pct \in {50, 95, 99} : Index(n, pct) = R(pct)
  <2> SUFFICES ASSUME NEW pct \in {50, 95, 99} PROVE Index(n, pct) = R(pct)
    OBVIOUS
  <2>1. R(pct) \in 0 .. n - 1
    BY <1>3
  <2>2. Max({0, R(pct)}) = R(pct)
    BY <1>2, <2>1
  <2>3. Min({n - 1, R(pct)}) = R(pct)
    BY <1>1, <2>1
  <2>4. QED
    BY <2>2, <2>3 DEF Index, R
<1>6. QED
  BY <1>3, <1>4, <1>5

(***************************************************************************)
(* Timestamps.                                                             *)
(***************************************************************************)

(* The timestamps of one request at time t, when its worker is at w, its   *)
(* handler at h, and the total latencies rep have been recorded for it.    *)
Chronological(s, w, h, rep, t) ==
    /\ (w = "absent") <=> (h = "absent")
    /\ w = "absent" => s.completed = Never
    /\ w # "absent" => /\ s.created \in Time /\ s.enqueued \in Time
                       /\ s.created <= s.enqueued /\ s.enqueued <= t
    /\ w \in {"absent", "queued"} => s.started = Never
    /\ w \notin {"absent", "queued"} =>
          s.started \in Time /\ s.enqueued <= s.started /\ s.started <= t
    /\ s.first # Never =>
          /\ w \notin {"absent", "queued"}
          /\ s.started <= s.first /\ s.first <= t
    /\ s.completed # Never =>
          /\ w = "reported"
          /\ s.started <= s.completed /\ s.completed <= t
          /\ s.first # Never => s.first <= s.completed
          /\ rep = {s.completed - s.created}
    /\ rep # {} => w = "reported" \/ h = "gone"

Chronology ==
    \A r \in Requests :
        Chronological(stamp[r], worker[r], handler[r], reported[r], now)

(* What is recorded of such timestamps: latencies that are times, nested.  *)
Nested(s) ==
    /\ Known(s) \subseteq Series /\ "total" \in Known(s)
    /\ \A m \in Known(s) : Latency(s, m) \in Time
    /\ "wait" \in Known(s) => Latency(s, "wait") <= Latency(s, "total")
    /\ "ttft" \in Known(s) => /\ "wait" \in Known(s)
                              /\ Latency(s, "wait") <= Latency(s, "ttft")
                              /\ Latency(s, "ttft") <= Latency(s, "total")

(* When the end of a request is the last of its timestamps, its latencies  *)
(* are nested.                                                             *)
LEMMA LatenciesNested ==
    ASSUME NEW s \in Stamps,
           s.created \in Time, s.enqueued \in Time, s.created <= s.enqueued,
           s.started # Never => s.enqueued <= s.started,
           s.first # Never => s.started # Never /\ s.started <= s.first,
           EndTime(s) \in Time, s.enqueued <= EndTime(s),
           s.started # Never => s.started <= EndTime(s),
           s.first # Never => s.first <= EndTime(s)
    PROVE  Nested(s)
<1>1. /\ Never \notin Time
      /\ \A t \in Time : t \in Int /\ 0 <= t /\ t <= Horizon
      /\ \A t \in Int : 0 <= t /\ t <= Horizon => t \in Time
      /\ Horizon \in Nat
  BY MetricsAssumption DEF Time
<1>2. s.started \in Time \cup {Never} /\ s.first \in Time \cup {Never}
  BY DEF Stamps
<1> DEFINE e == EndTime(s)  c == s.created  q == s.enqueued
           b == s.started   f == s.first
<1>3. /\ "total" \in Known(s) /\ Known(s) \subseteq Series
      /\ "wait" \in Known(s) <=> b # Never
      /\ "ttft" \in Known(s) <=> f # Never
  BY <1>1 DEF Known, Series
<1>4. /\ Latency(s, "wait") = b - q
      /\ Latency(s, "ttft") = f - c
      /\ Latency(s, "total") = e - c
  BY DEF Latency
<1>5. /\ c \in Time /\ q \in Time /\ e \in Time /\ c <= q /\ q <= e
      /\ b # Never => b \in Time /\ q <= b /\ b <= e
      /\ f # Never => f \in Time /\ b # Never /\ b <= f /\ f <= e
  BY <1>2
<1> HIDE DEF e, c, q, b, f
<1>6. e - c \in Time
  BY <1>1, <1>5
<1>7. b # Never => b - q \in Time /\ b - q <= e - c
  BY <1>1, <1>5
<1>8. f # Never => f - c \in Time /\ b - q <= f - c /\ f - c <= e - c
  BY <1>1, <1>5
<1>9. \A m \in Known(s) : m = "wait" \/ m = "ttft" \/ m = "total"
  BY <1>3 DEF Series
<1>10. QED
  BY <1>3, <1>4, <1>5, <1>6, <1>7, <1>8, <1>9 DEF Nested

(* Recording them keeps the types of samples and histograms.               *)
LEMMA RecordingTyped ==
    ASSUME TypeOK, NEW r \in Requests, NEW s \in Stamps, Nested(s), RecordTiming(r, s)
    PROVE  /\ samples' \in [Series -> Seq(Time)]
           /\ hist' \in [Series -> Histograms]
           /\ reported' = [reported EXCEPT ![r] = @ \cup {Latency(s, "total")}]
           /\ reported' \in [Requests -> SUBSET Time]
<1>1. samples \in [Series -> Seq(Time)] /\ hist \in [Series -> Histograms]
  BY DEF TypeOK, Histograms
<1>2. \A m \in Known(s) : Latency(s, m) \in Time /\ Latency(s, m) \in Nat
  BY DEF Nested, Time
<1>3. samples' \in [Series -> Seq(Time)]
  <2>1. \A m \in Known(s) \cap Series : Append(samples[m], Latency(s, m)) \in Seq(Time)
    BY <1>1, <1>2
  <2>2. QED
    BY <1>1, <2>1 DEF RecordTiming
<1>4. hist' \in [Series -> Histograms]
  <2>1. \A m \in Known(s) \cap Series : Observe(hist[m], Latency(s, m)) \in Histograms
    BY <1>1, <1>2, ObserveTyped
  <2>2. QED
    BY <1>1, <2>1, Zenon DEF RecordTiming
<1>5. reported' = [reported EXCEPT ![r] = @ \cup {Latency(s, "total")}]
  BY DEF RecordTiming, Nested
<1>6. reported' \in [Requests -> SUBSET Time]
  BY <1>2, <1>5 DEF TypeOK, Nested
<1>7. QED
  BY <1>3, <1>4, <1>5, <1>6

(***************************************************************************)
(* Steps.                                                                  *)
(***************************************************************************)

IInv == TypeOK /\ Chronology

(* An update of one timestamp yields timestamps.                           *)
LEMMA MarkTyped ==
    ASSUME TypeOK, NEW r \in Requests
    PROVE  /\ stamp[r] \in Stamps
           /\ now \in Time
           /\ [stamp[r] EXCEPT !.created = now, !.enqueued = now] \in Stamps
           /\ [stamp[r] EXCEPT !.started = now] \in Stamps
           /\ [stamp[r] EXCEPT !.first = now] \in Stamps
           /\ [stamp[r] EXCEPT !.completed = now] \in Stamps
           /\ [stamp[r] EXCEPT !.failed = now] \in Stamps
<1>1. stamp[r] \in Stamps /\ now \in Time
  BY DEF TypeOK
<1>2. now \in Time \cup {Never}
  BY <1>1
<1>3. [stamp[r] EXCEPT !.created = now, !.enqueued = now] \in Stamps
  BY <1>1, <1>2 DEF Stamps
<1>4. [stamp[r] EXCEPT !.started = now] \in Stamps
  BY <1>1, <1>2 DEF Stamps
<1>5. [stamp[r] EXCEPT !.first = now] \in Stamps
  BY <1>1, <1>2 DEF Stamps
<1>6. [stamp[r] EXCEPT !.completed = now] \in Stamps
  BY <1>1, <1>2 DEF Stamps
<1>7. [stamp[r] EXCEPT !.failed = now] \in Stamps
  BY <1>1, <1>2 DEF Stamps
<1>8. QED
  BY <1>1, <1>3, <1>4, <1>5, <1>6, <1>7

(* Whoever reports an outcome reports nested latencies.                    *)
LEMMA ReportsAreNested ==
    ASSUME IInv, NEW r \in Requests, Complete(r) \/ Fail(r) \/ GiveUp(r)
    PROVE  /\ stamp' \in [Requests -> Stamps]
           /\ RecordTiming(r, stamp'[r])
           /\ Nested(stamp'[r])
<1> DEFINE s == stamp'[r]
<1>1. /\ stamp[r] \in Stamps /\ now \in Time /\ now # Never /\ Never \notin Time
      /\ stamp \in [Requests -> Stamps]
      /\ \A t \in Time : t \in Int
  <2>1. \A t \in Time : t \in Int
    BY MetricsAssumption DEF Time
  <2>2. Never \notin Time
    BY <2>1, MetricsAssumption
  <2>3. stamp \in [Requests -> Stamps] /\ now \in Time
    BY DEF IInv, TypeOK
  <2>4. QED
    BY <2>1, <2>2, <2>3
<1>2. Chronological(stamp[r], worker[r], handler[r], reported[r], now)
  BY DEF IInv, Chronology
<1>3. worker[r] # "absent"
  BY <1>2 DEF Complete, Fail, GiveUp, Running, Chronological
<1>4. CASE Complete(r)
  <2>1. s = [stamp[r] EXCEPT !.completed = now] /\ stamp' \in [Requests -> Stamps]
    BY <1>1, <1>4, MarkTyped DEF IInv, Complete
  <2>2. /\ s \in Stamps /\ s.completed = now /\ EndTime(s) = now
        /\ s.created = stamp[r].created /\ s.enqueued = stamp[r].enqueued
        /\ s.started = stamp[r].started /\ s.first = stamp[r].first
    BY <1>1, <2>1, MarkTyped DEF IInv, Stamps, EndTime
  <2> HIDE DEF s
  <2>3. Nested(s)
    BY <1>1, <1>2, <1>3, <2>2, LatenciesNested DEF Chronological, Stamps
  <2>4. QED
    BY <1>4, <2>1, <2>3 DEF Complete, s
<1>5. CASE Fail(r) \/ GiveUp(r)
  <2>1. s = [stamp[r] EXCEPT !.failed = now] /\ stamp' \in [Requests -> Stamps]
    BY <1>1, <1>5, MarkTyped DEF IInv, Fail, GiveUp
  <2>2. /\ s \in Stamps /\ s.completed = stamp[r].completed
        /\ EndTime(s) = IF s.completed = Never THEN now ELSE s.completed
        /\ s.created = stamp[r].created /\ s.enqueued = stamp[r].enqueued
        /\ s.started = stamp[r].started /\ s.first = stamp[r].first
    BY <1>1, <2>1, MarkTyped DEF IInv, Stamps, EndTime
  <2> HIDE DEF s
  <2>3. ASSUME s.completed = Never PROVE Nested(s)
    <3>1. EndTime(s) = now
      BY <2>2, <2>3
    <3>2. /\ s.created \in Time /\ s.enqueued \in Time
          /\ s.created <= s.enqueued /\ s.enqueued <= now
      BY <1>2, <1>3, <2>2 DEF Chronological
    <3>3. s.started # Never => s.enqueued <= s.started /\ s.started <= now
      BY <1>2, <2>2 DEF Chronological
    <3>4. s.first # Never => s.started # Never /\ s.started <= s.first /\ s.first <= now
      BY <1>1, <1>2, <2>2 DEF Chronological
    <3>5. QED
      BY <1>1, <2>2, <3>1, <3>2, <3>3, <3>4, LatenciesNested
  <2>4. ASSUME s.completed # Never PROVE Nested(s)
    <3>1. EndTime(s) = s.completed /\ s.completed \in Time
      BY <2>2, <2>4 DEF Stamps
    <3>2. /\ s.enqueued <= s.started /\ s.started <= s.completed
          /\ s.started \in Time /\ s.created \in Time /\ s.enqueued \in Time
          /\ s.created <= s.enqueued
      BY <1>2, <1>3, <2>2, <2>4 DEF Chronological
    <3>3. s.enqueued <= s.completed
      BY <1>1, <3>1, <3>2
    <3>4. s.first # Never => s.started # Never /\ s.started <= s.first /\ s.first <= s.completed
      BY <1>1, <1>2, <2>2, <2>4, <3>2 DEF Chronological
    <3>5. QED
      BY <2>2, <3>1, <3>2, <3>3, <3>4, LatenciesNested
  <2>5. QED
    BY <1>5, <2>1, <2>3, <2>4 DEF Fail, GiveUp, s
<1>6. QED
  BY <1>4, <1>5

(* Every step keeps the types.                                             *)
LEMMA TypeStep == IInv /\ [Next]_vars => TypeOK'
<1> SUFFICES ASSUME IInv, [Next]_vars PROVE TypeOK'
  OBVIOUS
<1>1. TypeOK
  BY DEF IInv
<1>2. CASE UNCHANGED vars
  BY <1>1, <1>2 DEF TypeOK, vars
<1>3. CASE Tick
  BY <1>1, <1>3, MetricsAssumption DEF TypeOK, Tick, Time
<1>4. ASSUME NEW r \in Requests, Enqueue(r) \/ Dispatch(r) \/ FirstToken(r) \/ Answer(r)
      PROVE  TypeOK'
  <2>1. stamp' \in [Requests -> Stamps]
    <3>1. stamp \in [Requests -> Stamps]
      BY <1>1 DEF TypeOK
    <3>2. \/ UNCHANGED stamp
          \/ \E s \in Stamps : stamp' = [stamp EXCEPT ![r] = s]
      <4>1. CASE Enqueue(r)
        <5>1. stamp' = [stamp EXCEPT ![r] = [@ EXCEPT !.created = now, !.enqueued = now]]
          BY <3>1, <4>1 DEF Enqueue
        <5>2. QED
          BY <1>1, <5>1, MarkTyped
      <4>2. CASE Dispatch(r)
        <5>1. stamp' = [stamp EXCEPT ![r] = [@ EXCEPT !.started = now]]
          BY <3>1, <4>2 DEF Dispatch
        <5>2. QED
          BY <1>1, <5>1, MarkTyped
      <4>3. CASE FirstToken(r)
        <5>1. stamp' = [stamp EXCEPT ![r] = [@ EXCEPT !.first = now]]
          BY <3>1, <4>3 DEF FirstToken
        <5>2. QED
          BY <1>1, <5>1, MarkTyped
      <4>4. CASE Answer(r)
        BY <4>4 DEF Answer
      <4>5. QED
        BY <1>4, <4>1, <4>2, <4>3, <4>4
    <3>3. QED
      BY <3>1, <3>2
  <2>2. QED
    BY <1>1, <1>4, <2>1 DEF Enqueue, Dispatch, FirstToken, Answer, TypeOK
<1>5. ASSUME NEW r \in Requests, Complete(r) \/ Fail(r) \/ GiveUp(r)
      PROVE  TypeOK'
  <2>1. stamp' \in [Requests -> Stamps] /\ RecordTiming(r, stamp'[r]) /\ Nested(stamp'[r])
    BY <1>5, ReportsAreNested
  <2>2. /\ samples' \in [Series -> Seq(Time)] /\ hist' \in [Series -> Histograms]
        /\ reported' \in [Requests -> SUBSET Time]
    BY <1>1, <2>1, RecordingTyped
  <2>3. QED
    BY <1>1, <1>5, <2>1, <2>2 DEF Complete, Fail, GiveUp, TypeOK, Histograms
<1>6. QED
  BY <1>2, <1>3, <1>4, <1>5 DEF Next

(* Every step keeps the timestamps in order.                               *)
LEMMA ChronologyStep == IInv /\ [Next]_vars => Chronology'
<1> SUFFICES ASSUME IInv, [Next]_vars, NEW u \in Requests
             PROVE  Chronological(stamp'[u], worker'[u], handler'[u], reported'[u], now')
  BY DEF Chronology
<1> DEFINE Goal == Chronological(stamp'[u], worker'[u], handler'[u], reported'[u], now')
<1>1. /\ TypeOK
      /\ now \in Time /\ Never \notin Time /\ now \in Int /\ Horizon \in Nat
      /\ \A t \in Time : t \in Int
      /\ stamp[u] \in Stamps
  <2>1. \A t \in Time : t \in Int
    BY MetricsAssumption DEF Time
  <2>2. QED
    BY <2>1, MetricsAssumption DEF IInv, TypeOK
<1>2. Chronological(stamp[u], worker[u], handler[u], reported[u], now)
  BY DEF IInv, Chronology
<1>3. CASE UNCHANGED vars
  BY <1>2, <1>3 DEF vars
<1>4. CASE Tick
  <2>1. /\ stamp'[u] = stamp[u] /\ worker'[u] = worker[u] /\ handler'[u] = handler[u]
        /\ reported'[u] = reported[u] /\ now' = now + 1
    BY <1>4 DEF Tick
  <2>2. \A t \in Time : t <= now => t <= now + 1
    BY <1>1
  <2>3. stamp[u].first # Never => stamp[u].first \in Time
    BY <1>1 DEF Stamps
  <2>4. stamp[u].completed # Never => stamp[u].completed \in Time
    BY <1>1 DEF Stamps
  <2>5. QED
    BY <1>2, <2>1, <2>2, <2>3, <2>4 DEF Chronological
<1>5. ASSUME NEW r \in Requests, r # u,
             \/ Enqueue(r) \/ Dispatch(r) \/ FirstToken(r) \/ Complete(r)
             \/ Fail(r) \/ Answer(r) \/ GiveUp(r)
      PROVE  Goal
  <2>1. stamp'[u] = stamp[u] /\ worker'[u] = worker[u] /\ handler'[u] = handler[u] /\ now' = now
    BY <1>1, <1>5 DEF Enqueue, Dispatch, FirstToken, Complete, Fail, Answer, GiveUp, TypeOK
  <2>2. reported'[u] = reported[u]
    BY <1>1, <1>5 DEF Enqueue, Dispatch, FirstToken, Complete, Fail, Answer, GiveUp,
                      RecordTiming, TypeOK
  <2>3. QED
    BY <1>2, <2>1, <2>2
<1>6. CASE Enqueue(u)
  <2>1. /\ stamp'[u] = [stamp[u] EXCEPT !.created = now, !.enqueued = now]
        /\ worker'[u] = "queued" /\ handler'[u] = "waiting"
        /\ reported'[u] = reported[u] /\ now' = now
    BY <1>1, <1>6 DEF Enqueue, TypeOK
  <2>2. /\ stamp'[u].created = now /\ stamp'[u].enqueued = now
        /\ stamp'[u].started = stamp[u].started /\ stamp'[u].first = stamp[u].first
        /\ stamp'[u].completed = stamp[u].completed
    BY <1>1, <2>1 DEF Stamps
  <2>3. handler[u] = "absent"
    BY <1>6 DEF Enqueue
  <2>4. QED
    BY <1>1, <1>2, <2>1, <2>2, <2>3 DEF Chronological
<1>7. CASE Dispatch(u)
  <2>1. /\ stamp'[u] = [stamp[u] EXCEPT !.started = now]
        /\ worker'[u] \in {"running", "dropped"} /\ handler'[u] = handler[u]
        /\ reported'[u] = reported[u] /\ now' = now /\ worker[u] = "queued"
    BY <1>1, <1>7 DEF Dispatch, TypeOK
  <2>2. /\ stamp'[u].created = stamp[u].created /\ stamp'[u].enqueued = stamp[u].enqueued
        /\ stamp'[u].started = now /\ stamp'[u].first = stamp[u].first
        /\ stamp'[u].completed = stamp[u].completed
    BY <1>1, <2>1 DEF Stamps
  <2>3. QED
    BY <1>1, <1>2, <2>1, <2>2 DEF Chronological
<1>8. CASE FirstToken(u)
  <2>1. /\ stamp'[u] = [stamp[u] EXCEPT !.first = now]
        /\ worker'[u] = worker[u] /\ handler'[u] = handler[u] /\ worker[u] = "running"
        /\ reported'[u] = reported[u] /\ now' = now
    BY <1>1, <1>8 DEF FirstToken, Running, TypeOK
  <2>2. /\ stamp'[u].created = stamp[u].created /\ stamp'[u].enqueued = stamp[u].enqueued
        /\ stamp'[u].started = stamp[u].started /\ stamp'[u].first = now
        /\ stamp'[u].completed = stamp[u].completed
    BY <1>1, <2>1 DEF Stamps
  <2>3. QED
    BY <1>1, <1>2, <2>1, <2>2 DEF Chronological
<1>9. CASE Answer(u)
  <2>1. /\ stamp'[u] = stamp[u] /\ worker'[u] = worker[u] /\ worker[u] = "reported"
        /\ handler'[u] = "answered" /\ reported'[u] = reported[u] /\ now' = now
    BY <1>1, <1>9 DEF Answer, TypeOK
  <2>2. QED
    BY <1>2, <2>1 DEF Chronological
<1>10. ASSUME Complete(u) \/ Fail(u) \/ GiveUp(u)
       PROVE  /\ reported'[u] = reported[u] \cup {Latency(stamp'[u], "total")}
              /\ now' = now
              /\ Latency(stamp'[u], "total") = EndTime(stamp'[u]) - stamp'[u].created
  <2>1. /\ stamp' \in [Requests -> Stamps] /\ RecordTiming(u, stamp'[u]) /\ Nested(stamp'[u])
    BY <1>10, ReportsAreNested
  <2>2. reported' = [reported EXCEPT ![u] = @ \cup {Latency(stamp'[u], "total")}]
    BY <1>1, <2>1, RecordingTyped
  <2>3. QED
    BY <1>1, <1>10, <2>2 DEF Complete, Fail, GiveUp, TypeOK, Latency
<1>11. CASE Complete(u)
  <2>1. /\ stamp'[u] = [stamp[u] EXCEPT !.completed = now]
        /\ worker'[u] = "reported" /\ handler'[u] = handler[u]
        /\ worker[u] = "running" /\ handler[u] # "gone"
    BY <1>1, <1>11 DEF Complete, Running, TypeOK
  <2>2. /\ stamp'[u].created = stamp[u].created /\ stamp'[u].enqueued = stamp[u].enqueued
        /\ stamp'[u].started = stamp[u].started /\ stamp'[u].first = stamp[u].first
        /\ stamp'[u].completed = now
    BY <1>1, <2>1 DEF Stamps
  <2>3. EndTime(stamp'[u]) = now
    BY <1>1, <2>2 DEF EndTime
  <2>4. reported'[u] = {now - stamp'[u].created}
    BY <1>2, <1>10, <1>11, <2>1, <2>3 DEF Chronological
  <2>5. now' = now
    BY <1>10, <1>11
  <2>6. QED
    BY <1>1, <1>2, <2>1, <2>2, <2>4, <2>5 DEF Chronological
<1>12. CASE Fail(u)
  <2>1. /\ stamp'[u] = [stamp[u] EXCEPT !.failed = now]
        /\ worker'[u] = "reported" /\ handler'[u] = handler[u] /\ worker[u] = "running"
    BY <1>1, <1>12 DEF Fail, Running, TypeOK
  <2>2. /\ stamp'[u].created = stamp[u].created /\ stamp'[u].enqueued = stamp[u].enqueued
        /\ stamp'[u].started = stamp[u].started /\ stamp'[u].first = stamp[u].first
        /\ stamp'[u].completed = stamp[u].completed
    BY <1>1, <2>1 DEF Stamps
  <2>3. now' = now
    BY <1>10, <1>12
  <2>4. QED
    BY <1>1, <1>2, <2>1, <2>2, <2>3 DEF Chronological
<1>13. CASE GiveUp(u)
  <2>1. /\ stamp'[u] = [stamp[u] EXCEPT !.failed = now]
        /\ worker'[u] = worker[u] /\ handler'[u] = "gone" /\ handler[u] = "waiting"
    BY <1>1, <1>13 DEF GiveUp, TypeOK
  <2>2. /\ stamp'[u].created = stamp[u].created /\ stamp'[u].enqueued = stamp[u].enqueued
        /\ stamp'[u].started = stamp[u].started /\ stamp'[u].first = stamp[u].first
        /\ stamp'[u].completed = stamp[u].completed
    BY <1>1, <2>1 DEF Stamps
  <2>3. stamp'[u].completed # Never =>
            reported'[u] = {stamp'[u].completed - stamp'[u].created}
    BY <1>2, <1>10, <1>13, <2>2 DEF Chronological, EndTime
  <2>4. now' = now
    BY <1>10, <1>13
  <2>5. QED
    BY <1>1, <1>2, <2>1, <2>2, <2>3, <2>4 DEF Chronological
<1>14. QED
  BY <1>3, <1>4, <1>5, <1>6, <1>7, <1>8, <1>9, <1>11, <1>12, <1>13 DEF Next

(* At the start nothing is recorded.                                       *)
LEMMA InitInvariant == Init => IInv
<1> SUFFICES ASSUME Init PROVE IInv
  OBVIOUS
<1>1. 0 \in Time /\ Len(Boundaries) \in Nat
  BY MetricsAssumption DEF Time
<1>2. NewHistogram \in Histograms
  BY <1>1 DEF NewHistogram, Histograms, LastBucket
<1>3. TypeOK
  <2>1. stamp \in [Requests -> Stamps]
    BY DEF Init, Stamps
  <2>2. hist \in [Series -> Histograms]
    BY <1>2, Zenon DEF Init
  <2>3. samples \in [Series -> Seq(Time)]
    BY DEF Init
  <2>4. QED
    BY <1>1, <2>1, <2>2, <2>3 DEF Init, TypeOK, Histograms
<1>4. Chronology
  BY DEF Init, Chronology, Chronological
<1>5. QED
  BY <1>3, <1>4 DEF IInv

(* Every behaviour keeps the inductive invariant.                          *)
LEMMA Invariance == Spec => []IInv
<1>1. IInv /\ [Next]_vars => IInv'
  BY TypeStep, ChronologyStep DEF IInv
<1>2. QED
  BY InitInvariant, <1>1, PTL DEF Spec

(* The collector's lists hold times, its histograms counts, the last       *)
(* bucket included.                                                        *)
THEOREM LatencyTyped == Spec => []TypeOK
<1>1. IInv => TypeOK
  BY DEF IInv
<1>2. QED
  BY Invariance, <1>1, PTL

(* A completed request has one latency, however often its outcome is       *)
(* reported.                                                               *)
THEOREM CompletedHasOneLatency == Spec => []OneLatency
<1>1. IInv => OneLatency
  BY DEF IInv, Chronology, Chronological, OneLatency
<1>2. QED
  BY Invariance, <1>1, PTL

(* Who reports an outcome records a total latency that none of the others  *)
(* of that request exceeds.                                                *)
THEOREM LatenciesAreNested == Spec => TimingsNested
<1> DEFINE Added(m) == Len(samples'[m]) > Len(samples[m])
           New(m) == samples'[m][Len(samples'[m])]
           Good == /\ Added("total")
                   /\ Added("wait") => New("wait") <= New("total")
                   /\ Added("ttft") => /\ Added("wait")
                                       /\ New("wait") <= New("ttft")
                                       /\ New("ttft") <= New("total")
<1>1. IInv /\ [Next]_vars => [Good]_samples
  <2> SUFFICES ASSUME IInv, [Next]_vars, samples' # samples PROVE Good
    OBVIOUS
  <2>1. PICK r \in Requests : Complete(r) \/ Fail(r) \/ GiveUp(r)
    BY DEF Next, vars, Tick, Enqueue, Dispatch, FirstToken, Answer
  <2>2. RecordTiming(r, stamp'[r]) /\ Nested(stamp'[r])
    BY <2>1, ReportsAreNested
  <2> DEFINE s == stamp'[r]
  <2>3. samples \in [Series -> Seq(Time)]
    BY DEF IInv, TypeOK
  <2>4. ASSUME NEW m \in Known(s)
        PROVE  Added(m) /\ New(m) = Latency(s, m)
    <3>1. m \in Series /\ samples[m] \in Seq(Time) /\ Latency(s, m) \in Time
      BY <2>2, <2>3 DEF Nested
    <3>2. samples'[m] = Append(samples[m], Latency(s, m))
      BY <2>2, <3>1, <2>4 DEF RecordTiming
    <3>3. QED
      BY <3>1, <3>2
  <2>5. ASSUME NEW m \in Series, m \notin Known(s)
        PROVE  ~Added(m)
    <3>1. samples'[m] = samples[m] /\ Len(samples[m]) \in Nat
      BY <2>2, <2>3, <2>5 DEF RecordTiming
    <3>2. QED
      BY <3>1
  <2>6. "total" \in Series /\ "wait" \in Series /\ "ttft" \in Series
    BY DEF Series
  <2> HIDE DEF s, Added, New
  <2>7. QED
    BY <2>2, <2>4, <2>5, <2>6 DEF Nested, s
<1>2. QED
  BY Invariance, <1>1, PTL DEF Spec, TimingsNested

(***************************************************************************)
(* Histograms.                                                             *)
(***************************************************************************)

(* The positions of the values in bucket k.                                *)
InBucket(values, k) == {i \in DOMAIN values : Bucket(values[i]) = k}

(* A value more is one more in its bucket, and in no other.                *)
LEMMA OneMoreInBucket ==
    ASSUME NEW values \in Seq(Time), NEW v \in Time, NEW k
    PROVE  /\ Cardinality(InBucket(values, k)) \in Nat
           /\ Cardinality(InBucket(Append(values, v), k))
                = Cardinality(InBucket(values, k)) + (IF Bucket(v) = k THEN 1 ELSE 0)
<1> DEFINE n == Len(values)
           more == Append(values, v)
<1>1. n \in Nat /\ DOMAIN values = 1 .. n
  OBVIOUS
<1>2. /\ DOMAIN more = 1 .. n + 1 /\ more[n + 1] = v
      /\ \A i \in 1 .. n : more[i] = values[i]
  OBVIOUS
<1>3. IsFiniteSet(InBucket(values, k)) /\ n + 1 \notin InBucket(values, k)
  <2>1. IsFiniteSet(1 .. n)
    BY <1>1, FS_Interval
  <2>2. InBucket(values, k) \subseteq 1 .. n
    BY <1>1 DEF InBucket
  <2>3. n + 1 \notin 1 .. n
    BY <1>1
  <2>4. QED
    BY <2>1, <2>2, <2>3, FS_Subset
<1> HIDE DEF n, more
<1>4. \A i : i \in 1 .. n + 1 <=> i \in 1 .. n \/ i = n + 1
  BY <1>1
<1>5. InBucket(more, k) =
        IF Bucket(v) = k THEN InBucket(values, k) \cup {n + 1} ELSE InBucket(values, k)
  BY <1>1, <1>2, <1>4 DEF InBucket
<1>6. Cardinality(InBucket(values, k)) \in Nat
  BY <1>3, FS_CardinalityType
<1>7. Cardinality(InBucket(values, k) \cup {n + 1}) = Cardinality(InBucket(values, k)) + 1
  BY <1>3, FS_AddElement
<1>8. QED
  BY <1>5, <1>6, <1>7 DEF more

(* Histograms and lists never drift apart, and every sample is in exactly  *)
(* one bucket: for any bounds of the buckets, and latencies beyond them.   *)
THEOREM HistogramsAgree == Spec => []BucketsAgree
<1>1. Init => BucketsAgree
  <2> SUFFICES ASSUME Init, NEW m \in Series
               PROVE  /\ \A k \in 1 .. LastBucket :
                           hist[m].counts[k] = Cardinality(InBucket(samples[m], k))
                      /\ hist[m].total = Len(samples[m])
    BY DEF BucketsAgree, InBucket
  <2>1. samples[m] = <<>> /\ hist[m] = NewHistogram
    BY DEF Init
  <2>2. \A k : InBucket(samples[m], k) = {}
    BY <2>1 DEF InBucket
  <2>3. QED
    BY <2>1, <2>2, FS_EmptySet DEF NewHistogram
<1>2. IInv /\ BucketsAgree /\ [Next]_vars => BucketsAgree'
  <2> SUFFICES ASSUME IInv, BucketsAgree, [Next]_vars, NEW m \in Series
               PROVE  /\ \A k \in 1 .. LastBucket :
                           hist'[m].counts[k] = Cardinality(InBucket(samples'[m], k))
                      /\ hist'[m].total = Len(samples'[m])
    BY DEF BucketsAgree, InBucket
  <2>1. /\ \A k \in 1 .. LastBucket :
             hist[m].counts[k] = Cardinality(InBucket(samples[m], k))
        /\ hist[m].total = Len(samples[m])
    BY DEF BucketsAgree, InBucket
  <2>2. CASE UNCHANGED <<hist[m], samples[m]>>
    BY <2>1, <2>2
  <2>3. ASSUME NEW r \in Requests, Complete(r) \/ Fail(r) \/ GiveUp(r)
        PROVE  /\ \A k \in 1 .. LastBucket :
                    hist'[m].counts[k] = Cardinality(InBucket(samples'[m], k))
               /\ hist'[m].total = Len(samples'[m])
    <3> DEFINE s == stamp'[r]
    <3>1. RecordTiming(r, s) /\ Nested(s)
      BY <2>3, ReportsAreNested
    <3> HIDE DEF s
    <3>2. CASE m \notin Known(s)
      BY <2>2, <3>1, <3>2 DEF RecordTiming
    <3>3. CASE m \in Known(s)
      <4> DEFINE v == Latency(s, m)
      <4>1. v \in Time /\ v \in Nat
        BY <3>1, <3>3 DEF Nested, Time
      <4>2. samples'[m] = Append(samples[m], v) /\ hist'[m] = Observe(hist[m], v)
        BY <3>1, <3>3 DEF RecordTiming
      <4> HIDE DEF v
      <4>3. /\ samples[m] \in Seq(Time) /\ hist[m].total \in Nat
            /\ hist[m].counts \in [1 .. LastBucket -> Nat]
        BY DEF IInv, TypeOK
      <4>4. /\ hist'[m].counts = [hist[m].counts EXCEPT ![Bucket(v)] = @ + 1]
            /\ hist'[m].total = hist[m].total + 1
        BY <4>2 DEF Observe
      <4>5. \A k \in 1 .. LastBucket :
              hist'[m].counts[k] = hist[m].counts[k] + (IF Bucket(v) = k THEN 1 ELSE 0)
        <5> SUFFICES ASSUME NEW k \in 1 .. LastBucket
                     PROVE  hist'[m].counts[k] = hist[m].counts[k] + (IF Bucket(v) = k THEN 1 ELSE 0)
          OBVIOUS
        <5>1. hist[m].counts[k] \in Nat
          BY <4>3
        <5>2. hist'[m].counts[k] = IF k = Bucket(v) THEN hist[m].counts[k] + 1 ELSE hist[m].counts[k]
          BY <4>3, <4>4
        <5>3. QED
          BY <5>1, <5>2
      <4>6. \A k \in 1 .. LastBucket :
              Cardinality(InBucket(samples'[m], k)) =
                Cardinality(InBucket(samples[m], k)) + (IF Bucket(v) = k THEN 1 ELSE 0)
        BY <4>1, <4>2, <4>3, OneMoreInBucket
      <4>7. Len(samples'[m]) = Len(samples[m]) + 1
        BY <4>1, <4>2, <4>3
      <4>8. QED
        BY <2>1, <4>4, <4>5, <4>6, <4>7
    <3>4. QED
      BY <3>2, <3>3
  <2>4. QED
    BY <2>2, <2>3 DEF Next, vars, Tick, Enqueue, Dispatch, FirstToken, Answer
<1>3. QED
  BY Invariance, <1>1, <1>2, PTL DEF Spec

(* The exported buckets: an observation is counted in every bucket whose   *)
(* bound it does not exceed, from its own on.                              *)
LEMMA BucketUpTo ==
    ASSUME NEW v \in Nat, NEW k \in 1 .. Len(Boundaries)
    PROVE  Bucket(v) \in 1 .. k <=> v <= Boundaries[k]
<1> DEFINE S == {i \in 1 .. Len(Boundaries) : v <= Boundaries[i]} \cup {LastBucket}
           b == Bucket(v)
<1>1. Len(Boundaries) \in Nat /\ k \in Nat /\ k <= Len(Boundaries) /\ 1 <= k
      /\ LastBucket = Len(Boundaries) + 1
  BY MetricsAssumption DEF LastBucket
<1>2. b \in S /\ \A i \in S : b <= i
  <2>1. S \in SUBSET Nat /\ S # {}
    BY <1>1
  <2>2. b = Min(S)
    BY DEF Bucket
  <2> HIDE DEF S, b
  <2>3. QED
    BY <2>1, <2>2, MinIsLeast
<1>3. b \in 1 .. LastBucket
  BY BucketExists
<1>4. \A i, j \in 1 .. Len(Boundaries) :
         i <= j => /\ Boundaries[i] \in Nat /\ Boundaries[j] \in Nat
                   /\ Boundaries[i] <= Boundaries[j]
  <2>1. \A i \in 1 .. Len(Boundaries) : Boundaries[i] \in Nat
    BY MetricsAssumption
  <2>2. SUFFICES ASSUME NEW i \in 1 .. Len(Boundaries), NEW j \in 1 .. Len(Boundaries), i <= j
                 PROVE  Boundaries[i] <= Boundaries[j]
    BY <2>1
  <2>3. Boundaries[i] \in Nat /\ Boundaries[j] \in Nat
    BY <2>1
  <2>4. CASE i = j
    BY <2>3, <2>4
  <2>5. CASE i < j
    BY <2>3, <2>5, MetricsAssumption
  <2>6. QED
    BY <2>2, <2>4, <2>5
<1> HIDE DEF b
<1>5. ASSUME v <= Boundaries[k] PROVE b \in 1 .. k
  <2>1. b <= k
    BY <1>2, <1>5
  <2>2. QED
    BY <1>1, <1>3, <2>1
<1>6. ASSUME b \in 1 .. k PROVE v <= Boundaries[k]
  <2>1. b \in 1 .. Len(Boundaries) /\ b <= k /\ b # LastBucket
    BY <1>1, <1>6
  <2>2. v <= Boundaries[b]
    BY <1>2, <2>1
  <2>3. Boundaries[b] <= Boundaries[k] /\ Boundaries[b] \in Nat /\ Boundaries[k] \in Nat
    BY <1>4, <2>1
  <2>4. QED
    BY <2>2, <2>3
<1>7. QED
  BY <1>5, <1>6 DEF b

(* The latencies within bound k.                                           *)
Within(k) == {x \in Time : x <= Boundaries[k]}

(* Observe adds one to the cumulative count of each bound not exceeded.    *)
LEMMA CumulativeObserve ==
    ASSUME NEW h \in Histograms, NEW v \in Time, NEW k \in 1 .. Len(Boundaries)
    PROVE  Cumulative(Observe(h, v), k)
             = Cumulative(h, k) + (IF v \in Within(k) THEN 1 ELSE 0)
<1> DEFINE f == h.counts
           g == Observe(h, v).counts
           K == 1 .. k
<1>1. v \in Nat /\ k \in Nat /\ K \subseteq 1 .. LastBucket /\ IsFiniteSet(K)
  <2>1. Len(Boundaries) \in Nat /\ Horizon \in Nat
    BY MetricsAssumption
  <2>2. QED
    BY <2>1, FS_Interval DEF Time, LastBucket
<1>2. f \in [1 .. LastBucket -> Nat] /\ g = [f EXCEPT ![Bucket(v)] = f[Bucket(v)] + 1]
  BY DEF Histograms, Observe
<1>3. \A i \in K : f[i] \in Nat
  BY <1>1, <1>2
<1>4. Bucket(v) \in K <=> v \in Within(k)
  BY <1>1, BucketUpTo DEF Within
<1>5. Cumulative(h, k) = SumFunctionOnSet(f, K)
      /\ Cumulative(Observe(h, v), k) = SumFunctionOnSet(g, K)
  BY DEF Cumulative
<1> HIDE DEF f, g, K
<1>6. SumFunctionOnSet(f, K) \in Nat
  BY <1>1, <1>3, SumType
<1>7. CASE Bucket(v) \in K
  <2>1. \A i \in K \ {Bucket(v)} : g[i] = f[i]
    BY <1>1, <1>2
  <2>2. g[Bucket(v)] = f[Bucket(v)] + 1
    BY <1>1, <1>2, <1>7
  <2>3. f[Bucket(v)] \in Nat /\ g[Bucket(v)] \in Nat
    BY <1>3, <1>7, <2>2
  <2>4. /\ SumFunctionOnSet(f, K) \in Nat /\ SumFunctionOnSet(g, K) \in Nat
        /\ SumFunctionOnSet(g, K) + f[Bucket(v)] = SumFunctionOnSet(f, K) + g[Bucket(v)]
    <3>1. IsFiniteSet(K)
      BY <1>1
    <3>2. \A F, G : \A y \in K :
            (\A i \in K : F[i] \in Nat) /\ (\A i \in K \ {y} : G[i] = F[i]) /\ G[y] \in Nat
              => /\ SumFunctionOnSet(F, K) \in Nat /\ SumFunctionOnSet(G, K) \in Nat
                 /\ SumFunctionOnSet(G, K) + F[y] = SumFunctionOnSet(F, K) + G[y]
      BY <3>1, SumChange
    <3>3. QED
      BY <1>3, <1>7, <2>1, <2>3, <3>2
  <2>5. SumFunctionOnSet(g, K) = SumFunctionOnSet(f, K) + 1
    BY <2>2, <2>3, <2>4
  <2>6. QED
    BY <1>4, <1>5, <1>7, <2>5
<1>8. CASE Bucket(v) \notin K
  <2>1. \A i \in K : f[i] \in Nat /\ g[i] = f[i]
    BY <1>1, <1>2, <1>3, <1>8
  <2>2. SumFunctionOnSet(g, K) = SumFunctionOnSet(f, K)
    BY <1>1, <2>1, SumSame
  <2>3. QED
    BY <1>4, <1>5, <1>6, <1>8, <2>2
<1>9. QED
  BY <1>7, <1>8

Exported(m) ==
    /\ \A k \in 1 .. Len(Boundaries) :
          Cumulative(hist[m], k) = Cardinality(Among(samples[m], Within(k)))
    /\ hist[m].sum = SumFunction(samples[m])

(* A latency recorded keeps the export and the list together.              *)
LEMMA ExportKept ==
    ASSUME TypeOK, NEW m \in Series, Exported(m), NEW v \in Time,
           samples'[m] = Append(samples[m], v), hist'[m] = Observe(hist[m], v)
    PROVE  Exported(m)'
<1>1. samples[m] \in Seq(Time) /\ hist[m] \in Histograms
  BY DEF TypeOK, Histograms
<1>2. ASSUME NEW k \in 1 .. Len(Boundaries)
      PROVE  Cumulative(hist'[m], k) = Cardinality(Among(samples'[m], Within(k)))
  <2>1. Cumulative(hist'[m], k) = Cumulative(hist[m], k) + (IF v \in Within(k) THEN 1 ELSE 0)
    BY <1>1, CumulativeObserve
  <2>2. Cardinality(Among(samples'[m], Within(k)))
          = Cardinality(Among(samples[m], Within(k))) + (IF v \in Within(k) THEN 1 ELSE 0)
    BY <1>1, OneMoreAmong
  <2>3. QED
    BY <2>1, <2>2 DEF Exported
<1>3. hist'[m].sum = SumFunction(samples'[m])
  <2>1. Time \subseteq Nat
    BY MetricsAssumption DEF Time
  <2>2. samples[m] \in Seq(Nat) /\ v \in Nat
    BY <1>1, <2>1
  <2>3. SumFunction(samples'[m]) = SumFunction(samples[m]) + v
    BY <2>2, SumOfSeq
  <2>4. hist'[m].sum = hist[m].sum + v
    BY DEF Observe
  <2>5. QED
    BY <2>3, <2>4 DEF Exported
<1>4. QED
  BY <1>2, <1>3 DEF Exported

(* What Prometheus is told of the latencies, each cumulative bucket, the   *)
(* count and the sum, is what the recorded latencies give: for any bounds. *)
THEOREM ExportsAgree == Spec => []ExportIsCumulative
<1>1. Init => \A m \in Series : Exported(m)
  <2> SUFFICES ASSUME Init, NEW m \in Series PROVE Exported(m)
    OBVIOUS
  <2>1. samples[m] = <<>> /\ hist[m] = NewHistogram
    BY DEF Init
  <2>2. SumFunction(<<>>) = 0
    <3>1. SumFunction(<<>>) = SumFunctionOnSet(<<>>, DOMAIN <<>>)
      BY Zenon DEF SumFunction, SumFunctionOnSet, FoldFunction
    <3>2. DOMAIN <<>> = {}
      OBVIOUS
    <3>3. QED
      BY <3>1, <3>2, SumEmpty
  <2>3. ASSUME NEW k \in 1 .. Len(Boundaries)
        PROVE  Cumulative(hist[m], k) = Cardinality(Among(samples[m], Within(k)))
    <3>1. Among(samples[m], Within(k)) = {}
      BY <2>1 DEF Among
    <3>2. \A i \in 1 .. k : hist[m].counts[i] = 0
      <4>1. 1 .. k \subseteq 1 .. LastBucket
        BY MetricsAssumption DEF LastBucket
      <4>2. QED
        BY <2>1, <4>1 DEF NewHistogram
    <3>3. IsFiniteSet(1 .. k)
      BY FS_Interval
    <3>4. Cumulative(hist[m], k) = 0
      BY <3>2, <3>3, SumZero DEF Cumulative
    <3>5. QED
      BY <3>1, <3>4, FS_EmptySet
  <2>4. NewHistogram.sum = 0
    BY DEF NewHistogram
  <2>5. QED
    BY <2>1, <2>2, <2>3, <2>4 DEF Exported
<1>2. IInv /\ (\A m \in Series : Exported(m)) /\ [Next]_vars => (\A m \in Series : Exported(m))'
  <2> SUFFICES ASSUME IInv, \A m \in Series : Exported(m), [Next]_vars, NEW m \in Series
               PROVE  Exported(m)'
    OBVIOUS
  <2>1. CASE UNCHANGED <<hist[m], samples[m]>>
    BY <2>1 DEF Exported
  <2>2. ASSUME NEW r \in Requests, Complete(r) \/ Fail(r) \/ GiveUp(r)
        PROVE  Exported(m)'
    <3> DEFINE s == stamp'[r]
    <3>1. RecordTiming(r, s) /\ Nested(s)
      BY <2>2, ReportsAreNested
    <3> HIDE DEF s
    <3>2. CASE m \notin Known(s)
      BY <2>1, <3>1, <3>2 DEF RecordTiming
    <3>3. CASE m \in Known(s)
      <4>1. /\ Latency(s, m) \in Time
            /\ samples'[m] = Append(samples[m], Latency(s, m))
            /\ hist'[m] = Observe(hist[m], Latency(s, m))
        BY <3>1, <3>3 DEF Nested, RecordTiming
      <4>2. QED
        BY <4>1, ExportKept DEF IInv
    <3>4. QED
      BY <3>2, <3>3
  <2>3. QED
    BY <2>1, <2>2 DEF Next, vars, Tick, Enqueue, Dispatch, FirstToken, Answer
<1>3. TypeOK /\ BucketsAgree /\ (\A m \in Series : Exported(m)) => ExportIsCumulative
  <2> SUFFICES ASSUME TypeOK, BucketsAgree, \A m \in Series : Exported(m), NEW m \in Series,
                      NEW k \in 1 .. Len(Boundaries)
               PROVE  Cumulative(hist[m], k)
                        = Cardinality({i \in DOMAIN samples[m] : samples[m][i] <= Boundaries[k]})
    BY DEF ExportIsCumulative, Exported
  <2>1. \A i \in DOMAIN samples[m] : samples[m][i] \in Time
    BY DEF TypeOK
  <2>2. Among(samples[m], Within(k)) = {i \in DOMAIN samples[m] : samples[m][i] <= Boundaries[k]}
    BY <2>1 DEF Among, Within
  <2>3. QED
    BY <2>2 DEF Exported
<1>4. QED
  BY <1>1, <1>2, <1>3, Invariance, LatencyTyped, HistogramsAgree, PTL DEF Spec

(***************************************************************************)
(* The sorted list.                                                        *)
(***************************************************************************)
Ascending(s) == \A i, j \in DOMAIN s : i <= j => s[i] <= s[j]

(* The values up to one of them come first.                                *)
LEMMA AscendingPrefix ==
    ASSUME NEW s \in Seq(Nat), Ascending(s), NEW v \in Nat, NEW A,
           A = {i \in DOMAIN s : s[i] <= v} \/ A = {i \in DOMAIN s : s[i] < v}
    PROVE  Cardinality(A) \in 0 .. Len(s) /\ A = 1 .. Cardinality(A)
<1>1. Len(s) \in Nat /\ DOMAIN s = 1 .. Len(s)
  OBVIOUS
<1>2. \A i \in DOMAIN s : s[i] \in Nat
  OBVIOUS
<1>3. A \in SUBSET (1 .. Len(s))
  BY <1>1
<1>4. \A i \in A, j \in 1 .. Len(s) : j <= i => j \in A
  BY <1>1, <1>2 DEF Ascending
<1>5. QED
  BY <1>1, <1>3, <1>4, InitialSegment

(* Inserting keeps a list in order, and adds the one value to it.          *)
LEMMA InsertKeepsOrder ==
    ASSUME NEW s \in Seq(Nat), Ascending(s), NEW v \in Nat
    PROVE  /\ Insert(s, v) \in Seq(Nat) /\ Len(Insert(s, v)) = Len(s) + 1
           /\ Ascending(Insert(s, v))
           /\ \A W : Cardinality(Among(Insert(s, v), W))
                        = Cardinality(Among(s, W)) + (IF v \in W THEN 1 ELSE 0)
<1> DEFINE n == Len(s)
           A == {i \in DOMAIN s : s[i] <= v}
           k == Cardinality(A) + 1
           t == Insert(s, v)
<1>1. n \in Nat /\ DOMAIN s = 1 .. n /\ \A i \in 1 .. n : s[i] \in Nat
  OBVIOUS
<1>2. Cardinality(A) \in 0 .. n /\ A = 1 .. Cardinality(A)
  BY AscendingPrefix
<1>3. t = InsertAt(s, k, v)
  BY DEF Insert
<1>4. \A i \in 1 .. n : s[i] <= v <=> i < k
  <2>1. \A i \in 1 .. n : s[i] <= v <=> i \in A
    BY <1>1
  <2> HIDE DEF A
  <2>2. QED
    BY <1>2, <2>1
<1>5. k \in 1 .. n + 1
  <2> HIDE DEF A
  <2> QED
    BY <1>1, <1>2
<1> HIDE DEF k, A, t
<1>6. /\ t \in Seq(Nat) /\ Len(t) = n + 1
      /\ \A i \in 1 .. n + 1 : t[i] = IF i < k THEN s[i] ELSE IF i = k THEN v ELSE s[i - 1]
      /\ \A W : Cardinality(Among(t, W)) = Cardinality(Among(s, W)) + (IF v \in W THEN 1 ELSE 0)
  <2>1. \A p \in 1 .. Len(s) + 1 :
           LET u == InsertAt(s, p, v)
           IN  /\ u \in Seq(Nat) /\ Len(u) = Len(s) + 1
               /\ \A i \in 1 .. Len(s) + 1 :
                     u[i] = IF i < p THEN s[i] ELSE IF i = p THEN v ELSE s[i - 1]
               /\ \A W : Cardinality(Among(u, W))
                            = Cardinality(Among(s, W)) + (IF v \in W THEN 1 ELSE 0)
    BY InsertAtProperties
  <2>2. QED
    BY <1>3, <1>5, <2>1, Zenon
<1>7. ASSUME NEW i \in 1 .. n + 1, NEW j \in 1 .. n + 1, i <= j
      PROVE  t[i] <= t[j]
  <2> DEFINE P(x) == IF x < k THEN x ELSE x - 1
  <2>1. \A x \in 1 .. n + 1 : x # k => P(x) \in 1 .. n /\ t[x] = s[P(x)] /\ (P(x) < k <=> x < k)
    BY <1>1, <1>5, <1>6
  <2>2. t[k] = v
    BY <1>5, <1>6
  <2>3. CASE i = k /\ j = k
    BY <2>2, <2>3
  <2>4. CASE i # k /\ j = k
    <3>1. i < k
      BY <1>5, <1>7, <2>4
    <3>2. QED
      BY <1>4, <2>1, <2>2, <2>4, <3>1
  <2>5. CASE i = k /\ j # k
    <3>1. ~(j < k)
      BY <1>5, <1>7, <2>5
    <3>2. ~(s[P(j)] <= v) /\ s[P(j)] \in Nat /\ t[j] = s[P(j)]
      BY <1>1, <1>4, <2>1, <2>5, <3>1
    <3> HIDE DEF P
    <3>3. QED
      BY <2>2, <2>5, <3>2
  <2>6. CASE i # k /\ j # k
    <3>1. P(i) <= P(j)
      BY <1>5, <1>7, <2>6
    <3> HIDE DEF P
    <3>2. QED
      BY <1>1, <2>1, <2>6, <3>1 DEF Ascending
  <2>7. QED
    BY <2>3, <2>4, <2>5, <2>6
<1>8. Ascending(t)
  <2>1. DOMAIN t = 1 .. n + 1
    BY <1>1, <1>6
  <2>2. QED
    BY <1>7, <2>1 DEF Ascending
<1>9. QED
  BY <1>6, <1>8 DEF t

(* Sorted inserts the values one after the other.                          *)
SortEquation(g, values, S) ==
    g = [s \in SUBSET S |-> IF s = {} THEN <<>> ELSE Insert(g[s \ {Max(s)}], values[Max(s)])]

(* The sorted list is the value of the table at all positions.             *)
LEMMA SortedIsTable ==
    ASSUME NEW values
    PROVE  Sorted(values)
             = (CHOOSE g : SortEquation(g, values, DOMAIN values))[DOMAIN values]
BY Zenon DEF Sorted, FoldLeft, MapThenFoldSet, SortEquation

(* A value inserted into a list of naturals, sorted or not.                *)
LEMMA InsertTyped ==
    ASSUME NEW s \in Seq(Nat), NEW v \in Nat
    PROVE  Insert(s, v) \in Seq(Nat)
<1> DEFINE A == {i \in DOMAIN s : s[i] <= v}
           n == Len(s)
<1>1. n \in Nat /\ A \subseteq 1 .. n
  OBVIOUS
<1>2. Insert(s, v) = InsertAt(s, Cardinality(A) + 1, v)
  BY DEF Insert
<1>3. \A p \in 1 .. n + 1 : InsertAt(s, p, v) \in Seq(Nat)
  BY InsertAtProperties
<1> HIDE DEF A, n
<1>4. IsFiniteSet(1 .. n) /\ Cardinality(1 .. n) = n
  BY <1>1, FS_Interval
<1>5. Cardinality(A) \in Nat /\ Cardinality(A) <= n
  BY <1>1, <1>4, FS_Subset, FS_CardinalityType
<1>6. Cardinality(A) + 1 \in 1 .. n + 1
  BY <1>1, <1>5
<1>7. QED
  BY <1>2, <1>3, <1>6

(* For a list of naturals the recursion has a solution.                    *)
LEMMA SortTableExists ==
    ASSUME NEW values \in Seq(Nat)
    PROVE  \E g : SortEquation(g, values, DOMAIN values)
<1> DEFINE S == DOMAIN values
           pick == [s \in SUBSET S |-> Max(s)]
           H == [p \in S \X Seq(Nat) |-> Insert(p[2], values[p[1]])]
<1>1. Len(values) \in Nat /\ S = 1 .. Len(values) /\ \A i \in S : values[i] \in Nat
  OBVIOUS
<1>2. IsFiniteSet(S)
  BY <1>1, FS_Interval
<1> HIDE DEF S
<1>3. ASSUME NEW s \in SUBSET S, s # {} PROVE Max(s) \in s
  BY <1>1, <1>3, MaxIsGreatest
<1>4. \A s \in SUBSET S : pick[s] = Max(s)
  OBVIOUS
<1>5. H \in [S \X Seq(Nat) -> Seq(Nat)]
      /\ \A x \in S, d \in Seq(Nat) : H[<<x, d>>] = Insert(d, values[x])
  <2>1. \A p \in S \X Seq(Nat) : Insert(p[2], values[p[1]]) \in Seq(Nat)
    BY <1>1, InsertTyped
  <2>2. QED
    BY <2>1
<1> HIDE DEF pick, H
<1>6. \E g \in [SUBSET S -> Seq(Nat)] : FoldEquation(g, <<>>, pick, H, S)
  <2>1. \A s \in SUBSET S : s # {} => pick[s] \in s
    BY <1>3, <1>4
  <2>2. <<>> \in Seq(Nat)
    OBVIOUS
  <2>3. QED
    BY <1>2, <1>5, <2>1, <2>2, FoldTableExists
<1>7. PICK g \in [SUBSET S -> Seq(Nat)] : FoldEquation(g, <<>>, pick, H, S)
  BY <1>6
<1>8. \A s \in SUBSET S :
         g[s] = IF s = {} THEN <<>> ELSE Insert(g[s \ {Max(s)}], values[Max(s)])
  <2>1. ASSUME NEW s \in SUBSET S, s # {}
        PROVE  g[s] = Insert(g[s \ {Max(s)}], values[Max(s)])
    <3>1. Max(s) \in S /\ g[s \ {Max(s)}] \in Seq(Nat) /\ pick[s] = Max(s)
      BY <1>3, <1>4, <2>1
    <3>2. QED
      BY <1>5, <1>7, <2>1, <3>1 DEF FoldEquation
  <2>2. QED
    BY <1>7, <2>1 DEF FoldEquation
<1>9. g = [s \in SUBSET S |-> g[s]]
  BY <1>7
<1>10. SortEquation(g, values, S)
  BY <1>8, <1>9 DEF SortEquation
<1>11. QED
  BY <1>10 DEF S

(* The positions among the first n that hold a member of W.                *)
Upto(values, n, W) == {i \in 1 .. n : values[i] \in W}

(* From the first n positions to the first n + 1.                          *)
LEMMA OneMoreUpto ==
    ASSUME NEW values, NEW n \in Nat, NEW W
    PROVE  /\ Cardinality(Upto(values, 0, W)) = 0
           /\ Cardinality(Upto(values, n, W)) \in Nat
           /\ Cardinality(Upto(values, n + 1, W))
                = Cardinality(Upto(values, n, W)) + (IF values[n + 1] \in W THEN 1 ELSE 0)
<1>1. Upto(values, 0, W) = {}
  BY DEF Upto
<1>2. IsFiniteSet(Upto(values, n, W)) /\ n + 1 \notin Upto(values, n, W)
  <2>1. IsFiniteSet(1 .. n)
    BY FS_Interval
  <2>2. Upto(values, n, W) \subseteq 1 .. n /\ n + 1 \notin 1 .. n
    BY DEF Upto
  <2>3. QED
    BY <2>1, <2>2, FS_Subset
<1>3. \A i : i \in 1 .. n + 1 <=> i \in 1 .. n \/ i = n + 1
  OBVIOUS
<1>4. Upto(values, n + 1, W)
        = IF values[n + 1] \in W THEN Upto(values, n, W) \cup {n + 1} ELSE Upto(values, n, W)
  BY <1>3 DEF Upto
<1>5. Cardinality(Upto(values, n, W)) \in Nat
  BY <1>2, FS_CardinalityType
<1>6. Cardinality(Upto(values, n, W) \cup {n + 1}) = Cardinality(Upto(values, n, W)) + 1
  BY <1>2, FS_AddElement
<1>7. QED
  BY <1>1, <1>4, <1>5, <1>6, FS_EmptySet

(* What the list is after the first n values: t has them in order.         *)
InOrder(t, values, n) ==
    /\ t \in Seq(Nat) /\ Len(t) = n /\ Ascending(t)
    /\ \A W : Cardinality(Among(t, W)) = Cardinality(Upto(values, n, W))

(* Before the first value.                                                 *)
LEMMA SortStarts ==
    ASSUME NEW values PROVE InOrder(<<>>, values, 0)
<1>1. \A W : Among(<<>>, W) = {}
  BY DEF Among
<1>2. Ascending(<<>>) /\ <<>> \in Seq(Nat) /\ Len(<<>>) = 0
  BY DEF Ascending
<1>3. Cardinality({}) = 0
  BY FS_EmptySet
<1>4. \A W : Cardinality(Upto(values, 0, W)) = 0
  BY OneMoreUpto
<1>5. QED
  BY <1>1, <1>2, <1>3, <1>4 DEF InOrder

(* And from one value to the next.                                         *)
LEMMA SortStep ==
    ASSUME NEW values, NEW n \in Nat, NEW t, InOrder(t, values, n), values[n + 1] \in Nat
    PROVE  InOrder(Insert(t, values[n + 1]), values, n + 1)
<1>1. PICK u : u = Insert(t, values[n + 1])
  OBVIOUS
<1>2. /\ u \in Seq(Nat) /\ Len(u) = n + 1 /\ Ascending(u)
      /\ \A W : Cardinality(Among(u, W))
                   = Cardinality(Among(t, W)) + (IF values[n + 1] \in W THEN 1 ELSE 0)
  <2>1. t \in Seq(Nat) /\ Ascending(t) /\ Len(t) = n
    BY DEF InOrder
  <2>2. PICK v \in Nat : v = values[n + 1]
    OBVIOUS
  <2>3. /\ Insert(t, v) \in Seq(Nat) /\ Len(Insert(t, v)) = Len(t) + 1
        /\ Ascending(Insert(t, v))
        /\ \A W : Cardinality(Among(Insert(t, v), W))
                     = Cardinality(Among(t, W)) + (IF v \in W THEN 1 ELSE 0)
    BY <2>1, <2>2, InsertKeepsOrder
  <2>4. QED
    BY <1>1, <2>1, <2>2, <2>3
<1>3. \A W : Cardinality(Among(u, W)) = Cardinality(Upto(values, n + 1, W))
  <2>1. \A W : Cardinality(Upto(values, n + 1, W))
                 = Cardinality(Upto(values, n, W)) + (IF values[n + 1] \in W THEN 1 ELSE 0)
    BY OneMoreUpto
  <2>2. QED
    BY <1>2, <2>1 DEF InOrder
<1>4. QED
  BY <1>1, <1>2, <1>3 DEF InOrder

(* Sorted returns the same values in ascending order: as many of them as   *)
(* before are in any given set.                                            *)
THEOREM SortedIsSorted ==
    ASSUME NEW values \in Seq(Nat)
    PROVE  /\ Sorted(values) \in Seq(Nat) /\ Len(Sorted(values)) = Len(values)
           /\ Ascending(Sorted(values))
           /\ \A W : Cardinality(Among(Sorted(values), W)) = Cardinality(Among(values, W))
<1>1. Len(values) \in Nat /\ DOMAIN values = 1 .. Len(values)
      /\ \A i \in 1 .. Len(values) : values[i] \in Nat
  OBVIOUS
<1>2. PICK N \in Nat : N = Len(values)
  BY <1>1
<1>3. PICK g : Sorted(values) = g[1 .. N] /\ SortEquation(g, values, 1 .. N)
  BY <1>1, <1>2, SortedIsTable, SortTableExists, Zenon
<1>4. \A s \in SUBSET (1 .. N) :
         g[s] = IF s = {} THEN <<>> ELSE Insert(g[s \ {Max(s)}], values[Max(s)])
  BY <1>3 DEF SortEquation
<1>5. g[1 .. 0] = <<>>
  <2>1. 1 .. 0 = {} /\ {} \in SUBSET (1 .. N)
    OBVIOUS
  <2>2. QED
    BY <1>4, <2>1
<1>6. ASSUME NEW n \in Nat, n + 1 <= N
      PROVE  g[1 .. n + 1] = Insert(g[1 .. n], values[n + 1])
  <2>1. 1 .. n + 1 \in SUBSET (1 .. N) /\ 1 .. n + 1 # {} /\ n + 1 \in 1 .. n + 1
    <3>1. n + 1 \in 1 .. n + 1
      OBVIOUS
    <3>2. \A i \in 1 .. n + 1 : i \in 1 .. N
      BY <1>6
    <3>3. QED
      BY <3>1, <3>2
  <2>2. Max(1 .. n + 1) \in 1 .. n + 1 /\ \A y \in 1 .. n + 1 : y <= Max(1 .. n + 1)
    <3>1. n + 1 \in Nat /\ 1 .. n + 1 \in SUBSET (1 .. n + 1)
      OBVIOUS
    <3>2. QED
      BY <2>1, <3>1, MaxIsGreatest
  <2>3. Max(1 .. n + 1) = n + 1
    <3>1. \A m \in 1 .. n + 1 : n + 1 <= m => m = n + 1
      OBVIOUS
    <3>2. QED
      BY <2>1, <2>2, <3>1
  <2>4. (1 .. n + 1) \ {n + 1} = 1 .. n
    OBVIOUS
  <2>5. g[1 .. n + 1] = Insert(g[(1 .. n + 1) \ {Max(1 .. n + 1)}], values[Max(1 .. n + 1)])
    BY <1>4, <2>1, Zenon
  <2>6. QED
    BY <2>3, <2>4, <2>5
<1> DEFINE G == {n \in Nat : n <= N => InOrder(g[1 .. n], values, n)}
<1>7. 0 \in G
  BY <1>5, SortStarts
<1>8. ASSUME NEW n \in Nat, n \in G PROVE n + 1 \in G
  <2>1. SUFFICES ASSUME n + 1 <= N PROVE InOrder(g[1 .. n + 1], values, n + 1)
    OBVIOUS
  <2>2. InOrder(g[1 .. n], values, n)
    BY <1>8, <2>1
  <2>3. values[n + 1] \in Nat
    BY <1>1, <1>2, <2>1
  <2> HIDE DEF G
  <2>4. InOrder(Insert(g[1 .. n], values[n + 1]), values, n + 1)
    BY <2>2, <2>3, SortStep
  <2>5. QED
    BY <1>6, <2>1, <2>4
<1>9. N \in G
  <2> HIDE DEF G
  <2> QED
    BY <1>7, <1>8, InductiveSet
<1>10. InOrder(Sorted(values), values, N)
  BY <1>3, <1>9
<1>11. \A W : Upto(values, N, W) = Among(values, W)
  BY <1>1, <1>2 DEF Upto, Among
<1>12. QED
  BY <1>2, <1>10, <1>11 DEF InOrder

(* The positions of the values up to x, and of those below it.             *)
UpTo(v, x) == {i \in DOMAIN v : v[i] <= x}
Below(v, x) == {i \in DOMAIN v : v[i] < x}

(* The value at a position of the sorted list is one of the values; it is  *)
(* not below that many of them, and not above more.                        *)
LEMMA ValueAtRank ==
    ASSUME NEW v \in Seq(Nat), NEW k \in 0 .. Len(v) - 1, NEW x, x = Sorted(v)[k + 1]
    PROVE  /\ x \in Nat /\ x \in Range(v)
           /\ Cardinality(UpTo(v, x)) \in k + 1 .. Len(v)
           /\ Cardinality(Below(v, x)) \in 0 .. k
<1>1. PICK s \in Seq(Nat) : /\ s = Sorted(v) /\ Len(s) = Len(v) /\ Ascending(s)
                            /\ \A W : Cardinality(Among(s, W)) = Cardinality(Among(v, W))
  BY SortedIsSorted
<1>2. PICK n \in Nat : n = Len(v)
  OBVIOUS
<1>3. DOMAIN s = 1 .. n /\ k + 1 \in 1 .. n /\ x = s[k + 1] /\ x \in Nat
  <2>1. k + 1 \in 1 .. n
    BY <1>2
  <2>2. QED
    BY <1>1, <1>2, <2>1
<1>4. /\ \A i \in DOMAIN s : s[i] \in Nat
      /\ \A i \in DOMAIN v : v[i] \in Nat
  OBVIOUS
<1>5. PICK L : L = {i \in DOMAIN s : s[i] <= x}
  OBVIOUS
<1>6. PICK B : B = {i \in DOMAIN s : s[i] < x}
  OBVIOUS
<1>7. Cardinality(L) \in 0 .. n /\ L = 1 .. Cardinality(L)
  BY <1>1, <1>2, <1>3, <1>5, AscendingPrefix
<1>8. Cardinality(B) \in 0 .. n /\ B = 1 .. Cardinality(B)
  BY <1>1, <1>2, <1>3, <1>6, AscendingPrefix
<1>9. Cardinality(L) \in k + 1 .. n
  <2>1. k + 1 \in L
    BY <1>3, <1>5
  <2>2. k + 1 <= Cardinality(L)
    BY <1>7, <2>1
  <2>3. QED
    BY <1>7, <2>2
<1>10. Cardinality(B) \in 0 .. k
  <2>1. k + 1 \notin B
    BY <1>3, <1>6
  <2>2. ~(k + 1 <= Cardinality(B))
    BY <1>3, <1>8, <2>1
  <2>3. QED
    BY <1>8, <2>2
<1>11. L = Among(s, {y \in Nat : y <= x}) /\ UpTo(v, x) = Among(v, {y \in Nat : y <= x})
  BY <1>4, <1>5 DEF Among, UpTo
<1>12. B = Among(s, {y \in Nat : y < x}) /\ Below(v, x) = Among(v, {y \in Nat : y < x})
  BY <1>4, <1>6 DEF Among, Below
<1>13. x \in Range(v)
  <2>1. IsFiniteSet(Among(s, {x})) /\ Among(s, {x}) # {}
    <3>1. k + 1 \in Among(s, {x})
      BY <1>3 DEF Among
    <3>2. QED
      BY <1>1, <3>1, OneMoreAmong
  <2>2. Cardinality(Among(s, {x})) # 0
    BY <2>1, FS_EmptySet
  <2>3. Among(v, {x}) # {}
    BY <1>1, <2>2, FS_EmptySet
  <2>4. QED
    BY <2>3 DEF Among, Range
<1>14. QED
  BY <1>1, <1>2, <1>3, <1>9, <1>10, <1>11, <1>12, <1>13

(* p50, p95 and p99 of a list.                                             *)
LEMMA PercentilesNearRank ==
    ASSUME NEW v \in Seq(Nat), v # <<>>
    PROVE  /\ Percentile(v, 50) <= Percentile(v, 95)
           /\ Percentile(v, 95) <= Percentile(v, 99)
           /\ \A pct \in {50, 95, 99} :
                 LET x == Percentile(v, pct)
                 IN  /\ x \in Range(v)
                     /\ Cardinality(UpTo(v, x)) >= NearestRank(Len(v), pct) - 1
                     /\ Cardinality(Below(v, x)) <= NearestRank(Len(v), pct)
<1>1. PICK n \in Nat \ {0} : n = Len(v)
  OBVIOUS
<1>2. \A pct : Percentile(v, pct) = Sorted(v)[Index(n, pct) + 1]
  BY <1>1 DEF Percentile
<1>3. /\ \A pct \in {50, 95, 99} :
            /\ Index(n, pct) \in 0 .. n - 1
            /\ Index(n, pct) + 1 \in NearestRank(n, pct) - 1 .. NearestRank(n, pct) + 1
      /\ Index(n, 50) <= Index(n, 95) /\ Index(n, 95) <= Index(n, 99)
  BY IndexNearRank
<1>4. ASSUME NEW p \in 0 .. n - 1, NEW q \in 0 .. n - 1, p <= q
      PROVE  Sorted(v)[p + 1] <= Sorted(v)[q + 1]
  <2>1. PICK s \in Seq(Nat) : s = Sorted(v) /\ Len(s) = n /\ Ascending(s)
    BY <1>1, SortedIsSorted
  <2>2. DOMAIN s = 1 .. n /\ p + 1 \in 1 .. n /\ q + 1 \in 1 .. n /\ p + 1 <= q + 1
    BY <1>4, <2>1
  <2>3. QED
    BY <2>1, <2>2 DEF Ascending
<1>5. Percentile(v, 50) <= Percentile(v, 95) /\ Percentile(v, 95) <= Percentile(v, 99)
  <2>1. Index(n, 50) \in 0 .. n - 1 /\ Index(n, 95) \in 0 .. n - 1 /\ Index(n, 99) \in 0 .. n - 1
    BY <1>3
  <2>2. Sorted(v)[Index(n, 50) + 1] <= Sorted(v)[Index(n, 95) + 1]
    BY <1>3, <1>4, <2>1
  <2>3. Sorted(v)[Index(n, 95) + 1] <= Sorted(v)[Index(n, 99) + 1]
    BY <1>3, <1>4, <2>1
  <2>4. QED
    BY <1>2, <2>2, <2>3
<1>6. ASSUME NEW pct \in {50, 95, 99}, NEW x, x = Percentile(v, pct)
      PROVE  /\ x \in Range(v)
             /\ Cardinality(UpTo(v, x)) >= NearestRank(n, pct) - 1
             /\ Cardinality(Below(v, x)) <= NearestRank(n, pct)
  <2>1. PICK k \in 0 .. n - 1 : k = Index(n, pct)
    BY <1>3
  <2>2. k + 1 \in NearestRank(n, pct) - 1 .. NearestRank(n, pct) + 1
    BY <1>3, <2>1
  <2>3. x = Sorted(v)[k + 1]
    BY <1>2, <1>6, <2>1
  <2>4. k \in 0 .. Len(v) - 1
    BY <1>1
  <2>5. /\ x \in Range(v)
        /\ Cardinality(UpTo(v, x)) \in k + 1 .. n
        /\ Cardinality(Below(v, x)) \in 0 .. k
    <3>1. \A y : y = Sorted(v)[k + 1] =>
            /\ y \in Range(v)
            /\ Cardinality(UpTo(v, y)) \in k + 1 .. Len(v)
            /\ Cardinality(Below(v, y)) \in 0 .. k
      BY <2>4, ValueAtRank
    <3>2. QED
      BY <1>1, <2>3, <3>1
  <2>6. NearestRank(n, pct) \in Int
    BY DEF NearestRank
  <2>7. \A a, b \in Int : /\ a \in k + 1 .. n => a >= NearestRank(n, pct) - 1
                          /\ b \in 0 .. k => b <= NearestRank(n, pct)
    BY <2>2, <2>6
  <2>8. \A a : a \in k + 1 .. n \/ a \in 0 .. k => a \in Int
    OBVIOUS
  <2>9. QED
    BY <2>5, <2>7, <2>8
<1>7. QED
  BY <1>1, <1>5, <1>6

(* The recorded latencies are naturals.                                    *)
LEMMA SamplesAreNaturals ==
    ASSUME TypeOK, NEW m \in Series
    PROVE  samples[m] \in Seq(Nat)
<1>1. samples[m] \in Seq(Time)
  BY DEF TypeOK
<1>2. Time \subseteq Nat
  BY MetricsAssumption DEF Time
<1>3. QED
  BY <1>1, <1>2, SeqMonotonic

(* The quantiles reported are in order, are latencies that were recorded   *)
(* and are one place at most from the nearest rank: for any list.          *)
THEOREM QuantilesAreNearRank == Spec => []QuantilesNearRank
<1>1. TypeOK => QuantilesNearRank
  <2> SUFFICES ASSUME TypeOK, NEW m \in Series, samples[m] # <<>>
               PROVE  LET v == samples[m]
                      IN  /\ Percentile(v, 50) <= Percentile(v, 95)
                          /\ Percentile(v, 95) <= Percentile(v, 99)
                          /\ \A pct \in {50, 95, 99} :
                                LET x == Percentile(v, pct)
                                IN  /\ x \in Range(v)
                                    /\ Cardinality(UpTo(v, x)) >= NearestRank(Len(v), pct) - 1
                                    /\ Cardinality(Below(v, x)) <= NearestRank(Len(v), pct)
    BY ZenonT(60) DEF QuantilesNearRank, CountOf, UpTo, Below
  <2>1. samples[m] \in Seq(Nat)
    BY SamplesAreNaturals
  <2>2. QED
    BY <2>1, PercentilesNearRank, Zenon
<1>2. QED
  BY <1>1, LatencyTyped, PTL
=============================================================================
