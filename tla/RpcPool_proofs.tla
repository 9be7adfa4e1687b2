---------------------------- MODULE RpcPool_proofs ----------------------------
(***************************************************************************)
(* Theorems of the pool, for any endpoints, clients, calls and sessions,   *)
(* however the answers, admissions and cooldowns of all of them interleave.*)
(***************************************************************************)
EXTENDS RpcPool, FiniteSetTheorems, WellFoundedInduction, TLAPS

-----------------------------------------------------------------------------
(* The median of the heights that came back.                                *)

LEMMA LeastNumber ==
  ASSUME NEW T \in SUBSET Nat, T # {}
  PROVE  \E x \in T : \A y \in T : x <= y
<1>1. PICK x \in T : \A y \in T : <<y, x>> \notin OpToRel(<, Nat)
    BY NatLessThanWellFounded, WFMin
<1>2. \A y \in T : ~(y < x)
    BY <1>1 DEF OpToRel
<1> QED
    BY <1>2

LEMMA PartHasFewer ==
  ASSUME NEW S, IsFiniteSet(S), NEW T \in SUBSET S
  PROVE  /\ IsFiniteSet(T) /\ Cardinality(T) \in Nat /\ Cardinality(S) \in Nat
         /\ Cardinality(T) <= Cardinality(S)
         /\ T # S => Cardinality(T) < Cardinality(S)
<1>1. /\ IsFiniteSet(T) /\ Cardinality(T) <= Cardinality(S)
      /\ Cardinality(S) = Cardinality(T) => S = T
    BY FS_Subset
<1>2. Cardinality(T) \in Nat /\ Cardinality(S) \in Nat
    BY <1>1, FS_CardinalityType
<1> QED
    BY <1>1, <1>2

\* The one that has the most of the others at or below it is the highest.
LEMMA SomeIsHighest ==
  ASSUME NEW S, IsFiniteSet(S), S # {}, NEW f \in [S -> Nat]
  PROVE  \E e \in S : \A d \in S : f[d] <= f[e]
<1> DEFINE below(e) == {d \in S : f[d] <= f[e]}
           above(e) == Cardinality(S) - Cardinality(below(e))
<1>1. \A e \in S : /\ IsFiniteSet(below(e)) /\ Cardinality(below(e)) \in Nat
                   /\ Cardinality(below(e)) <= Cardinality(S)
    BY PartHasFewer
<1>2. Cardinality(S) \in Nat
    BY FS_CardinalityType
<1>3. {above(e) : e \in S} \in SUBSET Nat /\ {above(e) : e \in S} # {}
  <2> HIDE DEF below
  <2> QED
      BY <1>1, <1>2
<1>4. PICK x \in {above(e) : e \in S} : \A y \in {above(e) : e \in S} : x <= y
  <2> HIDE DEF above
  <2> QED
      BY <1>3, LeastNumber
<1>5. PICK e \in S : \A d \in S : above(e) <= above(d)
    BY <1>4
<1>6. ASSUME NEW d \in S, ~(f[d] <= f[e]) PROVE FALSE
  <2>1. f[d] \in Nat /\ f[e] \in Nat /\ \A c \in S : f[c] \in Nat
      OBVIOUS
  <2>2. below(e) \in SUBSET below(d) /\ d \in below(d) /\ d \notin below(e)
      BY <1>6, <2>1
  <2>3. Cardinality(below(e)) < Cardinality(below(d))
    <3> HIDE DEF below
    <3> QED
        BY <1>1, <2>2, PartHasFewer
  <2>4. Cardinality(below(e)) \in Nat /\ Cardinality(below(d)) \in Nat /\ above(e) <= above(d)
      BY <1>1, <1>5
  <2> HIDE DEF below
  <2> QED
      BY <1>2, <2>3, <2>4
<1> QED
    BY <1>6

LEMMA MedianIsVouched ==
  ASSUME NEW answers \in [Endpoint -> Outcome], NEW got \in SUBSET Endpoint, got # {},
         NEW h, h = Median(answers, got)
  PROVE  /\ 2 * Cardinality({e \in got : answers[e].height >= h}) > Cardinality(got)
         /\ 2 * Cardinality({e \in got : answers[e].height <= h}) >= Cardinality(got)
<1> DEFINE height == [e \in got |-> answers[e].height]
           below(e) == {d \in got : answers[d].height <= answers[e].height}
           rank == (Cardinality(got) - 1) \div 2 + 1
           reached == {e \in got : Cardinality(below(e)) >= rank}
<1>1. IsFiniteSet(got) /\ Cardinality(got) \in Nat \ {0}
    BY PoolAssumption, PartHasFewer, FS_EmptySet
<1>2. \A e \in got : answers[e].height \in Nat
    BY PoolAssumption DEF Outcome
<1>3. rank \in Nat /\ 2 * rank >= Cardinality(got) /\ 2 * (rank - 1) < Cardinality(got) /\ rank <= Cardinality(got)
    BY <1>1
<1>4. reached # {}
  <2>1. PICK e \in got : \A d \in got : height[d] <= height[e]
      BY <1>1, <1>2, SomeIsHighest
  <2>2. below(e) = got
      BY <2>1
  <2> QED
      BY <1>3, <2>2
<1>5. \E x \in {answers[e].height : e \in reached} : \A e \in got : Cardinality(below(e)) >= rank => x <= answers[e].height
  <2>1. {answers[e].height : e \in reached} \in SUBSET Nat /\ {answers[e].height : e \in reached} # {}
      BY <1>2, <1>4
  <2>2. PICK x \in {answers[e].height : e \in reached} : \A y \in {answers[e].height : e \in reached} : x <= y
    <3> HIDE DEF reached
    <3> QED
        BY <2>1, LeastNumber
  <2> QED
      BY <2>2
<1>6. h = CHOOSE x \in {answers[e].height : e \in reached} :
              \A e \in got : Cardinality(below(e)) >= rank => x <= answers[e].height
    BY DEF Median
<1>7. /\ h \in {answers[e].height : e \in reached}
      /\ \A e \in got : Cardinality(below(e)) >= rank => h <= answers[e].height
    BY <1>5, <1>6
<1>8. PICK m \in got : h = answers[m].height /\ Cardinality(below(m)) >= rank
    BY <1>7
<1>9. 2 * Cardinality({e \in got : answers[e].height <= h}) >= Cardinality(got)
  <2>1. {e \in got : answers[e].height <= h} = below(m)
      BY <1>8
  <2>2. Cardinality(below(m)) \in Nat
      BY <1>1, PartHasFewer
  <2> QED
      BY <1>1, <1>3, <1>8, <2>1, <2>2
<1>10. 2 * Cardinality({e \in got : answers[e].height >= h}) > Cardinality(got)
  <2> DEFINE lower == {e \in got : answers[e].height < h}
             upper == {e \in got : answers[e].height >= h}
  <2>1. /\ IsFiniteSet(lower) /\ IsFiniteSet(upper)
        /\ Cardinality(lower) \in Nat /\ Cardinality(upper) \in Nat
      BY <1>1, PartHasFewer
  <2>2. Cardinality(got) = Cardinality(lower) + Cardinality(upper)
    <3>1. lower \union upper = got /\ lower \cap upper = {}
        BY <1>2, <1>8
    <3> HIDE DEF lower, upper
    <3>2. Cardinality(lower \union upper) = Cardinality(lower) + Cardinality(upper) - Cardinality(lower \cap upper)
        BY <2>1, FS_Union
    <3> QED
        BY <2>1, <3>1, <3>2, FS_EmptySet
  <2>3. Cardinality(lower) < rank
    <3>1. CASE lower = {}
      <4>1. Cardinality(lower) = 0
          BY <3>1, FS_EmptySet
      <4> HIDE DEF rank, lower
      <4> QED
          BY <1>1, <1>3, <4>1
    <3>2. CASE lower # {}
      <4>1. PICK e \in lower : \A d \in lower : answers[d].height <= answers[e].height
        <5>1. [d \in lower |-> answers[d].height] \in [lower -> Nat]
            BY <1>2
        <5> HIDE DEF lower
        <5>2. PICK e \in lower : \A d \in lower : [c \in lower |-> answers[c].height][d] <= [c \in lower |-> answers[c].height][e]
            BY <2>1, <3>2, <5>1, SomeIsHighest
        <5> QED
            BY <5>2
      <4>2. below(e) = lower
          BY <1>2, <1>8, <4>1
      <4>3. ~(h <= answers[e].height) /\ e \in got
          BY <1>2, <1>8, <4>1
      <4>4. ~(Cardinality(below(e)) >= rank)
          BY <1>7, <4>3
      <4> HIDE DEF rank, lower, below
      <4> QED
          BY <1>3, <2>1, <4>2, <4>4
    <3> QED
        BY <3>1, <3>2
  <2> QED
      BY <1>1, <1>3, <2>1, <2>2, <2>3
<1> QED
    BY <1>9, <1>10

-----------------------------------------------------------------------------
(* The circuit: what each operation makes of an endpoint's health.          *)

Classes == {"ok", "malformed", "transport", "rateLimited", "rangeTooLarge", "alreadyKnown", "unsupportedMethod"}
           \union Terminal
Methods == {"chainId"} \union {u[2] : u \in UNION {k.calls : k \in Scenes}}

LEMMA AnswersAreClassified ==
  /\ \A m \in Methods : Exchange[m] \subseteq Classes
  /\ \A q \in Query : q.method \in Methods
<1>1. \A status, p : ClassifyHttp(status, p) \in Classes
    BY DEF ClassifyHttp, Classes
<1>2. \A m, code, p, data : ClassifyJsonRpc(m, code, p, data) \in Classes
    BY DEF ClassifyJsonRpc, Classes, Terminal
<1>3. {"ok", "transport", "malformed"} \subseteq Classes
    BY DEF Classes
<1>4. \A q \in Query : q.method \in Methods
    BY DEF Query, Methods
<1>5. ASSUME NEW m \in Methods PROVE Exchange[m] \subseteq Classes
  <2>1. Exchange[m] = {"ok", "transport"} \union (IF m = "chainId" THEN {} ELSE {"malformed"})
          \union {ClassifyHttp(status, p) : status \in {429, 500}, p \in SUBSET Pattern}
          \union {ClassifyJsonRpc(m, code, p, data) :
                    code \in Code, p \in SUBSET Pattern, data \in BOOLEAN}
      BY DEF Exchange, Methods
  <2> HIDE DEF Classes
  <2> QED
      BY <1>1, <1>2, <1>3, <2>1
<1> QED
    BY <1>4, <1>5

\* A malformed chain id is a failure of the transport.
LEMMA ChainIdsParse == "malformed" \notin Exchange["chainId"]
<1>1. \A status, p : ClassifyHttp(status, p) # "malformed"
    BY DEF ClassifyHttp
<1>2. \A m, code, p, data : ClassifyJsonRpc(m, code, p, data) # "malformed"
    BY DEF ClassifyJsonRpc
<1>3. Exchange["chainId"] = {"ok", "transport"} \union {}
          \union {ClassifyHttp(status, p) : status \in {429, 500}, p \in SUBSET Pattern}
          \union {ClassifyJsonRpc("chainId", code, p, data) :
                    code \in Code, p \in SUBSET Pattern, data \in BOOLEAN}
    BY DEF Exchange
<1> QED
    BY <1>1, <1>2, <1>3

LEMMA SmallerBounded ==
  ASSUME NEW a \in Nat, NEW b \in Nat
  PROVE  Smaller(a, b) \in Nat /\ Smaller(a, b) <= a /\ Smaller(a, b) <= b
<1> QED
    BY DEF Smaller

LEMMA CircuitBounds ==
  /\ FailuresToOpen \in Nat /\ MaxCooldown \in Nat /\ MaxOpens \in Nat
  /\ \A n \in 0..FailuresToOpen : Smaller(n + 1, FailuresToOpen) \in 0..FailuresToOpen
  /\ \A n \in 0..MaxOpens : /\ Smaller(n + 1, MaxOpens) \in 0..MaxOpens
                            /\ Smaller(MaxCooldown, 2 ^ n) \in 0..MaxCooldown
<1>1. FailuresToOpen \in Nat /\ MaxCooldown \in Nat /\ MaxOpens \in Nat
    BY PoolAssumption
<1>2. \A n \in 0..MaxOpens : 2 ^ n \in Nat
    BY PoolAssumption
<1>3. ASSUME NEW n \in 0..MaxOpens PROVE Smaller(MaxCooldown, 2 ^ n) \in 0..MaxCooldown
    BY <1>1, <1>2, SmallerBounded
<1>4. ASSUME NEW m \in Nat, NEW n \in 0..m PROVE Smaller(n + 1, m) \in 0..m
    BY SmallerBounded
<1> QED
    BY <1>1, <1>3, <1>4

LEMMA ProbeBegins ==
  ASSUME NEW h \in Health
  PROVE  BeginProbe(h) \in Health
<1> QED
    BY DEF BeginProbe, Health

LEMMA SuccessRecorded ==
  ASSUME NEW h \in Health
  PROVE  RecordSuccess(h) \in Health /\ ~RecordSuccess(h).probing
<1>1. 0 \in 0..FailuresToOpen /\ 0 \in 0..MaxCooldown
    BY CircuitBounds
<1> QED
    BY <1>1 DEF RecordSuccess, Health

LEMMA HeightRecorded ==
  ASSUME NEW h \in Health, NEW height \in Height
  PROVE  RecordHeight(h, height) \in Health /\ RecordHeight(h, height).probing = h.probing
<1> QED
    BY DEF RecordHeight, Health

LEMMA CircuitOpens ==
  ASSUME NEW h \in Health, NEW wait \in 0..MaxCooldown
  PROVE  Open(h, wait) \in Health /\ Open(h, wait).probing = h.probing
<1>1. Smaller(h.opens + 1, MaxOpens) \in 0..MaxOpens
    BY CircuitBounds DEF Health
<1> QED
    BY <1>1 DEF Open, Health

LEMMA FailureRecorded ==
  ASSUME NEW h \in Health, NEW class \in Classes \ {"ok", "malformed"}, NEW wait \in RetryAfter
  PROVE  RecordFailure(h, class, wait) \in Health /\ ~RecordFailure(h, class, wait).probing
<1> DEFINE idle    == [h EXCEPT !.probing = FALSE]
           counted == [idle EXCEPT !.failures = Smaller(@ + 1, FailuresToOpen)]
<1>1. idle \in Health /\ ~idle.probing
    BY DEF Health
<1>2. counted \in Health /\ ~counted.probing
  <2>1. Smaller(idle.failures + 1, FailuresToOpen) \in 0..FailuresToOpen
      BY <1>1, CircuitBounds DEF Health
  <2> HIDE DEF idle
  <2> QED
      BY <1>1, <2>1 DEF Health
<1>3. CooldownOf(h) \in 0..MaxCooldown /\ wait \in 0..MaxCooldown
    BY CircuitBounds, PoolAssumption DEF CooldownOf, Health
<1>4. RecordFailure(h, class, wait) \in {idle, Open(idle, wait), counted, Open(counted, CooldownOf(h))}
    BY DEF RecordFailure, Classes
<1> HIDE DEF idle, counted
<1> QED
    BY <1>1, <1>2, <1>3, <1>4, CircuitOpens

\* However an endpoint answers, its probe is over.
LEMMA AnswerRecorded ==
  ASSUME NEW h \in Health, NEW q \in Query, NEW class \in Classes, NEW height \in Height,
         NEW wait \in RetryAfter
  PROVE  /\ Recorded(h, q, class, height, wait) \in Health
         /\ ~Recorded(h, q, class, height, wait).probing
<1>1. CASE class \in {"ok", "malformed"}
  <2> DEFINE seen == IF q.method = "blockNumber" /\ class = "ok" THEN RecordHeight(RecordSuccess(h), height) ELSE RecordSuccess(h)
  <2>1. seen \in Health /\ ~seen.probing
      BY SuccessRecorded, HeightRecorded
  <2>2. Recorded(h, q, class, height, wait) \in {seen, [seen EXCEPT !.overrides = "yes"]}
      BY <1>1 DEF Recorded
  <2> HIDE DEF seen
  <2>3. [seen EXCEPT !.overrides = "yes"] \in Health /\ ~[seen EXCEPT !.overrides = "yes"].probing
      BY <2>1 DEF Health
  <2> QED
      BY <2>1, <2>2, <2>3
<1>2. CASE class \notin {"ok", "malformed"}
  <2>1. PICK failed : failed = RecordFailure(h, class, wait)
      OBVIOUS
  <2>2. failed \in Health /\ ~failed.probing
      BY <1>2, <2>1, FailureRecorded
  <2>3. LearnUnsupported(failed, q.method) \in Health /\ ~LearnUnsupported(failed, q.method).probing
      BY <2>2 DEF LearnUnsupported, Health
  <2>4. q.span # None => /\ LearnMaxLogRange(failed, q.span) \in Health
                         /\ ~LearnMaxLogRange(failed, q.span).probing
    <3>1. PICK M : M = {u[2] : u \in UNION {k.calls : k \in Scenes}}
        OBVIOUS
    <3>2. q \in [method : M, height : Height \union {None}, span : Span \union {None}]
        BY <3>1 DEF Query
    <3>3. q.span \in Span \union {None}
        BY <3>2
    <3>4. \A n \in Span : n \in Int
        BY PoolAssumption
    <3>5. q.span # None => q.span \in Int
        BY <3>3, <3>4
    <3> QED
        BY <2>2, <3>5 DEF LearnMaxLogRange, Health
  <2>5. \/ Recorded(h, q, class, height, wait) \in {failed, LearnUnsupported(failed, q.method)}
        \/ q.span # None /\ Recorded(h, q, class, height, wait) = LearnMaxLogRange(failed, q.span)
      BY <1>2, <2>1 DEF Recorded
  <2> QED
      BY <2>2, <2>3, <2>4, <2>5
<1> QED
    BY <1>1, <1>2

-----------------------------------------------------------------------------
(* The invariant.  An endpoint has been admitted before a request is sent   *)
(* to it, so that the probe which a request begins goes on with that        *)
(* request, or with the admission it has to wait for.                       *)

Task == [query : Query \union {None}, queue : Seq(Endpoint), order : Seq(Endpoint),
         wave : SUBSET Endpoint, answers : [Endpoint -> Outcome], result : {"none", "ok", "error"}]

Typed == TypeOK /\ task \in [Client -> Task]

ProbesReturn == \A e \in Endpoint : health[e].probing =>
                    \/ admission[e] \in {"asking", "reading"}
                    \/ \E c \in Client : flight[c][e] \in {"sent", "reading"}

\* What is in flight belongs to a query; and what was sent, to an endpoint of the chain.
FlightsAreAsked ==
    \A c \in Client, e \in Endpoint :
        /\ flight[c][e] # "idle" => task[c].query \in Query
        /\ flight[c][e] \in {"sent", "reading"} => admission[e] = "admitted"

\* An answer that did not decide its request is one of those that the pool collects.
Kept(c, t) ==
    \A e \in Endpoint : t.answers[e].class \in {"ok", "malformed", "alreadyKnown"} => Collects(t.query) /\ c \notin Session

PoolInvariant ==
    /\ Typed
    /\ ProbesReturn
    /\ FlightsAreAsked
    /\ \A c \in Client : Kept(c, task[c])

LEMMA NoTaskIsATask ==
  /\ NoTask \in Task /\ NoTask.answers = [e \in Endpoint |-> Silence] /\ NoTask.result = "none"
  /\ Silence \in Outcome /\ Failed \in Outcome
  /\ Silence.class = "none" /\ Failed.class = "failed"
<1>1. /\ Silence \in Outcome /\ Failed \in Outcome
      /\ Silence.class = "none" /\ Failed.class = "failed"
    BY PoolAssumption DEF Silence, Failed, Outcome
<1>2. <<>> \in Seq(Endpoint) /\ [e \in Endpoint |-> Silence] \in [Endpoint -> Outcome]
    BY <1>1
<1> QED
    BY <1>1, <1>2 DEF NoTask, Task

LEMMA WidthIsNatural ==
  ASSUME NEW c, NEW q
  PROVE  Width(c, q) \in Nat
<1>1. HedgeWave \in Nat /\ Fanout \in Nat /\ 1 \in Nat
    BY PoolAssumption
<1>2. Width(c, q) \in {1, HedgeWave, Fanout}
    BY DEF Width
<1> QED
    BY <1>1, <1>2

\* What a wave starts is in flight, and so are the probes that it begins.
LEMMA StartWaveStep ==
  ASSUME PoolInvariant, NEW c \in Client, NEW t \in Task, t.query \in Query, Kept(c, t),
         StartWave(c, t)
  PROVE  PoolInvariant' /\ task'[c].result = t.result /\ \A d \in Client \ {c} : task'[d] = task[d]
<1>1. PICK n : n = Smaller(Width(c, t.query), Len(t.queue))
    OBVIOUS
<1>2. t.queue \in Seq(Endpoint) /\ Len(t.queue) \in Nat /\ n \in Nat /\ n <= Len(t.queue)
    BY <1>1, WidthIsNatural, SmallerBounded DEF Task
<1>3. PICK wave : wave = {t.queue[i] : i \in 1..n}
    OBVIOUS
<1>4. wave \subseteq Endpoint
    BY <1>2, <1>3
<1>5. PICK started : started = {e \in wave : CanSelect(health[e])}
    OBVIOUS
<1>6. started \subseteq wave
    BY <1>5
<1>7. /\ health' = [e \in Endpoint |-> IF e \in started THEN BeginProbe(health[e]) ELSE health[e]]
      /\ admission' = [e \in Endpoint |->
            IF e \in started /\ admission[e] = "none" THEN "asking" ELSE admission[e]]
      /\ flight' = [flight EXCEPT ![c] = [e \in Endpoint |->
            IF e \notin started THEN flight[c][e]
            ELSE IF admission[e] = "admitted" THEN "sent" ELSE "waiting"]]
      /\ task' = [task EXCEPT ![c] =
            [t EXCEPT !.queue = SubSeq(t.queue, n + 1, Len(t.queue)), !.wave = started,
                      !.answers = [e \in Endpoint |-> IF e \in wave \ started THEN Failed ELSE t.answers[e]]]]
      /\ UNCHANGED <<pin, scene>>
    BY <1>1, <1>3, <1>5 DEF StartWave
<1>8. PICK answers : answers = [e \in Endpoint |-> IF e \in wave \ started THEN Failed ELSE t.answers[e]]
    OBVIOUS
<1>9. PICK queue : queue = SubSeq(t.queue, n + 1, Len(t.queue))
    OBVIOUS
<1>10. PICK u : u = [t EXCEPT !.queue = queue, !.wave = started, !.answers = answers]
    OBVIOUS
<1>11. queue \in Seq(Endpoint)
    BY <1>2, <1>9
<1>12. answers \in [Endpoint -> Outcome]
    BY <1>8, NoTaskIsATask DEF Task
<1>13. /\ u \in Task /\ u.query = t.query /\ u.answers = answers /\ u.result = t.result
    BY <1>4, <1>6, <1>10, <1>11, <1>12 DEF Task
<1>14. /\ health \in [Endpoint -> Health] /\ task \in [Client -> Task]
       /\ admission \in [Endpoint -> {"none", "asking", "reading", "admitted"}]
       /\ flight \in [Client -> [Endpoint -> {"idle", "waiting", "sent", "reading"}]]
       /\ pin \in [Client -> Endpoint \union {None}]
    BY DEF PoolInvariant, Typed, TypeOK
<1>15. task' = [task EXCEPT ![c] = u] /\ task' \in [Client -> Task] /\ task'[c] = u
       /\ \A d \in Client \ {c} : task'[d] = task[d]
    BY <1>7, <1>8, <1>9, <1>10, <1>13, <1>14
<1>16. /\ flight' \in [Client -> [Endpoint -> {"idle", "waiting", "sent", "reading"}]]
       /\ \A d \in Client \ {c} : flight'[d] = flight[d]
       /\ \A e \in Endpoint : flight'[c][e] = IF e \notin started THEN flight[c][e]
                                              ELSE IF admission[e] = "admitted" THEN "sent" ELSE "waiting"
    BY <1>7, <1>14
<1>17. /\ admission' \in [Endpoint -> {"none", "asking", "reading", "admitted"}]
       /\ \A e \in Endpoint : admission'[e] = IF e \in started /\ admission[e] = "none" THEN "asking" ELSE admission[e]
    BY <1>7, <1>14
<1>18. /\ health' \in [Endpoint -> Health]
       /\ \A e \in Endpoint \ started : health'[e] = health[e]
    BY <1>7, <1>14, ProbeBegins
<1>19. Typed'
    BY <1>7, <1>14, <1>15, <1>16, <1>17, <1>18 DEF Typed, TypeOK, Task
<1>20. ProbesReturn'
  <2>1. ASSUME NEW e \in Endpoint, health'[e].probing
        PROVE  admission'[e] \in {"asking", "reading"} \/ \E d \in Client : flight'[d][e] \in {"sent", "reading"}
    <3>1. CASE e \in started
        BY <1>14, <1>16, <1>17, <3>1
    <3>2. CASE e \notin started
      <4>1. admission[e] \in {"asking", "reading"} \/ \E d \in Client : flight[d][e] \in {"sent", "reading"}
          BY <1>18, <2>1, <3>2 DEF PoolInvariant, ProbesReturn
      <4> QED
          BY <1>16, <1>17, <3>2, <4>1
    <3> QED
        BY <3>1, <3>2
  <2> QED
      BY <2>1 DEF ProbesReturn
<1>21. FlightsAreAsked'
  <2>1. \A d \in Client, e \in Endpoint : flight'[d][e] # "idle" => task'[d].query \in Query
      BY <1>13, <1>15, <1>16 DEF PoolInvariant, FlightsAreAsked
  <2>2. \A d \in Client, e \in Endpoint : flight'[d][e] \in {"sent", "reading"} => admission'[e] = "admitted"
      BY <1>16, <1>17 DEF PoolInvariant, FlightsAreAsked
  <2> QED
      BY <2>1, <2>2 DEF FlightsAreAsked
<1>22. \A d \in Client : Kept(d, task[d])'
  <2>1. Kept(c, u)
      BY <1>8, <1>13, NoTaskIsATask DEF Kept
  <2>2. \A d \in Client \ {c} : Kept(d, task'[d])
      BY <1>15 DEF PoolInvariant
  <2> QED
      BY <1>15, <2>1, <2>2 DEF Kept
<1> QED
    BY <1>13, <1>15, <1>19, <1>20, <1>21, <1>22 DEF PoolInvariant

-----------------------------------------------------------------------------
(* The steps of a request.  Each keeps the invariant, and fails no request   *)
(* that has an answer.                                                       *)

LEMMA OrderIsAQueue ==
  ASSUME PoolInvariant, NEW c \in Client, NEW q, NEW order \in Ordered(c, q)
  PROVE  order \in Seq(Endpoint)
<1>1. ASSUME NEW S \in SUBSET Endpoint, NEW s \in Rank(S) PROVE s \in Seq(Endpoint)
  <2>1. Cardinality(S) \in Nat
      BY PoolAssumption, PartHasFewer
  <2>2. s \in [1..Cardinality(S) -> S]
      BY DEF Rank
  <2> QED
      BY <2>1, <2>2
<1>2. Eligible(q) \in SUBSET Endpoint /\ Eligible(q) \ {pin[c]} \in SUBSET Endpoint
    BY DEF Eligible
<1>3. CASE c \in Session /\ pin[c] # None
  <2>1. PICK s \in Rank(Eligible(q) \ {pin[c]}) : order = <<pin[c]>> \o s
      BY <1>3 DEF Ordered
  <2>2. s \in Seq(Endpoint) /\ pin[c] \in Endpoint
      BY <1>1, <1>2, <1>3 DEF PoolInvariant, Typed, TypeOK
  <2> QED
      BY <2>1, <2>2
<1>4. CASE ~(c \in Session /\ pin[c] # None)
    BY <1>1, <1>2, <1>4 DEF Ordered
<1> QED
    BY <1>3, <1>4

LEMMA AskStep ==
  ASSUME PoolInvariant, NEW c \in Client, NEW q \in Query, Ask(c, q)
  PROVE  PoolInvariant' /\ FailsOnlyUnanswered
<1>1. PICK order \in Ordered(c, q) :
        LET broadcast == q.method = "sendRaw" /\ c \notin Session
            queue     == IF broadcast THEN SubSeq(order, 1, Smaller(Fanout, Len(order))) ELSE order
        IN  StartWave(c, [NoTask EXCEPT !.query = q, !.queue = queue,
                                        !.order = IF broadcast THEN queue ELSE <<>>])
    BY DEF Ask
<1>2. PICK queue : queue = IF q.method = "sendRaw" /\ c \notin Session
                           THEN SubSeq(order, 1, Smaller(Fanout, Len(order))) ELSE order
    OBVIOUS
<1>3. order \in Seq(Endpoint) /\ Len(order) \in Nat
    BY OrderIsAQueue
<1>4. queue \in Seq(Endpoint)
  <2>1. Fanout \in Nat
      BY PoolAssumption
  <2>2. Smaller(Fanout, Len(order)) \in Nat /\ Smaller(Fanout, Len(order)) <= Len(order)
      BY <1>3, <2>1, SmallerBounded
  <2> QED
      BY <1>2, <1>3, <2>2
<1>11. PICK ranked : ranked = IF q.method = "sendRaw" /\ c \notin Session THEN queue ELSE <<>>
    OBVIOUS
<1>5. PICK t : t = [NoTask EXCEPT !.query = q, !.queue = queue, !.order = ranked]
    OBVIOUS
<1>12. ranked \in Seq(Endpoint)
    BY <1>4, <1>11
<1>6. t \in Task /\ t.query = q /\ t.answers = NoTask.answers
    BY <1>4, <1>5, <1>12, NoTaskIsATask DEF Task
<1>7. Kept(c, t)
    BY <1>6, NoTaskIsATask DEF Kept
<1>8. StartWave(c, t)
    BY <1>1, <1>2, <1>5, <1>11
<1>9. ~Running(c) /\ PoolInvariant' /\ \A d \in Client \ {c} : task'[d] = task[d]
    BY <1>6, <1>7, <1>8, StartWaveStep DEF Ask, Free
<1> QED
    BY <1>9 DEF FailsOnlyUnanswered, Running

\* A request of one client that changes nothing but its own task.
LEMMA TaskStep ==
  ASSUME PoolInvariant, NEW c \in Client, NEW t \in Task, task' = [task EXCEPT ![c] = t],
         t.query \in Query, Kept(c, t), UNCHANGED <<health, admission, flight, pin>>
  PROVE  PoolInvariant' /\ task'[c] = t /\ \A d \in Client \ {c} : task'[d] = task[d]
<1>1. /\ task' \in [Client -> Task] /\ task'[c] = t
      /\ \A d \in Client \ {c} : task'[d] = task[d]
    BY DEF PoolInvariant, Typed
<1>2. Typed'
    BY <1>1 DEF PoolInvariant, Typed, TypeOK, Task
<1>3. ProbesReturn'
    BY DEF PoolInvariant, ProbesReturn
<1>4. FlightsAreAsked'
    BY <1>1 DEF PoolInvariant, FlightsAreAsked
<1>5. \A d \in Client : Kept(d, task[d])'
    BY <1>1 DEF PoolInvariant, Kept
<1> QED
    BY <1>1, <1>2, <1>3, <1>4, <1>5 DEF PoolInvariant

LEMMA RefusedStep ==
  ASSUME PoolInvariant, NEW c \in Client, NEW q \in Query, Refused(c, q)
  PROVE  PoolInvariant' /\ FailsOnlyUnanswered
<1>1. PICK t : t = [NoTask EXCEPT !.query = q, !.result = "error"]
    OBVIOUS
<1>2. t \in Task /\ t.query = q /\ t.answers = NoTask.answers
    BY <1>1, NoTaskIsATask DEF Task
<1>3. Kept(c, t)
    BY <1>2, NoTaskIsATask DEF Kept
<1>4. ~Running(c) /\ task' = [task EXCEPT ![c] = t] /\ UNCHANGED <<health, admission, flight, pin>>
    BY <1>1 DEF Refused, Free
<1>5. PoolInvariant' /\ \A d \in Client \ {c} : task'[d] = task[d]
    BY <1>2, <1>3, <1>4, TaskStep
<1> QED
    BY <1>4, <1>5 DEF FailsOnlyUnanswered, Running

LEMMA SettledIsATask ==
  ASSUME NEW t \in Task, NEW result \in {"ok", "error"}
  PROVE  /\ Settled(t, result) \in Task /\ Settled(t, result).query = t.query
         /\ Settled(t, result).result = result
         /\ \A c \in Client : Kept(c, Settled(t, result))
<1>1. PICK s : s = Settled(t, result)
    OBVIOUS
<1>2. s \in Task /\ s.query = t.query /\ s.result = result /\ s.answers = NoTask.answers
    BY <1>1, NoTaskIsATask DEF Settled, Task
<1>3. \A c \in Client : Kept(c, s)
    BY <1>2, NoTaskIsATask DEF Kept
<1> QED
    BY <1>1, <1>2, <1>3

\* An exhausted request fails when none of its endpoints has answered it.
LEMMA ExhaustedUnanswered ==
  ASSUME NEW c \in Client, NEW t \in Task, t.query \in Query, Kept(c, t), Exhausted(t) = "error"
  PROVE  \/ Garbled(t)
         \/ /\ Answered(t, "ok") = {}
            /\ t.query.method = "sendRaw" => Answered(t, "alreadyKnown") = {}
<1>1. CASE t.query.method = "blockNumber"
    BY <1>1 DEF Exhausted
<1>2. CASE t.query.method = "sendRaw"
    BY <1>2 DEF Exhausted
<1>3. CASE t.query.method \notin {"blockNumber", "sendRaw"}
    BY <1>3 DEF Kept, Collects, Answered
<1> QED
    BY <1>1, <1>2, <1>3

LEMMA NextWaveStep ==
  ASSUME PoolInvariant, NEW c \in Client, NextWave(c)
  PROVE  PoolInvariant' /\ FailsOnlyUnanswered
<1>1. PICK t : t = task[c]
    OBVIOUS
<1>2. /\ t \in Task /\ t.query \in Query /\ Kept(c, t) /\ t.result = "none"
    BY <1>1 DEF PoolInvariant, Typed, TypeOK, NextWave, Running, Task
<1>3. CASE StartWave(c, t)
  <2>1. /\ PoolInvariant' /\ task'[c].result = "none"
        /\ \A d \in Client \ {c} : task'[d] = task[d]
      BY <1>2, <1>3, StartWaveStep
  <2> QED
      BY <2>1 DEF FailsOnlyUnanswered, Running
<1>4. CASE /\ task' = [task EXCEPT ![c] = Settled(t, Exhausted(t))]
           /\ UNCHANGED <<health, admission, flight, pin, scene>>
  <2>1. PICK result : result = Exhausted(t)
      OBVIOUS
  <2>2. result \in {"ok", "error"}
      BY <2>1 DEF Exhausted
  <2>3. PICK s : s = Settled(t, result)
      OBVIOUS
  <2>4. s \in Task /\ s.query = t.query /\ s.result = result /\ Kept(c, s)
      BY <1>2, <2>2, <2>3, SettledIsATask
  <2>5. PoolInvariant' /\ task'[c] = s /\ \A d \in Client \ {c} : task'[d] = task[d]
      BY <1>2, <1>4, <2>1, <2>3, <2>4, TaskStep
  <2>6. result = "error" => \/ Garbled(t)
                            \/ /\ Answered(t, "ok") = {}
                               /\ t.query.method = "sendRaw" => Answered(t, "alreadyKnown") = {}
      BY <1>2, <2>1, ExhaustedUnanswered
  <2> QED
      BY <1>1, <2>4, <2>5, <2>6 DEF FailsOnlyUnanswered, Running
<1> QED
    BY <1>1, <1>3, <1>4 DEF NextWave

-----------------------------------------------------------------------------
(* The steps of an endpoint: what it answers takes its probe back.           *)

LEMMA AdmissionStep ==
  ASSUME PoolInvariant, NEW e \in Endpoint, Admission(e)
  PROVE  PoolInvariant' /\ FailsOnlyUnanswered
<1>1. PICK class \in Endings(admission[e], "chainId"), wait \in RetryAfter :
        LET admitted == class = "ok" /\ e \in scene.chain
            asked(c) == flight[c][e] = "waiting"
        IN  /\ health' = [health EXCEPT ![e] =
                  IF class = "ok" THEN Admit(RecordSuccess(health[e]), e)
                  ELSE RecordFailure(health[e], class, wait)]
            /\ admission' = [admission EXCEPT ![e] = IF admitted THEN "admitted" ELSE "none"]
            /\ flight' = [c \in Client |-> [flight[c] EXCEPT ![e] =
                  IF ~asked(c) THEN flight[c][e] ELSE IF admitted THEN "sent" ELSE "idle"]]
            /\ task' = [c \in Client |->
                  IF asked(c) /\ ~admitted /\ e \in task[c].wave
                  THEN [task[c] EXCEPT !.wave = task[c].wave \ {e}, !.answers[e] = Failed] ELSE task[c]]
    BY DEF Admission
<1>2. PICK admitted : admitted = (class = "ok" /\ e \in scene.chain)
    OBVIOUS
<1>3. /\ health \in [Endpoint -> Health] /\ task \in [Client -> Task]
      /\ admission \in [Endpoint -> {"none", "asking", "reading", "admitted"}]
      /\ flight \in [Client -> [Endpoint -> {"idle", "waiting", "sent", "reading"}]]
      /\ pin \in [Client -> Endpoint \union {None}]
    BY DEF PoolInvariant, Typed, TypeOK
<1>4. PICK h : h = IF class = "ok" THEN Admit(RecordSuccess(health[e]), e)
                   ELSE RecordFailure(health[e], class, wait)
    OBVIOUS
<1>5. h \in Health /\ ~h.probing
  <2>1. class \in Classes
      BY AnswersAreClassified DEF Methods, Endings, Classes
  <2>2. CASE class = "ok"
    <3>1. PICK g : g = RecordSuccess(health[e])
        OBVIOUS
    <3>2. g \in Health /\ ~g.probing
        BY <1>3, <3>1, SuccessRecorded
    <3>3. h = [g EXCEPT !.quarantined = g.quarantined \/ e \notin scene.chain]
        BY <1>4, <2>2, <3>1 DEF Admit
    <3> QED
        BY <3>2, <3>3 DEF Health
  <2>3. CASE class # "ok"
    <3>1. class # "malformed"
        BY ChainIdsParse DEF Endings
    <3> QED
        BY <1>3, <1>4, <2>1, <2>3, <3>1, FailureRecorded
  <2> QED
      BY <2>2, <2>3
<1>6. /\ health' \in [Endpoint -> Health] /\ health'[e] = h
      /\ \A d \in Endpoint \ {e} : health'[d] = health[d]
    BY <1>1, <1>3, <1>4, <1>5
<1>7. /\ admission' \in [Endpoint -> {"none", "asking", "reading", "admitted"}]
      /\ admitted => admission'[e] = "admitted"
      /\ \A d \in Endpoint \ {e} : admission'[d] = admission[d]
    BY <1>1, <1>2, <1>3
<1>8. /\ flight' \in [Client -> [Endpoint -> {"idle", "waiting", "sent", "reading"}]]
      /\ \A c \in Client, d \in Endpoint \ {e} : flight'[c][d] = flight[c][d]
      /\ \A c \in Client : flight'[c][e] = IF flight[c][e] # "waiting" THEN flight[c][e]
                                           ELSE IF admitted THEN "sent" ELSE "idle"
    BY <1>1, <1>2, <1>3
<1>9. \A c \in Client : flight[c][e] \notin {"sent", "reading"}
    BY DEF PoolInvariant, FlightsAreAsked, Admission
<1>10. ASSUME NEW c \in Client
       PROVE  /\ task'[c] \in Task /\ task'[c].query = task[c].query /\ task'[c].result = task[c].result
              /\ \A d \in Endpoint : \/ task'[c].answers[d] = task[c].answers[d]
                                     \/ task'[c].answers[d] = Failed
  <2>1. task[c] \in Task
      BY <1>3
  <2>2. CASE task'[c] = task[c]
      BY <2>1, <2>2
  <2>3. CASE task'[c] = [task[c] EXCEPT !.wave = task[c].wave \ {e}, !.answers[e] = Failed]
    <3>1. PICK answers : answers = [task[c].answers EXCEPT ![e] = Failed]
        OBVIOUS
    <3>2. task'[c] = [task[c] EXCEPT !.wave = task[c].wave \ {e}, !.answers = answers]
        BY <2>3, <3>1
    <3>3. answers \in [Endpoint -> Outcome]
        BY <2>1, <3>1, NoTaskIsATask DEF Task
    <3>4. /\ task'[c] \in Task /\ task'[c].query = task[c].query /\ task'[c].result = task[c].result
          /\ task'[c].answers = answers
        BY <2>1, <3>2, <3>3 DEF Task
    <3> QED
        BY <2>1, <3>1, <3>4 DEF Task
  <2>4. \/ task'[c] = task[c]
        \/ task'[c] = [task[c] EXCEPT !.wave = task[c].wave \ {e}, !.answers[e] = Failed]
      BY <1>1
  <2> QED
      BY <2>2, <2>3, <2>4
<1>11. task' \in [Client -> Task]
  <2>1. task' = [c \in Client |-> task'[c]]
      BY <1>1
  <2> QED
      BY <1>10, <2>1
<1>12. Typed'
    BY <1>3, <1>6, <1>7, <1>8, <1>11 DEF Typed, TypeOK, Task, Admission
<1>13. ProbesReturn'
  <2>1. ASSUME NEW d \in Endpoint, health'[d].probing
        PROVE  admission'[d] \in {"asking", "reading"} \/ \E c \in Client : flight'[c][d] \in {"sent", "reading"}
    <3>1. d # e /\ health[d].probing
        BY <1>5, <1>6, <2>1
    <3>2. admission[d] \in {"asking", "reading"} \/ \E c \in Client : flight[c][d] \in {"sent", "reading"}
        BY <3>1 DEF PoolInvariant, ProbesReturn
    <3> QED
        BY <1>7, <1>8, <3>1, <3>2
  <2> QED
      BY <2>1 DEF ProbesReturn
<1>14. FlightsAreAsked'
  <2>1. ASSUME NEW c \in Client, NEW d \in Endpoint
        PROVE  /\ flight'[c][d] # "idle" => task'[c].query \in Query
               /\ flight'[c][d] \in {"sent", "reading"} => admission'[d] = "admitted"
    <3>1. /\ flight[c][d] # "idle" => task[c].query \in Query
          /\ flight[c][d] \in {"sent", "reading"} => admission[d] = "admitted"
        BY DEF PoolInvariant, FlightsAreAsked
    <3>2. CASE d = e
        BY <1>7, <1>8, <1>9, <1>10, <3>1, <3>2
    <3>3. CASE d # e
        BY <1>7, <1>8, <1>10, <3>1, <3>3
    <3> QED
        BY <3>2, <3>3
  <2> QED
      BY <2>1 DEF FlightsAreAsked
<1>15. \A c \in Client : Kept(c, task[c])'
    BY <1>10, NoTaskIsATask DEF PoolInvariant, Kept
<1>16. FailsOnlyUnanswered
    BY <1>10 DEF FailsOnlyUnanswered, Running
<1> QED
    BY <1>12, <1>13, <1>14, <1>15, <1>16 DEF PoolInvariant

LEMMA AnswerStep ==
  ASSUME PoolInvariant, NEW c \in Client, NEW e \in Endpoint, Answer(c, e)
  PROVE  PoolInvariant' /\ FailsOnlyUnanswered
<1>0. PICK class \in Endings(flight[c][e], task[c].query.method), height \in Height, wait \in RetryAfter :
        LET t       == task[c]
            answer  == IF class \in {"ok", "malformed", "alreadyKnown"}
                       THEN [class |-> class, height |-> height] ELSE Failed
            decides == ~(Collects(t.query) /\ c \notin Session)
                       /\ class \in Terminal \union {"ok", "malformed", "alreadyKnown"}
            result  == IF class = "ok" \/ (class = "alreadyKnown" /\ t.query.method = "sendRaw")
                       THEN "ok" ELSE "error"
        IN  /\ height = 0 \/ (class = "ok" /\ t.query.method = "blockNumber")
            /\ class = "rateLimited" \/ wait = 0
            /\ health' = [health EXCEPT ![e] = Recorded(@, t.query, class, height, wait)]
            /\ flight' = [flight EXCEPT ![c][e] = "idle"]
            /\ IF e \notin t.wave THEN UNCHANGED <<task, pin>>
               ELSE /\ task' = [task EXCEPT ![c] =
                          IF decides THEN Settled(t, result)
                          ELSE [t EXCEPT !.answers[e] = answer, !.wave = @ \ {e}]]
                    /\ pin' = IF c \in Session /\ class \in {"ok", "malformed"} THEN [pin EXCEPT ![c] = e] ELSE pin
    BY Zenon DEF Answer
<1>1. PICK t : t = task[c]
    OBVIOUS
<1>2. LET answer  == IF class \in {"ok", "malformed", "alreadyKnown"}
                     THEN [class |-> class, height |-> height] ELSE Failed
          decides == ~(Collects(t.query) /\ c \notin Session)
                     /\ class \in Terminal \union {"ok", "malformed", "alreadyKnown"}
          result  == IF class = "ok" \/ (class = "alreadyKnown" /\ t.query.method = "sendRaw")
                     THEN "ok" ELSE "error"
      IN  /\ health' = [health EXCEPT ![e] = Recorded(health[e], t.query, class, height, wait)]
          /\ flight' = [flight EXCEPT ![c][e] = "idle"]
          /\ IF e \notin t.wave THEN UNCHANGED <<task, pin>>
             ELSE /\ task' = [task EXCEPT ![c] =
                        IF decides THEN Settled(t, result)
                        ELSE [t EXCEPT !.answers[e] = answer, !.wave = t.wave \ {e}]]
                  /\ pin' = IF c \in Session /\ class \in {"ok", "malformed"} THEN [pin EXCEPT ![c] = e] ELSE pin
    BY <1>0, <1>1
<1>3. /\ health \in [Endpoint -> Health] /\ task \in [Client -> Task]
      /\ admission \in [Endpoint -> {"none", "asking", "reading", "admitted"}]
      /\ flight \in [Client -> [Endpoint -> {"idle", "waiting", "sent", "reading"}]]
      /\ pin \in [Client -> Endpoint \union {None}]
      /\ t \in Task /\ Kept(c, t)
    BY <1>1 DEF PoolInvariant, Typed, TypeOK
<1>4. t.query \in Query
    BY <1>1 DEF PoolInvariant, FlightsAreAsked, Answer
<1>5. class \in Classes
    BY <1>1, <1>4, AnswersAreClassified DEF Endings, Classes
<1>6. /\ health' \in [Endpoint -> Health] /\ ~health'[e].probing
      /\ \A d \in Endpoint \ {e} : health'[d] = health[d]
    BY <1>2, <1>3, <1>4, <1>5, AnswerRecorded
<1>7. /\ flight' \in [Client -> [Endpoint -> {"idle", "waiting", "sent", "reading"}]]
      /\ \A d \in Client, f \in Endpoint : flight'[d][f] = flight[d][f] \/ (f = e /\ flight'[d][f] = "idle")
    BY <1>2, <1>3
<1>8. pin' \in [Client -> Endpoint \union {None}]
    BY <1>2, <1>3
<1>9. PICK answer : answer = IF class \in {"ok", "malformed", "alreadyKnown"}
                             THEN [class |-> class, height |-> height] ELSE Failed
    OBVIOUS
<1>10. answer \in Outcome /\ (answer.class \in {"ok", "malformed", "alreadyKnown"} => class \in {"ok", "malformed", "alreadyKnown"})
    BY <1>9, NoTaskIsATask DEF Outcome
<1>11. \E u \in Task : /\ task' = [task EXCEPT ![c] = u] /\ u.query = t.query /\ Kept(c, u)
                       /\ t.result = "none" /\ u.result = "error" =>
                            /\ Answered(t, "ok") = {}
                            /\ t.query.method = "sendRaw" => Answered(t, "alreadyKnown") = {}
  <2>1. CASE e \notin t.wave
      BY <1>1, <1>2, <1>3, <2>1
  <2>2. CASE /\ e \in t.wave /\ ~(Collects(t.query) /\ c \notin Session)
             /\ class \in Terminal \union {"ok", "malformed", "alreadyKnown"}
    <3>1. PICK result : result = IF class = "ok" \/ (class = "alreadyKnown" /\ t.query.method = "sendRaw")
                                 THEN "ok" ELSE "error"
        OBVIOUS
    <3>2. PICK u : u = Settled(t, result)
        OBVIOUS
    <3>3. u \in Task /\ u.query = t.query /\ Kept(c, u)
        BY <1>3, <3>1, <3>2, SettledIsATask
    <3>4. task' = [task EXCEPT ![c] = u]
        BY <1>2, <2>2, <3>1, <3>2
    <3>5. Answered(t, "ok") = {} /\ Answered(t, "alreadyKnown") = {}
        BY <1>3, <2>2 DEF Kept, Answered
    <3> QED
        BY <3>3, <3>4, <3>5
  <2>3. CASE /\ e \in t.wave
             /\ \/ Collects(t.query) /\ c \notin Session
                \/ class \notin Terminal \union {"ok", "malformed", "alreadyKnown"}
    <3>1. PICK answers : answers = [t.answers EXCEPT ![e] = answer]
        OBVIOUS
    <3>2. PICK u : u = [t EXCEPT !.answers = answers, !.wave = t.wave \ {e}]
        OBVIOUS
    <3>3. answers \in [Endpoint -> Outcome] /\ t.answers \in [Endpoint -> Outcome]
        BY <1>3, <1>10, <3>1 DEF Task
    <3>4. u \in Task /\ u.query = t.query /\ u.answers = answers /\ u.result = t.result
        BY <1>3, <3>2, <3>3 DEF Task
    <3>5. task' = [task EXCEPT ![c] = u]
        BY <1>2, <1>9, <2>3, <3>1, <3>2
    <3>6. Kept(c, u)
        BY <1>3, <1>10, <2>3, <3>1, <3>3, <3>4 DEF Kept
    <3> QED
        BY <3>4, <3>5, <3>6
  <2> QED
      BY <2>1, <2>2, <2>3
<1>12. PICK u \in Task : /\ task' = [task EXCEPT ![c] = u] /\ u.query = t.query /\ Kept(c, u)
                         /\ t.result = "none" /\ u.result = "error" =>
                              /\ Answered(t, "ok") = {}
                              /\ t.query.method = "sendRaw" => Answered(t, "alreadyKnown") = {}
    BY <1>11
<1>13. task' \in [Client -> Task] /\ task'[c] = u /\ \A d \in Client \ {c} : task'[d] = task[d]
    BY <1>3, <1>12
<1>14. UNCHANGED <<admission, scene>>
    BY DEF Answer
<1>15. Typed'
    BY <1>3, <1>6, <1>7, <1>8, <1>13, <1>14 DEF Typed, TypeOK, Task
<1>16. ProbesReturn'
  <2>1. ASSUME NEW d \in Endpoint, health'[d].probing
        PROVE  admission'[d] \in {"asking", "reading"} \/ \E b \in Client : flight'[b][d] \in {"sent", "reading"}
    <3>1. d # e /\ health[d].probing
        BY <1>6, <2>1
    <3>2. admission[d] \in {"asking", "reading"} \/ \E b \in Client : flight[b][d] \in {"sent", "reading"}
        BY <3>1 DEF PoolInvariant, ProbesReturn
    <3> QED
        BY <1>7, <1>14, <3>1, <3>2
  <2> QED
      BY <2>1 DEF ProbesReturn
<1>17. FlightsAreAsked'
  <2>1. \A d \in Client : task'[d].query = task[d].query
      BY <1>1, <1>12, <1>13
  <2> QED
      BY <1>7, <1>14, <2>1 DEF PoolInvariant, FlightsAreAsked
<1>18. \A d \in Client : Kept(d, task[d])'
    BY <1>12, <1>13 DEF PoolInvariant, Kept
<1>19. FailsOnlyUnanswered
    BY <1>1, <1>12, <1>13 DEF FailsOnlyUnanswered, Running
<1> QED
    BY <1>15, <1>16, <1>17, <1>18, <1>19 DEF PoolInvariant

\* The headers of an answer change what is waited for, and nothing else.
LEMMA HeadersStep ==
  ASSUME PoolInvariant, NEW c \in Client, NEW e \in Endpoint, Headers(c, e)
  PROVE  PoolInvariant' /\ FailsOnlyUnanswered
<1>1. /\ flight[c][e] = "sent" /\ flight' = [flight EXCEPT ![c][e] = "reading"]
      /\ UNCHANGED <<health, admission, task, pin, scene>>
    BY DEF Headers
<1>2. /\ flight' \in [Client -> [Endpoint -> {"idle", "waiting", "sent", "reading"}]]
      /\ \A d \in Client, f \in Endpoint :
            flight'[d][f] = IF d = c /\ f = e THEN "reading" ELSE flight[d][f]
    BY <1>1 DEF PoolInvariant, Typed, TypeOK
<1>3. Typed'
    BY <1>1, <1>2 DEF PoolInvariant, Typed, TypeOK
<1>4. ProbesReturn'
    BY <1>1, <1>2 DEF PoolInvariant, ProbesReturn
<1>5. FlightsAreAsked'
    BY <1>1, <1>2 DEF PoolInvariant, FlightsAreAsked
<1>6. \A d \in Client : Kept(d, task[d])'
    BY <1>1 DEF PoolInvariant, Kept
<1>7. FailsOnlyUnanswered
    BY <1>1 DEF FailsOnlyUnanswered, Running
<1> QED
    BY <1>3, <1>4, <1>5, <1>6, <1>7 DEF PoolInvariant

LEMMA AdmissionHeadersStep ==
  ASSUME PoolInvariant, NEW e \in Endpoint, AdmissionHeaders(e)
  PROVE  PoolInvariant' /\ FailsOnlyUnanswered
<1>1. /\ admission[e] = "asking" /\ admission' = [admission EXCEPT ![e] = "reading"]
      /\ UNCHANGED <<health, flight, task, pin, scene>>
    BY DEF AdmissionHeaders
<1>2. /\ admission' \in [Endpoint -> {"none", "asking", "reading", "admitted"}]
      /\ \A f \in Endpoint : admission'[f] = IF f = e THEN "reading" ELSE admission[f]
    BY <1>1 DEF PoolInvariant, Typed, TypeOK
<1>3. Typed'
    BY <1>1, <1>2 DEF PoolInvariant, Typed, TypeOK
<1>4. ProbesReturn'
    BY <1>1, <1>2 DEF PoolInvariant, ProbesReturn
<1>5. FlightsAreAsked'
    BY <1>1, <1>2 DEF PoolInvariant, FlightsAreAsked
<1>6. \A d \in Client : Kept(d, task[d])'
    BY <1>1 DEF PoolInvariant, Kept
<1>7. FailsOnlyUnanswered
    BY <1>1 DEF FailsOnlyUnanswered, Running
<1> QED
    BY <1>3, <1>4, <1>5, <1>6, <1>7 DEF PoolInvariant

LEMMA TickStep ==
  ASSUME PoolInvariant, Tick
  PROVE  PoolInvariant' /\ FailsOnlyUnanswered
<1>1. /\ health' = [e \in Endpoint |-> [health[e] EXCEPT
                       !.cooldown = IF health[e].cooldown > 0 THEN health[e].cooldown - 1 ELSE 0]]
      /\ UNCHANGED <<admission, flight, task, pin, scene>>
    BY DEF Tick
<1>2. \A e \in Endpoint : health'[e] \in Health /\ health'[e].probing = health[e].probing
  <2>1. ASSUME NEW h \in Health
        PROVE  LET g == [h EXCEPT !.cooldown = IF h.cooldown > 0 THEN h.cooldown - 1 ELSE 0]
               IN  g \in Health /\ g.probing = h.probing
    <3>1. (IF h.cooldown > 0 THEN h.cooldown - 1 ELSE 0) \in 0..MaxCooldown
        BY CircuitBounds DEF Health
    <3> QED
        BY <3>1 DEF Health
  <2>2. \A e \in Endpoint : health[e] \in Health
      BY DEF PoolInvariant, Typed, TypeOK
  <2> QED
      BY <1>1, <2>1, <2>2
<1>3. health' \in [Endpoint -> Health]
  <2>1. health' = [e \in Endpoint |-> health'[e]]
      BY <1>1
  <2> QED
      BY <1>2, <2>1
<1>4. Typed'
    BY <1>1, <1>3 DEF PoolInvariant, Typed, TypeOK
<1>5. ProbesReturn' /\ FlightsAreAsked' /\ \A c \in Client : Kept(c, task[c])'
    BY <1>1, <1>2 DEF PoolInvariant, ProbesReturn, FlightsAreAsked, Kept
<1>6. FailsOnlyUnanswered
    BY <1>1 DEF FailsOnlyUnanswered, Running
<1> QED
    BY <1>4, <1>5, <1>6 DEF PoolInvariant

-----------------------------------------------------------------------------
(* The theorems.                                                            *)

LEMMA InitIsSound == Init => PoolInvariant
<1> SUFFICES ASSUME Init PROVE PoolInvariant
    OBVIOUS
<1>1. /\ health = [e \in Endpoint |-> Fresh] /\ admission = [e \in Endpoint |-> "none"]
      /\ flight = [c \in Client |-> [e \in Endpoint |-> "idle"]]
      /\ task = [c \in Client |-> NoTask] /\ pin = [c \in Client |-> None]
    BY DEF Init
<1>2. Fresh \in Health /\ ~Fresh.probing
  <2>1. 0 \in 0..FailuresToOpen /\ 0 \in 0..MaxCooldown /\ 0 \in 0..MaxOpens
      BY CircuitBounds
  <2> QED
      BY <2>1 DEF Fresh, Health
<1>3. NoTask.query = None /\ \A e \in Endpoint : NoTask.answers[e].class = "none"
    BY NoTaskIsATask DEF NoTask
<1>4. Typed
    BY <1>1, <1>2, NoTaskIsATask DEF Typed, TypeOK, Task
<1>5. ProbesReturn /\ FlightsAreAsked /\ \A c \in Client : Kept(c, task[c])
    BY <1>1, <1>2, <1>3 DEF ProbesReturn, FlightsAreAsked, Kept
<1> QED
    BY <1>4, <1>5 DEF PoolInvariant

LEMMA PoolStep ==
  PoolInvariant /\ [Next]_vars => PoolInvariant' /\ [FailsOnlyUnanswered]_vars
<1> SUFFICES ASSUME PoolInvariant, [Next]_vars
             PROVE  PoolInvariant' /\ [FailsOnlyUnanswered]_vars
    OBVIOUS
<1>1. CASE UNCHANGED vars
    BY <1>1 DEF vars, PoolInvariant, Typed, TypeOK, ProbesReturn, FlightsAreAsked, Kept
<1>2. CASE Next
    BY <1>2, AskStep, RefusedStep, NextWaveStep, AdmissionStep, AnswerStep, HeadersStep,
       AdmissionHeadersStep, TickStep DEF Next
<1> QED
    BY <1>1, <1>2

LEMMA PoolInvariance == Spec => []PoolInvariant
<1>1. Init => PoolInvariant
    BY InitIsSound
<1>2. PoolInvariant /\ [Next]_vars => PoolInvariant'
    BY PoolStep
<1> QED
    BY <1>1, <1>2, PTL DEF Spec

\* A half-open circuit always has its probe on the way: whatever older requests,
\* shared admissions and refusals pass between, no endpoint is lost to a probe that
\* nobody answers (beginProbe, invoke, ensureAdmitted).
THEOREM ProbesStayAlive == Spec => []ProbeIsAlive
<1>1. PoolInvariant => ProbeIsAlive
    BY DEF PoolInvariant, Typed, ProbesReturn, ProbeIsAlive
<1> QED
    BY <1>1, PoolInvariance, PTL

\* The height that blockNumber reports has more than half of the answers at or above
\* it, and at least half at or below, however many came back and whatever they say.
THEOREM HeightsAreVouched == Spec => []HeightIsVouched
<1>1. PoolInvariant => HeightIsVouched
  <2> SUFFICES ASSUME PoolInvariant, NEW c \in Client \ Session, Answered(task[c], "ok") # {}
               PROVE  LET got == Answered(task[c], "ok")
                          h   == Median(task[c].answers, got)
                      IN  /\ 2 * Cardinality({e \in got : task[c].answers[e].height >= h}) > Cardinality(got)
                          /\ 2 * Cardinality({e \in got : task[c].answers[e].height <= h}) >= Cardinality(got)
      BY DEF HeightIsVouched
  <2>1. PICK got : got = Answered(task[c], "ok")
      OBVIOUS
  <2>2. PICK answers : answers = task[c].answers
      OBVIOUS
  <2>3. answers \in [Endpoint -> Outcome] /\ got \in SUBSET Endpoint /\ got # {}
      BY <2>1, <2>2 DEF PoolInvariant, Typed, TypeOK, Answered
  <2>4. PICK h : h = Median(answers, got)
      OBVIOUS
  <2>5. /\ 2 * Cardinality({e \in got : answers[e].height >= h}) > Cardinality(got)
        /\ 2 * Cardinality({e \in got : answers[e].height <= h}) >= Cardinality(got)
      BY <2>3, <2>4, MedianIsVouched
  <2> QED
      BY <2>1, <2>2, <2>4, <2>5
<1> QED
    BY <1>1, PoolInvariance, PTL

\* No caller is told of a failure when an endpoint has answered its request, or has
\* taken its transaction or knew it already, but for the broadcast whose best ranked
\* acceptance is no hash (request, broadcast, the session's request).
THEOREM AnswersAreKept == Spec => AnswersAreNotLost
<1>1. PoolInvariant /\ [Next]_vars => [FailsOnlyUnanswered]_vars
    BY PoolStep
<1> QED
    BY <1>1, PoolInvariance, PTL DEF Spec, AnswersAreNotLost
=============================================================================
