---------------------------- MODULE RagPipelineProofs ----------------------------
(***************************************************************************)
(* What a diagnosis may waive, what severity it hands out and what its     *)
(* trace says, for any set of requests, alerts, fingerprints, evidence and *)
(* confidences; that the classifier is monotone, over every alert; and     *)
(* that the queue its model calls wait in keeps slots and turns.           *)
(***************************************************************************)
EXTENDS RagPipeline, ThrottledLLM, FiniteSetTheorems, SequenceTheorems, TLAPS

(* The classifier *)

\* The classification without keyword and certificate.
ScoreLevel(a) == IF a.induced THEN Elevated(Level(Score(a))) ELSE Level(Score(a))

\* A keyword decides; otherwise the graver of the certificate and the score.
LEMMA ClassifyIs ==
  \A a \in Alerts : Classify(a) = IF a.critical THEN 1
                                  ELSE Gravest(CertificateFloor(a.hours), ScoreLevel(a))
BY DEF Classify, ScoreLevel

\* The part of the score that does not depend on the tier.
Plain(a) == 60 * a.blast + (IF a.induced THEN 60 ELSE 180)

\* The score, linear in what remains once the tier is known.
LEMMA ScoreIs ==
  ASSUME NEW a \in Alerts
  PROVE  /\ Plain(a) \in Nat /\ Score(a) \in Nat
         /\ a.tier = 1 => Score(a) = 750 + 45 * a.deviation + Plain(a)
         /\ a.tier = 2 => Score(a) = 500 + 30 * a.deviation + Plain(a)
         /\ a.tier = 3 => Score(a) = 250 + 15 * a.deviation + Plain(a)
         /\ a.tier = 4 => Score(a) = Plain(a)
<1>0. a.tier \in 1..4 /\ a.blast \in 0..10 /\ a.deviation \in 0..10
  BY DEF Alerts
<1>1. CASE a.tier = 1
  BY <1>0, <1>1 DEF Score, Plain
<1>2. CASE a.tier = 2
  BY <1>0, <1>2 DEF Score, Plain
<1>3. CASE a.tier = 3
  BY <1>0, <1>3 DEF Score, Plain
<1>4. CASE a.tier = 4
  BY <1>0, <1>4 DEF Score, Plain
<1> QED BY <1>0, <1>1, <1>2, <1>3, <1>4

\* The score grows with the blast, the deviation and the tier.
LEMMA ScoreGrows ==
  ASSUME NEW a \in Alerts, NEW c \in Alerts, c.induced = a.induced,
         \/ c.tier = a.tier /\ c.blast >= a.blast /\ c.deviation >= a.deviation
         \/ c.tier = a.tier - 1 /\ c.blast = a.blast /\ c.deviation = a.deviation
  PROVE  Score(a) \in Nat /\ Score(c) \in Nat /\ Score(a) <= Score(c)
<1>0. /\ a.tier \in 1..4 /\ a.blast \in 0..10 /\ a.deviation \in 0..10
      /\ c.tier \in 1..4 /\ c.blast \in 0..10 /\ c.deviation \in 0..10
  BY DEF Alerts
<1>1. Score(a) \in Nat /\ Score(c) \in Nat /\ Plain(a) \in Nat /\ Plain(c) \in Nat
  BY ScoreIs
<1>2. Plain(a) <= Plain(c) /\ (c.tier # a.tier => Plain(a) = Plain(c))
  BY <1>0 DEF Plain
<1>3. CASE a.tier = 1
  <2>1. c.tier = 1 /\ c.deviation >= a.deviation
    BY <1>0, <1>3
  <2>2. /\ Score(a) = 750 + 45 * a.deviation + Plain(a)
        /\ Score(c) = 750 + 45 * c.deviation + Plain(c)
    BY <1>3, <2>1, ScoreIs
  <2> QED BY <1>0, <1>1, <1>2, <2>1, <2>2
<1>4. CASE a.tier = 2
  <2>1. /\ Score(a) = 500 + 30 * a.deviation + Plain(a)
        /\ c.tier = 2 => Score(c) = 500 + 30 * c.deviation + Plain(c)
        /\ c.tier = 1 => Score(c) = 750 + 45 * c.deviation + Plain(c)
    BY <1>4, ScoreIs
  <2> QED BY <1>0, <1>1, <1>2, <1>4, <2>1
<1>5. CASE a.tier = 3
  <2>1. /\ Score(a) = 250 + 15 * a.deviation + Plain(a)
        /\ c.tier = 3 => Score(c) = 250 + 15 * c.deviation + Plain(c)
        /\ c.tier = 2 => Score(c) = 500 + 30 * c.deviation + Plain(c)
    BY <1>5, ScoreIs
  <2> QED BY <1>0, <1>1, <1>2, <1>5, <2>1
<1>6. CASE a.tier = 4
  <2>1. /\ Score(a) = Plain(a)
        /\ c.tier = 4 => Score(c) = Plain(c)
        /\ c.tier = 3 => Score(c) = 250 + 15 * c.deviation + Plain(c)
    BY <1>6, ScoreIs
  <2> QED BY <1>0, <1>1, <1>2, <1>6, <2>1
<1> QED BY <1>0, <1>1, <1>3, <1>4, <1>5, <1>6

\* A higher score is a lower number, elevated or not.
LEMMA LevelFalls ==
  ASSUME NEW s \in Nat, NEW t \in Nat, s <= t
  PROVE  /\ Level(s) \in 1..4 /\ Level(t) \in 1..4 /\ Level(t) <= Level(s)
         /\ Elevated(Level(t)) <= Elevated(Level(s))
BY DEF Level, Elevated

\* The graver of two is monotone in both.
LEMMA GravestFalls ==
  ASSUME NEW s \in 1..4, NEW t \in 1..4, NEW u \in 1..4, NEW v \in 1..4, s <= u, t <= v
  PROVE  Gravest(s, t) <= Gravest(u, v) /\ Gravest(s, t) \in 1..4
BY DEF Gravest

\* Every part of the classification is a severity.
LEMMA Ranges ==
  ASSUME NEW a \in Alerts
  PROVE  Score(a) \in Nat /\ ScoreLevel(a) \in 1..4 /\ CertificateFloor(a.hours) \in 1..4
<1>1. Score(a) \in Nat
  BY ScoreIs
<1>2. Level(Score(a)) \in 1..4 /\ Elevated(Level(Score(a))) \in 1..4
  BY <1>1 DEF Level, Elevated
<1> QED BY <1>1, <1>2 DEF ScoreLevel, CertificateFloor

\* The classifier is monotone over every set of alerts: one case for each way to be graver.
LEMMA MonotoneAll == \A A : A \subseteq Alerts => SeverityMonotone(A)
<1> SUFFICES ASSUME NEW a \in Alerts, NEW c \in Graver(a) PROVE Classify(c) <= Classify(a)
  BY DEF SeverityMonotone
<1>0. c \in Alerts
  BY DEF Graver
<1>1. ASSUME ScoreLevel(c) <= ScoreLevel(a), CertificateFloor(c.hours) <= CertificateFloor(a.hours),
             c.critical = a.critical
      PROVE  Classify(c) <= Classify(a)
  BY <1>0, <1>1, ClassifyIs, Ranges, GravestFalls
<1>2. CASE /\ c.critical = a.critical /\ c.hours = a.hours /\ c.induced = a.induced
           /\ \/ c.tier = a.tier /\ c.blast >= a.blast /\ c.deviation >= a.deviation
              \/ c.tier = a.tier - 1 /\ c.blast = a.blast /\ c.deviation = a.deviation
  <2>1. Score(a) \in Nat /\ Score(c) \in Nat /\ Score(a) <= Score(c)
    BY <1>0, <1>2, ScoreGrows
  <2>2. ScoreLevel(c) <= ScoreLevel(a)
    BY <1>2, <2>1, LevelFalls DEF ScoreLevel
  <2>3. CertificateFloor(c.hours) <= CertificateFloor(a.hours)
    BY <1>0, <1>2, Ranges
  <2> QED BY <1>1, <1>2, <2>2, <2>3
<1>3. CASE c = [a EXCEPT !.hours = @ - 1]
  <2>1. c.hours = a.hours - 1 /\ c.critical = a.critical
    BY <1>3 DEF Alerts
  <2>2. a.hours \in 0..24 /\ c.hours \in 0..24
    BY <1>0 DEF Alerts
  <2>3. CertificateFloor(c.hours) <= CertificateFloor(a.hours)
    BY <2>1, <2>2 DEF CertificateFloor
  <2>4. c.induced = a.induced /\ Score(c) = Score(a)
    BY <1>3 DEF Score, Alerts
  <2>5. ScoreLevel(c) <= ScoreLevel(a)
    BY <2>4, Ranges DEF ScoreLevel
  <2> QED BY <1>1, <2>1, <2>3, <2>5
<1>4. CASE c = [a EXCEPT !.critical = TRUE]
  <2>1. c.critical = TRUE
    BY <1>4 DEF Alerts
  <2>2. Gravest(CertificateFloor(a.hours), ScoreLevel(a)) \in 1..4
    BY Ranges DEF Gravest
  <2>3. Classify(a) \in 1..4 /\ Classify(c) = 1
    BY <1>0, <2>1, <2>2, ClassifyIs
  <2> QED BY <2>3
<1>5. CASE c = [a EXCEPT !.blast = @ + 1]
  BY <1>2, <1>5 DEF Alerts
<1>6. CASE c = [a EXCEPT !.deviation = @ + 1]
  BY <1>2, <1>6 DEF Alerts
<1>7. CASE c = [a EXCEPT !.tier = @ - 1]
  BY <1>2, <1>7 DEF Alerts
<1> QED BY <1>3, <1>4, <1>5, <1>6, <1>7 DEF Graver

\* The 120 points a deployment takes are regained by the elevation, except at the edge of
\* SEV4; the certificate can only make up for it.
LEMMA InducedAt ==
  ASSUME NEW a \in Alerts, NEW c \in Alerts, ~a.induced, c.induced, c.hours = a.hours,
         c.critical = a.critical, c.tier = a.tier, c.blast = a.blast, c.deviation = a.deviation
  PROVE  Classify(c) <= Classify(a) \/ (Classify(c) = 4 /\ Score(a) \in 750..869)
<1>1. Score(a) \in Nat /\ Score(c) \in Nat /\ Score(a) = Score(c) + 120
  <2>1. /\ a.tier \in 1..4 /\ a.blast \in 0..10 /\ a.deviation \in 0..10
    BY DEF Alerts
  <2>2. Plain(a) = Plain(c) + 120
    BY <2>1 DEF Plain
  <2> QED BY <2>1, <2>2, ScoreIs
<1>2. \/ ScoreLevel(c) <= ScoreLevel(a)
      \/ ScoreLevel(c) = 4 /\ ScoreLevel(a) = 3 /\ Score(a) \in 750..869
  BY <1>1 DEF ScoreLevel, Level, Elevated
<1>3. CASE a.critical
  <2>1. Classify(a) = 1 /\ Classify(c) = 1
    BY <1>3, ClassifyIs, Zenon
  <2> QED BY <2>1
<1>4. CASE ~a.critical /\ ScoreLevel(c) <= ScoreLevel(a)
  BY <1>4, ClassifyIs, Ranges, GravestFalls
<1>5. CASE ~a.critical /\ ScoreLevel(c) = 4 /\ ScoreLevel(a) = 3 /\ Score(a) \in 750..869
  <2>1. Classify(c) = Gravest(CertificateFloor(a.hours), 4)
        /\ Classify(a) = Gravest(CertificateFloor(a.hours), 3)
    BY <1>5, ClassifyIs
  <2> QED BY <1>5, <2>1, Ranges DEF Gravest
<1> QED BY <1>2, <1>3, <1>4, <1>5

\* The same, as Severity states it.
LEMMA InducedEdge == \A A : A \subseteq Alerts => InducedLowersOnlyAtEdge(A)
<1> SUFFICES ASSUME NEW a \in Alerts, ~a.induced
             PROVE  LET c == [a EXCEPT !.induced = TRUE]
                    IN Classify(c) <= Classify(a) \/ (Classify(c) = 4 /\ Score(a) \in 750..869)
  BY DEF InducedLowersOnlyAtEdge
<1> DEFINE c == [a EXCEPT !.induced = TRUE]
<1>1. /\ c \in Alerts /\ c.induced = TRUE /\ c.hours = a.hours /\ c.critical = a.critical
      /\ c.tier = a.tier /\ c.blast = a.blast /\ c.deviation = a.deviation
  BY DEF Alerts
<1> HIDE DEF c
<1>2. Classify(c) <= Classify(a) \/ (Classify(c) = 4 /\ Score(a) \in 750..869)
  BY <1>1, InducedAt
<1> QED BY <1>2 DEF c

\* The classifier gives a severity.
LEMMA SeverityRange == \A a \in Alerts : Classify(a) \in 1..4
<1> SUFFICES ASSUME NEW a \in Alerts PROVE Classify(a) \in 1..4
  OBVIOUS
<1>1. Gravest(CertificateFloor(a.hours), ScoreLevel(a)) \in 1..4
  BY Ranges DEF Gravest
<1> QED BY <1>1, ClassifyIs

-------------------------------------------------------------------------------
(* The pipeline *)

\* A result that may be handed to any request of fingerprint k.
Transferable(res, k) ==
    /\ res \in Result
    /\ KeyOf(res.by) = k
    /\ res.kind = "diagnosed"
    /\ res.severity = Classify(Alert(res.by))
    /\ ~res.approval => Classify(Alert(res.by)) >= 3 /\ Alert(res.by).tier >= 3

\* An answer that keeps its approval with the request it was made for.
Escalation(res, r) == res \in Result /\ res.by = r /\ res.approval = TRUE /\ res.severity = 1

Justified(r) ==
    \/ result[r] = NoResult
    \/ Transferable(result[r], KeyOf(r))
    \/ Escalation(result[r], r)

\* The outcome that belongs to a result.
Told(res) ==
    IF res = NoResult THEN "failed"
    ELSE IF res.kind = "late" THEN "timeout"
    ELSE IF res.kind \in {"unresolved", "unreachable"} THEN "failed"
    ELSE "success"

Stages == {"begin", "lookup", "retrieve", "generate", "validate", "fallback",
           "store", "end", "done"}

Shape ==
    /\ pc \in [Requests -> Stages]
    /\ evidence \in [Requests -> Evidence \cup {NoEvidence}]
    /\ guess \in [Requests -> [llm : Confidences \cup {0}, cites : BOOLEAN]]
    /\ result \in [Requests -> Result \cup {NoResult}]
    /\ cache \in [Keys -> [result : Result, fresh : BOOLEAN] \cup {NoEntry}]
    /\ outcome \in [Requests -> Outcomes]
    /\ trace \in [Requests -> {"off", "open"} \cup Outcomes]
    /\ rows \subseteq AlertNames
    /\ earlier \in [Requests -> SUBSET AlertNames]
    /\ \A r \in Requests : pc[r] \in {"generate", "validate"} => evidence[r] \in Evidence
    /\ \A r \in Requests : pc[r] = "validate" => guess[r].llm \in Confidences

CacheSound == \A k \in Keys : cache[k] # NoEntry => Transferable(cache[k].result, k)

ResultsSound ==
    \A r \in Requests :
        /\ Justified(r)
        /\ pc[r] = "store" => Transferable(result[r], KeyOf(r))

TraceSound ==
    \A r \in Requests :
        /\ outcome[r] = IF pc[r] \in {"end", "done"} THEN Told(result[r]) ELSE "failed"
        /\ trace[r] \in Outcomes => pc[r] = "done" /\ trace[r] = outcome[r]
        /\ trace[r] # "off" => AlertOf[r] \in earlier[r]

RowsSound == \A a \in rows : \E s \in Requests : pc[s] = "done" /\ AlertOf[s] = a

IInv == Shape /\ CacheSound /\ ResultsSound /\ TraceSound /\ RowsSound

LEMMA ToldOutcome == \A res \in Result \cup {NoResult} : Told(res) \in Outcomes
  BY DEF Told, Outcomes

LEMMA ToldDiagnosed ==
    ASSUME NEW res, NEW k, Transferable(res, k)
    PROVE  res \in Result /\ res # NoResult /\ Told(res) = "success"
  BY PipelineAssumption DEF Transferable, Told

LEMMA EscalatedIsSound ==
    ASSUME NEW r \in Requests, NEW kind \in Kinds
    PROVE  /\ Escalated(r, kind) \in Result /\ Escalated(r, kind) # NoResult
           /\ Escalation(Escalated(r, kind), r)
           /\ Escalated(r, kind).kind = kind
  <1>1. Escalated(r, kind) \in Result
    BY DEF Escalated, Result
  <1>2. Escalated(r, kind).kind = kind /\ Escalated(r, kind).by = r
        /\ Escalated(r, kind).approval = TRUE /\ Escalated(r, kind).severity = 1
    BY Zenon DEF Escalated
  <1> QED BY <1>1, <1>2, PipelineAssumption DEF Escalation

LEMMA InitInvariant == Init => IInv
  <1> SUFFICES ASSUME Init PROVE IInv
    OBVIOUS
  <1>1. Shape
    BY DEF Init, Shape, NoGuess, Stages, Outcomes
  <1>2. CacheSound /\ RowsSound
    BY DEF Init, CacheSound, RowsSound
  <1>3. ResultsSound
    BY DEF Init, ResultsSound, Justified
  <1>4. TraceSound
    BY DEF Init, TraceSound, Outcomes
  <1> QED BY <1>1, <1>2, <1>3, <1>4 DEF IInv

\* A step of one request.
LEMMA OwnStep ==
    ASSUME IInv, NEW r \in Requests, NEW stage \in Stages, pc[r] # "done",
           pc' = [pc EXCEPT ![r] = stage],
           \A s \in Requests \ {r} : /\ result'[s] = result[s] /\ outcome'[s] = outcome[s]
                                      /\ trace'[s] = trace[s] /\ earlier'[s] = earlier[s],
           \A a \in rows' : a \in rows \/ (stage = "done" /\ a = AlertOf[r]),
           Shape', CacheSound',
           Justified(r)', stage = "store" => Transferable(result'[r], KeyOf(r)),
           outcome'[r] = IF stage \in {"end", "done"} THEN Told(result'[r]) ELSE "failed",
           trace'[r] \in Outcomes => stage = "done" /\ trace'[r] = outcome'[r],
           trace'[r] # "off" => AlertOf[r] \in earlier'[r]
    PROVE  IInv'
  <1>1. pc'[r] = stage /\ \A s \in Requests \ {r} : pc'[s] = pc[s]
    BY DEF IInv, Shape
  <1>3. ResultsSound'
    <2> SUFFICES ASSUME NEW s \in Requests
                 PROVE  Justified(s)' /\ (pc'[s] = "store" => Transferable(result'[s], KeyOf(s)))
      BY DEF ResultsSound
    <2>1. CASE s = r
      BY <1>1, <2>1
    <2>2. CASE s # r
      BY <1>1, <2>2 DEF IInv, ResultsSound, Justified
    <2> QED BY <2>1, <2>2
  <1>4. TraceSound'
    BY <1>1 DEF IInv, TraceSound
  <1>5. RowsSound'
    <2> SUFFICES ASSUME NEW a \in rows'
                 PROVE  \E s \in Requests : pc'[s] = "done" /\ AlertOf[s] = a
      BY DEF RowsSound
    <2>1. CASE a \in rows
      BY <1>1, <2>1 DEF IInv, RowsSound
    <2>2. CASE stage = "done" /\ a = AlertOf[r]
      BY <1>1, <2>2
    <2> QED BY <2>1, <2>2
  <1> QED BY <1>3, <1>4, <1>5 DEF IInv

LEMMA CacheKept == CacheSound /\ UNCHANGED cache => CacheSound'
  BY DEF CacheSound

\* An exit with a result that keeps its approval, and the outcome that belongs to it.
LEMMA EscalatedStep ==
    ASSUME IInv, NEW r \in Requests, NEW kind \in Kinds, NEW how,
           pc[r] \notin {"end", "done"},
           Answer(r, Escalated(r, kind), how), Go(r, "end"),
           how = Told(Escalated(r, kind)),
           evidence' \in [Requests -> Evidence \cup {NoEvidence}],
           guess' \in [Requests -> [llm : Confidences \cup {0}, cites : BOOLEAN]],
           \A s \in Requests \ {r} : evidence'[s] = evidence[s] /\ guess'[s] = guess[s],
           UNCHANGED <<cache, trace, rows, earlier>>
    PROVE  IInv'
  <1>1. result'[r] = Escalated(r, kind) /\ outcome'[r] = how
    BY DEF Answer, IInv, Shape
  <1>2. /\ \A s \in Requests \ {r} : result'[s] = result[s] /\ outcome'[s] = outcome[s]
        /\ pc' = [pc EXCEPT ![r] = "end"]
    BY DEF Answer, Go, IInv, Shape
  <1>3. how \in Outcomes
    BY EscalatedIsSound, ToldOutcome
  <1>4. Shape'
    BY <1>2, <1>3, EscalatedIsSound DEF Answer, IInv, Shape, Stages
  <1>5. Justified(r)'
    BY <1>1, EscalatedIsSound DEF Justified
  <1>6. trace[r] \notin Outcomes /\ (trace[r] # "off" => AlertOf[r] \in earlier[r])
    BY DEF IInv, TraceSound
  <1>7. CacheSound'
    BY CacheKept DEF IInv
  <1> QED BY <1>1, <1>2, <1>4, <1>5, <1>6, <1>7, OwnStep DEF Stages

LEMMA ForgetType ==
    ASSUME Shape, NEW r \in Requests, Forget(r)
    PROVE  /\ evidence' \in [Requests -> Evidence \cup {NoEvidence}]
           /\ guess' \in [Requests -> [llm : Confidences \cup {0}, cites : BOOLEAN]]
           /\ \A s \in Requests \ {r} : evidence'[s] = evidence[s] /\ guess'[s] = guess[s]
  BY DEF Shape, Forget, NoGuess

\* What holds of the trace of a request that has not ended.
KeptTrace(r) ==
    /\ trace[r] \notin Outcomes
    /\ trace[r] # "off" => AlertOf[r] \in earlier[r]
    /\ pc[r] \notin {"end", "done"} => outcome[r] = "failed"

LEMMA WaitingKept ==
    ASSUME TraceSound, NEW r \in Requests, pc[r] # "done"
    PROVE  KeptTrace(r)
  BY DEF TraceSound, KeptTrace

LEMMA DiagnosedStep ==
    ASSUME IInv, NEW r \in Requests, NEW agrees \in BOOLEAN, Diagnosed(r, agrees)
    PROVE  IInv'
  <1> DEFINE c == Confidence(guess[r].llm, agrees, evidence[r].average, evidence[r].count)
             res == [kind |-> "diagnosed", by |-> r, severity |-> Classify(Alert(r)),
                     approval |-> NeedsApproval(Alert(r), c)]
  <1>s. Shape /\ CacheSound /\ ResultsSound /\ TraceSound
    BY DEF IInv
  <1>1. pc' = [pc EXCEPT ![r] = "store"] /\ pc[r] = "validate" /\ Forget(r)
        /\ result' = [result EXCEPT ![r] = res]
        /\ UNCHANGED <<cache, outcome, trace, rows, earlier>>
    BY DEF Diagnosed, Go
  <1>2. Alert(r) \in Alerts
    BY PipelineAssumption DEF Alert, AlertNames
  <1>3. Classify(Alert(r)) \in 1..4
    BY <1>2, SeverityRange
  <1>4. NeedsApproval(Alert(r), c) \in BOOLEAN
        /\ (~NeedsApproval(Alert(r), c) => Classify(Alert(r)) >= 3 /\ Alert(r).tier >= 3)
    <2> HIDE DEF c
    <2> QED BY <1>2, <1>3 DEF NeedsApproval, Alerts
  <1>5. /\ res \in Result /\ res.by = r /\ res.kind = "diagnosed"
        /\ res.severity = Classify(Alert(r))
        /\ res.approval = NeedsApproval(Alert(r), c)
    <2> HIDE DEF c
    <2> QED BY <1>3, <1>4 DEF Result, Kinds
  <1>6. Transferable(res, KeyOf(r))
    <2> HIDE DEF res, c
    <2> QED BY <1>4, <1>5 DEF Transferable
  <1> HIDE DEF res, c
  <1>7. evidence' \in [Requests -> Evidence \cup {NoEvidence}]
        /\ guess' \in [Requests -> [llm : Confidences \cup {0}, cites : BOOLEAN]]
        /\ \A s \in Requests \ {r} : evidence'[s] = evidence[s] /\ guess'[s] = guess[s]
    BY <1>s, <1>1, ForgetType
  <1>8. Shape'
    BY <1>s, <1>1, <1>5, <1>7 DEF Shape, Stages
  <1>9. result'[r] = res /\ \A s \in Requests \ {r} : result'[s] = result[s]
    BY <1>s, <1>1 DEF Shape
  <1>10. Justified(r)' /\ Transferable(result'[r], KeyOf(r))
    BY <1>6, <1>9 DEF Justified
  <1>11. CacheSound' /\ KeptTrace(r)
    BY <1>s, <1>1, CacheKept, WaitingKept
  <1> QED BY <1>1, <1>8, <1>9, <1>10, <1>11, OwnStep DEF KeptTrace, Stages

LEMMA EndStep ==
    ASSUME IInv, NEW r \in Requests, NEW traced \in BOOLEAN, NEW saved \in BOOLEAN,
           End(r, traced, saved)
    PROVE  IInv'
  <1>s. Shape /\ CacheSound /\ ResultsSound /\ TraceSound
    BY DEF IInv
  <1>1. pc' = [pc EXCEPT ![r] = "done"] /\ pc[r] = "end"
        /\ trace' = [trace EXCEPT ![r] = IF trace[r] = "open" /\ traced THEN outcome[r] ELSE trace[r]]
        /\ rows' \in {rows, rows \cup {AlertOf[r]}}
        /\ UNCHANGED <<evidence, guess, result, cache, outcome, earlier>>
    BY DEF End, Go
  <1>2. KeptTrace(r) /\ outcome[r] = Told(result[r]) /\ CacheSound'
    BY <1>s, <1>1, CacheKept, WaitingKept DEF TraceSound
  <1>3. trace'[r] \in {"off", "open", outcome[r]} /\ (trace'[r] # "off" => trace[r] # "off")
        /\ (trace'[r] \in Outcomes => trace'[r] = outcome[r])
        /\ \A s \in Requests \ {r} : trace'[s] = trace[s]
    BY <1>s, <1>1, <1>2 DEF Shape, KeptTrace, Outcomes
  <1>4. Shape'
    BY <1>s, <1>1 DEF Shape, Stages, AlertNames
  <1>5. Justified(r)'
    BY <1>s, <1>1 DEF ResultsSound, Justified
  <1>6. \A a \in rows' : a \in rows \/ a = AlertOf[r]
    BY <1>1
  <1> QED BY <1>1, <1>2, <1>3, <1>4, <1>5, <1>6, OwnStep DEF KeptTrace, Stages

LEMMA StepInvariant == IInv /\ [Next]_vars => IInv'
  <1> SUFFICES ASSUME IInv, [Next]_vars PROVE IInv'
    OBVIOUS
  <1>s. Shape /\ CacheSound /\ ResultsSound /\ TraceSound /\ RowsSound
    BY DEF IInv
  <1>1. ASSUME NEW r \in Requests, NEW traced \in BOOLEAN, Begin(r, traced)
        PROVE  IInv'
    <2>1. Shape'
      BY <1>1, <1>s DEF Begin, Go, Shape, Stages, AlertNames
    <2>2. trace'[r] \in {"open", "off"}
      BY <1>1, <1>s DEF Begin, Shape
    <2>3. trace'[r] # "off" => AlertOf[r] \in earlier'[r]
      BY <1>1, <1>s DEF Begin, MayTrace, Shape, RowsSound
    <2>4. Justified(r)' /\ outcome'[r] = "failed" /\ pc[r] # "done"
      BY <1>1, <1>s DEF Begin, ResultsSound, TraceSound, Justified
    <2>5. \A s \in Requests \ {r} : trace'[s] = trace[s] /\ earlier'[s] = earlier[s]
      BY <1>1, <1>s DEF Begin, Shape
    <2>6. CacheSound'
      BY <1>1, <1>s, CacheKept DEF Begin
    <2> QED BY <1>1, <2>1, <2>2, <2>3, <2>4, <2>5, <2>6, OwnStep DEF Begin, Go, Stages, Outcomes
  <1>2. ASSUME NEW r \in Requests, CacheHit(r)
        PROVE  IInv'
    <2> DEFINE res == cache[KeyOf(r)].result
    <2>1. Transferable(res, KeyOf(r))
      BY <1>2, <1>s DEF CacheHit, Hit, CacheSound, Keys, AlertNames, KeyOf
    <2>2. res \in Result /\ Told(res) = "success"
      BY <2>1, ToldDiagnosed
    <2> HIDE DEF res
    <2>3. result' = [result EXCEPT ![r] = res] /\ outcome' = [outcome EXCEPT ![r] = "success"]
          /\ pc' = [pc EXCEPT ![r] = "end"] /\ pc[r] = "lookup"
          /\ UNCHANGED <<evidence, guess, cache, trace, rows, earlier>>
      BY <1>2 DEF CacheHit, Go, res
    <2>4. Shape'
      BY <1>s, <2>2, <2>3 DEF Shape, Stages, Outcomes
    <2>5. result'[r] = res /\ outcome'[r] = "success"
          /\ \A s \in Requests \ {r} : result'[s] = result[s] /\ outcome'[s] = outcome[s]
      BY <1>s, <2>3 DEF Shape
    <2>6. Justified(r)'
      BY <2>1, <2>5 DEF Justified
    <2>7. trace[r] \notin Outcomes /\ (trace[r] # "off" => AlertOf[r] \in earlier[r])
      BY <1>s, <2>3 DEF TraceSound
    <2>8. CacheSound'
      BY <1>s, <2>3, CacheKept
    <2> QED BY <2>2, <2>3, <2>4, <2>5, <2>6, <2>7, <2>8, OwnStep DEF Stages
  <1>3. ASSUME NEW r \in Requests, CacheMiss(r)
        PROVE  IInv'
    <2>1. cache' = [cache EXCEPT ![KeyOf(r)] = NoEntry] /\ pc[r] = "lookup"
          /\ pc' = [pc EXCEPT ![r] = "retrieve"]
          /\ UNCHANGED <<evidence, guess, result, outcome, trace, rows, earlier>>
      BY <1>3 DEF CacheMiss, Go
    <2>2. Shape'
      BY <1>s, <2>1 DEF Shape, Stages
    <2>3. CacheSound'
      BY <1>s, <2>1 DEF Shape, CacheSound
    <2>4. KeptTrace(r)
      BY <1>s, <2>1, WaitingKept
    <2> QED BY <1>s, <2>1, <2>2, <2>3, <2>4, OwnStep DEF KeptTrace, ResultsSound, Justified, Stages
  <1>4. ASSUME NEW r \in Requests, NEW found \in Evidence \cup {NoEvidence}, Retrieve(r, found)
        PROVE  IInv'
    <2> DEFINE stage == IF found.count > 0 THEN "generate" ELSE "fallback"
    <2>0. stage \in {"generate", "fallback"} /\ (stage = "generate" => found \in Evidence)
      BY DEF NoEvidence
    <2>1. pc' = [pc EXCEPT ![r] = stage] /\ pc[r] = "retrieve"
          /\ evidence' = [evidence EXCEPT ![r] = found]
          /\ UNCHANGED <<guess, result, cache, outcome, trace, rows, earlier>>
      BY <1>4 DEF Retrieve, Go
    <2> HIDE DEF stage
    <2>2. Shape'
      BY <1>s, <2>0, <2>1 DEF Shape, Stages
    <2>3. KeptTrace(r)
      BY <1>s, <2>1, WaitingKept
    <2>4. CacheSound'
      BY <1>s, <2>1, CacheKept
    <2> QED BY <1>s, <2>0, <2>1, <2>2, <2>3, <2>4, OwnStep DEF KeptTrace, ResultsSound, Justified, Stages
  <1>5. ASSUME NEW r \in Requests, NEW inferred \in BOOLEAN, Fallback(r, inferred)
        PROVE  IInv'
    <2> DEFINE kind == IF inferred THEN "fallback" ELSE "novel"
    <2>1. kind \in Kinds /\ Told(Escalated(r, kind)) = "success"
      BY EscalatedIsSound DEF Kinds, Told
    <2> QED BY <1>5, <1>s, <2>1, EscalatedStep DEF Fallback, Shape
  <1>6. ASSUME NEW r \in Requests, NEW llm \in Confidences, NEW cites \in BOOLEAN,
               Generate(r, llm, cites)
        PROVE  IInv'
    <2>1. pc' = [pc EXCEPT ![r] = "validate"] /\ pc[r] = "generate"
          /\ guess' = [guess EXCEPT ![r] = [llm |-> llm, cites |-> cites]]
          /\ UNCHANGED <<evidence, result, cache, outcome, trace, rows, earlier>>
      BY <1>6 DEF Generate, Go
    <2>2. Shape'
      BY <1>s, <2>1 DEF Shape, Stages
    <2>3. KeptTrace(r)
      BY <1>s, <2>1, WaitingKept
    <2>4. CacheSound'
      BY <1>s, <2>1, CacheKept
    <2> QED BY <1>s, <2>1, <2>2, <2>3, <2>4, OwnStep DEF KeptTrace, ResultsSound, Justified, Stages
  <1>7. ASSUME NEW r \in Requests, Unresolved(r)
        PROVE  IInv'
    <2>1. "unresolved" \in Kinds /\ Told(Escalated(r, "unresolved")) = "failed"
      BY EscalatedIsSound DEF Kinds, Told
    <2>2. evidence' \in [Requests -> Evidence \cup {NoEvidence}]
          /\ guess' \in [Requests -> [llm : Confidences \cup {0}, cites : BOOLEAN]]
          /\ \A s \in Requests \ {r} : evidence'[s] = evidence[s] /\ guess'[s] = guess[s]
      BY <1>7, <1>s, ForgetType DEF Unresolved
    <2> QED BY <1>7, <2>1, <2>2, EscalatedStep DEF Unresolved
  <1>8. ASSUME NEW r \in Requests, NEW agrees \in BOOLEAN, Diagnosed(r, agrees)
        PROVE  IInv'
    BY <1>8, DiagnosedStep
  <1>9. ASSUME NEW r \in Requests, Store(r)
        PROVE  IInv'
    <2>1. pc' = [pc EXCEPT ![r] = "end"] /\ pc[r] = "store"
          /\ cache' = [cache EXCEPT ![KeyOf(r)] = [result |-> result[r], fresh |-> TRUE]]
          /\ outcome' = [outcome EXCEPT ![r] = "success"]
          /\ UNCHANGED <<evidence, guess, result, trace, rows, earlier>>
      BY <1>9 DEF Store, Go
    <2>2. Transferable(result[r], KeyOf(r))
      BY <1>s, <2>1 DEF ResultsSound
    <2>3. result[r] \in Result /\ Told(result[r]) = "success"
      BY <2>2, ToldDiagnosed
    <2>4. Shape'
      BY <1>s, <2>1, <2>3 DEF Shape, Stages, Outcomes
    <2>5. CacheSound'
      BY <1>s, <2>1, <2>2 DEF Shape, CacheSound
    <2>6. KeptTrace(r)
      BY <1>s, <2>1, WaitingKept
    <2>7. outcome'[r] = "success" /\ \A s \in Requests \ {r} : outcome'[s] = outcome[s]
      BY <1>s, <2>1 DEF Shape
    <2>8. Justified(r)'
      BY <1>s, <2>1 DEF ResultsSound, Justified
    <2> QED BY <2>1, <2>3, <2>4, <2>5, <2>6, <2>7, <2>8, OwnStep DEF KeptTrace, Stages
  <1>10. ASSUME NEW r \in Requests, NEW traced \in BOOLEAN, NEW saved \in BOOLEAN,
                End(r, traced, saved)
         PROVE  IInv'
    BY <1>10, EndStep
  <1>11. ASSUME NEW r \in Requests, Raise(r)
         PROVE  IInv'
    <2>1. pc' = [pc EXCEPT ![r] = "end"]
          /\ pc[r] \in {"retrieve", "generate", "validate", "fallback"}
          /\ result' = [result EXCEPT ![r] = NoResult] /\ Forget(r)
          /\ UNCHANGED <<cache, outcome, trace, rows, earlier>>
      BY <1>11 DEF Raise, Go
    <2>2. evidence' \in [Requests -> Evidence \cup {NoEvidence}]
          /\ guess' \in [Requests -> [llm : Confidences \cup {0}, cites : BOOLEAN]]
          /\ \A s \in Requests \ {r} : evidence'[s] = evidence[s] /\ guess'[s] = guess[s]
      BY <1>s, <2>1, ForgetType
    <2>3. Shape'
      BY <1>s, <2>1, <2>2 DEF Shape, Stages
    <2>4. KeptTrace(r)
      BY <1>s, <2>1, WaitingKept
    <2>5. CacheSound'
      BY <1>s, <2>1, CacheKept
    <2>6. result'[r] = NoResult /\ \A s \in Requests \ {r} : result'[s] = result[s]
      BY <1>s, <2>1 DEF Shape
    <2>7. Justified(r)' /\ outcome[r] = Told(result'[r])
      BY <2>6, <2>1, <1>s DEF Justified, Told, TraceSound
    <2> QED BY <2>1, <2>3, <2>4, <2>5, <2>6, <2>7, OwnStep DEF KeptTrace, Stages
  <1>12. ASSUME NEW r \in Requests, NEW timeout \in BOOLEAN, BreakDown(r, timeout)
         PROVE  IInv'
    <2> DEFINE kind == IF timeout THEN "late" ELSE "unreachable"
    <2>1. kind \in Kinds /\ Told(Escalated(r, kind)) = OutcomeOf(timeout)
      BY EscalatedIsSound DEF Kinds, Told, OutcomeOf
    <2>2. evidence' \in [Requests -> Evidence \cup {NoEvidence}]
          /\ guess' \in [Requests -> [llm : Confidences \cup {0}, cites : BOOLEAN]]
          /\ \A s \in Requests \ {r} : evidence'[s] = evidence[s] /\ guess'[s] = guess[s]
      BY <1>12, <1>s, ForgetType DEF BreakDown
    <2>3. Answer(r, Escalated(r, kind), OutcomeOf(timeout)) /\ Go(r, "end")
          /\ pc[r] \notin {"end", "done"} /\ UNCHANGED <<cache, trace, rows, earlier>>
      BY <1>12 DEF BreakDown, Unavailable
    <2> QED BY <2>1, <2>2, <2>3, EscalatedStep
  <1>13. ASSUME NEW k \in Keys, Age(k)
         PROVE  IInv'
    <2> DEFINE old == [cache[k] EXCEPT !.fresh = FALSE]
    <2>1. cache' = [cache EXCEPT ![k] = old] /\ cache[k] # NoEntry
          /\ UNCHANGED <<pc, evidence, guess, result, outcome, trace, rows, earlier>>
      BY <1>13 DEF Age
    <2>2. cache[k] \in [result : Result, fresh : BOOLEAN] /\ Transferable(cache[k].result, k)
      BY <1>s, <2>1 DEF Shape, CacheSound
    <2>3. old \in [result : Result, fresh : BOOLEAN] /\ old.result = cache[k].result
      BY <2>2
    <2> HIDE DEF old
    <2>4. Shape'
      BY <1>s, <2>1, <2>3 DEF Shape
    <2>5. CacheSound'
      BY <1>s, <2>1, <2>2, <2>3 DEF Shape, CacheSound
    <2> QED BY <1>s, <2>1, <2>4, <2>5 DEF IInv, ResultsSound, TraceSound, RowsSound, Justified
  <1>14. CASE UNCHANGED vars
    BY <1>14, <1>s DEF vars, IInv, Shape, CacheSound, ResultsSound, TraceSound, RowsSound, Justified
  <1> QED BY <1>1, <1>2, <1>3, <1>4, <1>5, <1>6, <1>7, <1>8, <1>9, <1>10, <1>11, <1>12, <1>13,
             <1>14 DEF Next, Step

LEMMA Invariant == Spec => []IInv
  BY InitInvariant, StepInvariant, PTL DEF Spec

\* A request is answered without human approval only on a service of tier 3 or 4 and by a
\* diagnosis for the same fingerprint whose own alert is mild; that the request's service is
\* the diagnosed one's, and so its tier, is what the fingerprint is for.
THEOREM WaiverEarned == Spec => []WaiverIsEarned
  <1>1. IInv => WaiverIsEarned
    <2> SUFFICES ASSUME IInv PROVE WaiverIsEarned
      OBVIOUS
    <2>1. TypeOK
      BY DEF IInv, Shape, TypeOK, Stages
    <2>2. ASSUME NEW r \in Requests, result[r] # NoResult
          PROVE  /\ KeyOf(result[r].by) = KeyOf(r)
                 /\ result[r].by # r => result[r].kind = "diagnosed"
                 /\ ~result[r].approval =>
                      /\ result[r].kind = "diagnosed"
                      /\ Classify(Alert(result[r].by)) >= 3 /\ Alert(r).tier >= 3
      <3>1. /\ KeyOf(result[r].by) = KeyOf(r)
            /\ result[r].by # r => result[r].kind = "diagnosed"
            /\ ~result[r].approval =>
                 /\ result[r].kind = "diagnosed"
                 /\ Classify(Alert(result[r].by)) >= 3 /\ Alert(result[r].by).tier >= 3
        BY <2>2 DEF IInv, ResultsSound, Justified, Transferable, Escalation
      <3>2. result[r].by \in Requests
        BY <2>2 DEF IInv, Shape, Result
      <3>3. Alert(r).tier = Alert(result[r].by).tier
        BY <3>1, <3>2, PipelineAssumption DEF Alert, KeyOf, AlertNames
      <3> QED BY <3>1, <3>3
    <2> QED BY <2>1, <2>2 DEF WaiverIsEarned
  <1> QED BY <1>1, Invariant, PTL

\* A closed trace tells what the caller was given, and the first diagnosis of an alert has none.
THEOREM TraceTrue == Spec => []TraceIsTrue
  <1>1. IInv => TraceIsTrue
    BY DEF IInv, TraceSound, TraceIsTrue, Told
  <1> QED BY <1>1, Invariant, PTL

\* A severity handed out is 1 or that of the alert the diagnosis was made for, and the
\* classifier is monotone but for one edge: over all alerts, not only the sampled hours.
THEOREM SeverityTrue == Spec => []SeverityAnswers
  <1>1. IInv => \A r \in Requests : result[r] # NoResult =>
                  result[r].severity \in {1, Classify(Alert(result[r].by))}
    BY DEF IInv, ResultsSound, Justified, Transferable, Escalation
  <1>2. Monotone /\ LowersOnlyAtEdge
    BY MonotoneAll, InducedEdge DEF Monotone, LowersOnlyAtEdge, Sampled
  <1>3. IInv => SeverityAnswers
    BY <1>1, <1>2 DEF SeverityAnswers
  <1> QED BY <1>3, Invariant, PTL
-------------------------------------------------------------------------------
(* The throttled adapter the pipeline sends its requests through *)

\* The priority queue: each call once, the more urgent before the less.
Queued(q, prio) ==
    /\ q \in Seq(Calls)
    /\ \A i, j \in 1..Len(q) : q[i] = q[j] => i = j
    /\ \A i, j \in 1..Len(q) : i < j => prio[q[i]] <= prio[q[j]]

Members(q) == {q[i] : i \in 1..Len(q)}

LEMMA MembersAre == \A q \in Seq(Calls) : ToSet(q) = Members(q)
  BY LenProperties DEF ToSet, Members

\* The head is the most urgent, and no longer among the rest.
LEMMA TakeHead ==
    ASSUME NEW q, NEW prio, Queued(q, prio), q # << >>, NEW c, c = Head(q), NEW rest, rest = Tail(q)
    PROVE  /\ Queued(rest, prio) /\ c \in Calls
           /\ Members(q) = Members(rest) \cup {c} /\ c \notin Members(rest)
           /\ \A d \in Members(rest) : prio[c] <= prio[d]
  <1>1. q \in Seq(Calls) /\ Len(q) \in Nat \ {0}
    BY EmptySeq DEF Queued
  <1>2. /\ c \in Calls /\ c = q[1] /\ rest \in Seq(Calls) /\ Len(rest) = Len(q) - 1
        /\ \A i \in 1..Len(rest) : rest[i] = q[i + 1]
    BY <1>1, HeadTailProperties, EmptySeq
  <1>3. /\ \A i, j \in 1..Len(rest) : rest[i] = rest[j] => i = j
        /\ \A i, j \in 1..Len(rest) : i < j => prio[rest[i]] <= prio[rest[j]]
    BY <1>1, <1>2 DEF Queued
  <1>4. Members(q) = Members(rest) \cup {c}
    <2>1. ASSUME NEW i \in 1..Len(q) PROVE q[i] \in Members(rest) \cup {c}
      <3>1. CASE i = 1
        BY <1>2, <3>1
      <3>2. CASE i # 1
        <4>1. i - 1 \in 1..Len(rest) /\ rest[i - 1] = q[i]
          BY <1>1, <1>2, <3>2
        <4> QED BY <4>1 DEF Members
      <3> QED BY <3>1, <3>2
    <2>2. ASSUME NEW i \in 1..Len(rest) PROVE rest[i] \in Members(q)
      <3>1. i + 1 \in 1..Len(q)
        BY <1>1, <1>2
      <3> QED BY <1>2, <3>1 DEF Members
    <2>3. c \in Members(q)
      <3>1. 1 \in 1..Len(q)
        BY <1>1
      <3> QED BY <1>2, <3>1 DEF Members
    <2>4. Members(q) \subseteq Members(rest) \cup {c}
      BY <2>1 DEF Members
    <2>5. Members(rest) \subseteq Members(q)
      BY <2>2 DEF Members
    <2> QED BY <2>3, <2>4, <2>5
  <1>5. c \notin Members(rest)
    BY <1>1, <1>2 DEF Members, Queued
  <1>6. \A d \in Members(rest) : prio[c] <= prio[d]
    BY <1>1, <1>2 DEF Members, Queued
  <1> QED BY <1>2, <1>3, <1>4, <1>5, <1>6 DEF Queued

\* A call is placed behind all that are as urgent or more, and those come first.
LEMMA PlaceIs ==
    ASSUME NEW q, NEW prio \in [Calls -> Nat], Queued(q, prio), NEW p \in Nat
    PROVE  LET k == Cardinality({i \in 1..Len(q) : prio[q[i]] <= p})
           IN  k \in 0..Len(q) /\ \A i \in 1..Len(q) : i <= k <=> prio[q[i]] <= p
  <1> DEFINE S == {i \in 1..Len(q) : prio[q[i]] <= p}
             k == Cardinality(S)
  <1>1. Len(q) \in Nat /\ \A i \in 1..Len(q) : q[i] \in Calls /\ prio[q[i]] \in Nat
    <2>1. q \in Seq(Calls)
      BY DEF Queued
    <2>2. Len(q) \in Nat /\ \A i \in 1..Len(q) : q[i] \in Calls
      BY <2>1, LenProperties, ElementOfSeq
    <2> QED BY <2>2
  <1>2. IsFiniteSet(1..Len(q)) /\ Cardinality(1..Len(q)) = Len(q)
    <2>1. ASSUME NEW n \in Nat PROVE IsFiniteSet(1..n) /\ Cardinality(1..n) = n
      BY FS_Interval
    <2> QED BY <1>1, <2>1
  <1>3. IsFiniteSet(S) /\ k \in 0..Len(q)
    <2>1. S \in SUBSET (1..Len(q))
      OBVIOUS
    <2>2. IsFiniteSet(S) /\ k <= Cardinality(1..Len(q))
      BY <1>2, <2>1, FS_Subset
    <2>3. k \in Nat
      BY <2>2, FS_CardinalityType
    <2> HIDE DEF k
    <2> QED BY <1>1, <1>2, <2>2, <2>3
  <1>4. ASSUME NEW i \in S PROVE i \in 1..k
    <2>1. 1..i \in SUBSET S
      BY <1>1 DEF Queued
    <2>2. Cardinality(1..i) = i
      BY <1>1, FS_Interval
    <2>3. i <= k
      BY <1>3, <2>1, <2>2, FS_Subset
    <2> HIDE DEF k
    <2> QED BY <1>1, <1>3, <2>3
  <1>5. S = 1..k
    <2>1. S \in SUBSET (1..k)
      BY <1>4
    <2> HIDE DEF S
    <2>2. IsFiniteSet(1..k) /\ Cardinality(1..k) = k
      BY <1>1, <1>3, FS_Interval
    <2> QED BY <2>1, <2>2, FS_Subset
  <1>6. ASSUME NEW i \in 1..Len(q) PROVE i <= k <=> prio[q[i]] <= p
    <2>1. i \in S <=> prio[q[i]] <= p
      OBVIOUS
    <2> HIDE DEF S, k
    <2> QED BY <1>1, <1>3, <1>5, <2>1
  <1> QED BY <1>3, <1>6
\* A concatenation, as an operator of its own.
Join(s, t) == s \o t

\* u is s followed by t.
Joins(u, s, t) ==
    /\ u \in Seq(Calls) /\ Len(u) = Len(s) + Len(t)
    /\ \A i \in 1..Len(s) : u[i] = s[i]
    /\ \A i \in 1..Len(t) : u[Len(s) + i] = t[i]

LEMMA Joined == \A s, t \in Seq(Calls) : Joins(Join(s, t), s, t)
  <1> SUFFICES ASSUME NEW s \in Seq(Calls), NEW t \in Seq(Calls) PROVE Joins(Join(s, t), s, t)
    OBVIOUS
  <1>1. Len(s) \in Nat /\ Len(t) \in Nat
    BY LenProperties
  <1>2. /\ s \o t \in Seq(Calls) /\ Len(s \o t) = Len(s) + Len(t)
        /\ \A i \in 1..Len(s) + Len(t) : (s \o t)[i] = IF i <= Len(s) THEN s[i] ELSE t[i - Len(s)]
    BY ConcatProperties
  <1> DEFINE u == Join(s, t)
  <1>3. /\ u \in Seq(Calls) /\ Len(u) = Len(s) + Len(t)
        /\ \A i \in 1..Len(s) + Len(t) : u[i] = IF i <= Len(s) THEN s[i] ELSE t[i - Len(s)]
    BY <1>2 DEF Join
  <1> HIDE DEF u
  <1>4. \A i \in 1..Len(s) : u[i] = s[i]
    BY <1>1, <1>3
  <1>5. ASSUME NEW i \in 1..Len(t) PROVE u[Len(s) + i] = t[i]
    <2>1. /\ Len(s) + i \in 1..Len(s) + Len(t) /\ ~(Len(s) + i <= Len(s))
          /\ (Len(s) + i) - Len(s) = i
      BY <1>1
    <2> QED BY <1>3, <2>1
  <1> QED BY <1>3, <1>4, <1>5 DEF u, Joins

\* c is to be put at place i, behind those that are as urgent or more.
Inserts(q, prio, c, prio2, i) ==
    /\ prio \in [Calls -> Nat] /\ Queued(q, prio)
    /\ c \in Calls /\ c \notin Members(q)
    /\ prio2[c] \in Nat /\ \A d \in Calls : d # c => prio2[d] = prio[d]
    /\ i \in 1..Len(q) + 1
    /\ \A j \in 1..Len(q) : j < i <=> prio[q[j]] <= prio2[c]

\* t is q with c at place i.
IsInserted(t, q, i, c) ==
    /\ t \in Seq(Calls) /\ Len(t) = Len(q) + 1
    /\ \A j \in 1..Len(q) + 1 : t[j] = IF j < i THEN q[j] ELSE IF j = i THEN c ELSE q[j - 1]

LEMMA InsertPlaces ==
    \A q, prio, c, prio2, i : Inserts(q, prio, c, prio2, i) =>
        IsInserted(InsertAt(q, i, c), q, i, c)
  <1> SUFFICES ASSUME NEW q, NEW prio, NEW c, NEW prio2, NEW i, Inserts(q, prio, c, prio2, i),
                      NEW t, t = InsertAt(q, i, c)
               PROVE  IsInserted(t, q, i, c)
    OBVIOUS
  <1> USE DEF Inserts
  <1> DEFINE n == Len(q)
             u == SubSeq(q, 1, i - 1)
             w == SubSeq(q, i, n)
  <1>1. q \in Seq(Calls) /\ n \in Nat /\ \A j \in 1..n : q[j] \in Calls
    <2>1. q \in Seq(Calls)
      BY DEF Queued
    <2> QED BY <2>1, LenProperties, ElementOfSeq
  <1>2. u \in Seq(Calls) /\ Len(u) = i - 1 /\ \A j \in 1..i - 1 : u[j] = q[j]
    <2>1. /\ u \in Seq(Calls)
          /\ Len(u) = IF 1 <= i - 1 THEN (i - 1) - 1 + 1 ELSE 0
          /\ \A j \in 1..(i - 1) - 1 + 1 : u[j] = q[1 + j - 1]
      BY <1>1, SubSeqProperties
    <2> HIDE DEF u
    <2> QED BY <1>1, <2>1
  <1>3. w \in Seq(Calls) /\ Len(w) = n - i + 1 /\ \A j \in 1..n - i + 1 : w[j] = q[i + j - 1]
    <2>1. /\ w \in Seq(Calls)
          /\ Len(w) = IF i <= n THEN n - i + 1 ELSE 0
          /\ \A j \in 1..n - i + 1 : w[j] = q[i + j - 1]
      BY <1>1, SubSeqProperties
    <2> HIDE DEF w
    <2> QED BY <1>1, <2>1
  <1>4. t = Join(Join(u, <<c>>), w)
    BY DEF InsertAt, Join
  <1> HIDE DEF u, w, n
  <1>5. /\ Join(u, <<c>>) \in Seq(Calls) /\ Len(Join(u, <<c>>)) = i
        /\ \A j \in 1..i : Join(u, <<c>>)[j] = IF j < i THEN q[j] ELSE c
    <2> DEFINE e == <<c>>
               v == Join(u, e)
    <2>1. e \in Seq(Calls) /\ Len(e) = 1 /\ e[1] = c
      OBVIOUS
    <2>2. v = Join(u, e)
      OBVIOUS
    <2> HIDE DEF e, v
    <2>3. /\ v \in Seq(Calls) /\ Len(v) = Len(u) + Len(e)
          /\ \A j \in 1..Len(u) : v[j] = u[j]
          /\ \A j \in 1..Len(e) : v[Len(u) + j] = e[j]
      <3>1. u \in Seq(Calls) /\ e \in Seq(Calls)
        BY <1>2, <2>1
      <3>2. Joins(Join(u, e), u, e)
        BY <3>1, Joined, Zenon
      <3> QED BY <2>2, <3>2, Zenon DEF Joins
    <2>4. ASSUME NEW j \in 1..i PROVE v[j] = IF j < i THEN q[j] ELSE c
      <3>1. CASE j < i
        BY <1>1, <1>2, <2>3, <3>1
      <3>2. CASE j = i
        <4>1. 1 \in 1..Len(e) /\ Len(u) + 1 = i
          BY <1>1, <1>2, <2>1
        <4> QED BY <2>1, <2>3, <3>2, <4>1
      <3> QED BY <1>1, <3>1, <3>2
    <2>5. Len(v) = i
      BY <1>1, <1>2, <2>1, <2>3
    <2> QED BY <2>2, <2>3, <2>4, <2>5 DEF e, v
  <1>6. /\ t \in Seq(Calls) /\ Len(t) = n + 1
        /\ \A j \in 1..n + 1 : t[j] = IF j < i THEN q[j] ELSE IF j = i THEN c ELSE q[j - 1]
    <2> DEFINE v == Join(u, <<c>>)
    <2>1. v \in Seq(Calls) /\ Len(v) = i /\ \A j \in 1..i : v[j] = IF j < i THEN q[j] ELSE c
      BY <1>5
    <2>2. t = Join(v, w)
      BY <1>4
    <2> HIDE DEF v
    <2>3. /\ t \in Seq(Calls) /\ Len(t) = Len(v) + Len(w)
          /\ \A j \in 1..Len(v) : t[j] = v[j]
          /\ \A j \in 1..Len(w) : t[Len(v) + j] = w[j]
      <3>1. v \in Seq(Calls) /\ w \in Seq(Calls)
        BY <1>3, <2>1
      <3>2. Joins(Join(v, w), v, w)
        BY <3>1, Joined, Zenon
      <3> QED BY <2>2, <3>2, Zenon DEF Joins
    <2>4. i \in 1..n + 1 /\ Len(v) + Len(w) = n + 1
      BY <1>1, <1>3, <2>1 DEF n
    <2>5. ASSUME NEW j \in 1..n + 1
          PROVE  t[j] = IF j < i THEN q[j] ELSE IF j = i THEN c ELSE q[j - 1]
      <3>1. CASE j <= i
        BY <1>1, <2>1, <2>3, <2>4, <3>1
      <3>2. CASE i < j
        <4>1. j - i \in 1..n - i + 1 /\ i + (j - i) - 1 = j - 1 /\ i + (j - i) = j
          BY <1>1, <2>4, <3>2
        <4>2. t[i + (j - i)] = w[j - i]
          BY <1>3, <2>1, <2>3, <4>1
        <4>3. w[j - i] = q[i + (j - i) - 1]
          BY <1>3, <4>1
        <4>4. t[j] = q[j - 1] /\ ~(j < i) /\ j # i
          BY <1>1, <2>4, <3>2, <4>1, <4>2, <4>3
        <4> QED BY <4>4
      <3> QED BY <1>1, <2>4, <3>1, <3>2
    <2> QED BY <2>3, <2>4, <2>5
  <1> QED BY <1>6 DEF IsInserted, n

LEMMA InsertIs ==
    \A q, prio, c, prio2, i : Inserts(q, prio, c, prio2, i) =>
        /\ Queued(InsertAt(q, i, c), prio2)
        /\ Members(InsertAt(q, i, c)) = Members(q) \cup {c}
  <1> SUFFICES ASSUME NEW q, NEW prio, NEW c, NEW prio2, NEW i, Inserts(q, prio, c, prio2, i),
                      NEW t, t = InsertAt(q, i, c)
               PROVE  Queued(t, prio2) /\ Members(t) = Members(q) \cup {c}
    OBVIOUS
  <1>0. IsInserted(t, q, i, c)
    BY InsertPlaces
  <1> USE DEF Inserts
  <1> DEFINE n == Len(q)
             p == prio2[c]
  <1>1. q \in Seq(Calls) /\ n \in Nat /\ \A j \in 1..n : q[j] \in Calls
    <2>1. q \in Seq(Calls)
      BY DEF Queued
    <2> QED BY <2>1, LenProperties, ElementOfSeq
  <1> HIDE DEF n, p
  <1>6. /\ t \in Seq(Calls) /\ Len(t) = n + 1
        /\ \A j \in 1..n + 1 : t[j] = IF j < i THEN q[j] ELSE IF j = i THEN c ELSE q[j - 1]
    BY <1>0 DEF IsInserted, n
  <1>7. i \in 1..n + 1 /\ n \in Nat
    BY <1>1 DEF n
  <1>a. ASSUME NEW j \in 1..n + 1, j < i PROVE j \in 1..n /\ t[j] = q[j]
    BY <1>6, <1>7, <1>a
  <1>b. t[i] = c
    <2>1. t[i] = IF i < i THEN q[i] ELSE IF i = i THEN c ELSE q[i - 1]
      BY <1>6, <1>7
    <2> QED BY <1>7, <2>1
  <1>c. ASSUME NEW j \in 1..n + 1, i < j PROVE j - 1 \in 1..n /\ j - 1 >= i /\ t[j] = q[j - 1]
    <2>1. j - 1 \in 1..n /\ j - 1 >= i /\ ~(j < i) /\ j # i
      BY <1>7, <1>c
    <2>2. t[j] = IF j < i THEN q[j] ELSE IF j = i THEN c ELSE q[j - 1]
      BY <1>6
    <2> QED BY <2>1, <2>2
  <1>8. \A j \in 1..n : q[j] # c /\ q[j] \in Members(q) /\ prio2[q[j]] = prio[q[j]] /\ prio[q[j]] \in Nat
    BY <1>1 DEF Members, n
  <1>9. prio2[c] = p /\ p \in Nat /\ \A j \in 1..n : j < i <=> prio[q[j]] <= p
    BY DEF p, n
  <1>d. \A j, m \in 1..n : (q[j] = q[m] => j = m) /\ (j <= m => prio[q[j]] <= prio[q[m]])
    <2> SUFFICES ASSUME NEW j \in 1..n, NEW m \in 1..n
                 PROVE  (q[j] = q[m] => j = m) /\ (j <= m => prio[q[j]] <= prio[q[m]])
      OBVIOUS
    <2>1. CASE j = m
      BY <1>8, <2>1
    <2>2. CASE j # m
      BY <1>7, <2>2 DEF Queued, n
    <2> QED BY <2>1, <2>2
  <1>10. ASSUME NEW j \in 1..n + 1, NEW m \in 1..n + 1, j < m PROVE t[j] # t[m] /\ prio2[t[j]] <= prio2[t[m]]
    <2>1. CASE m < i
      <3>1. j < i
        BY <1>7, <1>10, <2>1
      <3>2. j \in 1..n /\ m \in 1..n /\ t[j] = q[j] /\ t[m] = q[m]
        BY <1>a, <2>1, <3>1
      <3>3. j # m /\ j <= m
        BY <1>10
      <3> QED BY <1>8, <1>d, <3>2, <3>3
    <2>2. CASE m = i
      <3>1. j \in 1..n /\ t[j] = q[j] /\ t[m] = c /\ prio[q[j]] <= p
        BY <1>a, <1>b, <1>9, <1>10, <2>2
      <3> QED BY <1>8, <1>9, <3>1
    <2>3. CASE i < m /\ j = i
      <3>1. m - 1 \in 1..n /\ t[j] = c /\ t[m] = q[m - 1] /\ ~(m - 1 < i)
        BY <1>7, <1>b, <1>c, <2>3
      <3>2. ~(prio[q[m - 1]] <= p)
        BY <1>9, <3>1
      <3> QED BY <1>8, <1>9, <3>1, <3>2
    <2>4. CASE i < m /\ j < i
      <3>1. j \in 1..n /\ m - 1 \in 1..n /\ t[j] = q[j] /\ t[m] = q[m - 1] /\ m - 1 >= i
        BY <1>a, <1>c, <2>4
      <3>2. j # m - 1 /\ j <= m - 1
        BY <1>7, <2>4, <3>1
      <3> QED BY <1>8, <1>d, <3>1, <3>2
    <2>5. CASE i < m /\ i < j
      <3>1. j - 1 \in 1..n /\ m - 1 \in 1..n /\ t[j] = q[j - 1] /\ t[m] = q[m - 1]
        BY <1>c, <2>5
      <3>2. j - 1 # m - 1 /\ j - 1 <= m - 1
        BY <1>7, <1>10
      <3> QED BY <1>8, <1>d, <3>1, <3>2
    <2> QED BY <1>7, <1>10, <2>1, <2>2, <2>3, <2>4, <2>5
  <1>11. ASSUME NEW j \in 1..n + 1, NEW m \in 1..n + 1, t[j] = t[m] PROVE j = m
    <2>1. ~(j < m) /\ ~(m < j)
      BY <1>10, <1>11
    <2> QED BY <1>7, <2>1
  <1>12. Members(t) = Members(q) \cup {c}
    <2>1. ASSUME NEW j \in 1..n + 1 PROVE t[j] \in Members(q) \cup {c}
      <3>1. j < i \/ j = i \/ i < j
        BY <1>7
      <3> QED BY <1>8, <1>a, <1>b, <1>c, <3>1
    <2>2. ASSUME NEW j \in 1..n PROVE q[j] \in Members(t)
      <3>1. CASE j < i
        <4>1. j \in 1..n + 1
          BY <1>7
        <4>2. t[j] = q[j]
          BY <1>a, <3>1, <4>1
        <4> QED BY <1>6, <4>1, <4>2 DEF Members
      <3>2. CASE ~(j < i)
        <4>1. j + 1 \in 1..n + 1 /\ i < j + 1 /\ (j + 1) - 1 = j
          BY <1>7, <3>2
        <4>2. t[j + 1] = q[j]
          BY <1>c, <4>1
        <4> QED BY <1>6, <4>1, <4>2 DEF Members
      <3> QED BY <3>1, <3>2
    <2>3. c \in Members(t)
      BY <1>6, <1>7, <1>b DEF Members
    <2>4. Members(t) \subseteq Members(q) \cup {c}
      BY <1>6, <2>1 DEF Members
    <2>5. Members(q) \subseteq Members(t)
      BY <2>2 DEF Members, n
    <2> QED BY <2>3, <2>4, <2>5
  <1> QED BY <1>6, <1>10, <1>11, <1>12 DEF Queued

\* c comes out of the queue before d.
AheadIn(q, c, d) == \E i, j \in 1..Len(q) : i < j /\ q[i] = c /\ q[j] = d

\* Nobody is ahead of the head, and the rest keeps its order.
LEMMA TakeKeepsTurns ==
    ASSUME NEW q, NEW prio, Queued(q, prio), q # << >>, NEW rest, rest = Tail(q)
    PROVE  /\ \A d \in Calls : ~AheadIn(q, d, Head(q))
           /\ \A c, d \in Calls : AheadIn(rest, c, d) => AheadIn(q, c, d)
  <1>1. q \in Seq(Calls) /\ Len(q) \in Nat \ {0}
    BY EmptySeq DEF Queued
  <1>2. /\ Head(q) = q[1] /\ Len(rest) = Len(q) - 1
        /\ \A i \in 1..Len(rest) : rest[i] = q[i + 1]
    BY <1>1, HeadTailProperties, EmptySeq
  <1>3. ASSUME NEW d \in Calls PROVE ~AheadIn(q, d, Head(q))
    <2> SUFFICES ASSUME NEW i \in 1..Len(q), NEW j \in 1..Len(q), i < j, q[j] = Head(q)
                 PROVE  FALSE
      BY DEF AheadIn
    <2>1. 1 \in 1..Len(q) /\ q[j] = q[1]
      BY <1>1, <1>2
    <2>2. j = 1
      BY <2>1 DEF Queued
    <2> QED BY <1>1, <2>2
  <1>4. ASSUME NEW c \in Calls, NEW d \in Calls, AheadIn(rest, c, d) PROVE AheadIn(q, c, d)
    <2>1. PICK i, j \in 1..Len(rest) : i < j /\ rest[i] = c /\ rest[j] = d
      BY <1>4 DEF AheadIn
    <2>2. i + 1 \in 1..Len(q) /\ j + 1 \in 1..Len(q) /\ i + 1 < j + 1
      BY <1>1, <1>2, <2>1
    <2>3. q[i + 1] = c /\ q[j + 1] = d
      BY <1>2, <2>1
    <2> QED BY <2>2, <2>3 DEF AheadIn
  <1> QED BY <1>3, <1>4

\* Who comes out before d with c in the queue did so without it, or is c, more urgent than d.
LEMMA InsertKeepsTurns ==
    \A q, prio, c, prio2, i : Inserts(q, prio, c, prio2, i) =>
        \A a, b \in Calls : AheadIn(InsertAt(q, i, c), a, b) =>
            \/ AheadIn(q, a, b)
            \/ b = c
            \/ a = c /\ prio2[c] < prio2[b]
  <1> SUFFICES ASSUME NEW q, NEW prio, NEW c, NEW prio2, NEW i, Inserts(q, prio, c, prio2, i),
                      NEW t, t = InsertAt(q, i, c),
                      NEW a \in Calls, NEW b \in Calls, AheadIn(t, a, b), b # c
               PROVE  AheadIn(q, a, b) \/ (a = c /\ prio2[c] < prio2[b])
    OBVIOUS
  <1> DEFINE n == Len(q)
  <1>1. IsInserted(t, q, i, c)
    BY InsertPlaces
  <1>2. /\ n \in Nat /\ i \in 1..n + 1
        /\ \A j \in 1..n : j < i <=> prio[q[j]] <= prio2[c]
        /\ prio2[c] \in Nat /\ prio[b] \in Nat /\ prio2[b] = prio[b]
    BY LenProperties DEF Inserts, Queued
  <1>3. PICK j, m \in 1..n + 1 : j < m /\ t[j] = a /\ t[m] = b
    BY <1>1 DEF AheadIn, IsInserted
  <1> HIDE DEF n
  <1>4. /\ t[j] = IF j < i THEN q[j] ELSE IF j = i THEN c ELSE q[j - 1]
        /\ t[m] = IF m < i THEN q[m] ELSE IF m = i THEN c ELSE q[m - 1]
    BY <1>1 DEF IsInserted, n
  <1>5. CASE m < i
    <2>1. j \in 1..n /\ m \in 1..n /\ q[j] = a /\ q[m] = b
      BY <1>2, <1>3, <1>4, <1>5
    <2> QED BY <1>3, <2>1 DEF AheadIn, n
  <1>6. CASE m = i
    <2>1. t[m] = c
      BY <1>2, <1>4, <1>6
    <2> QED BY <1>3, <2>1
  <1>7. CASE i < m /\ j < i
    <2>1. j \in 1..n /\ m - 1 \in 1..n /\ j < m - 1 /\ q[j] = a /\ q[m - 1] = b
      BY <1>2, <1>3, <1>4, <1>7
    <2> QED BY <2>1 DEF AheadIn, n
  <1>8. CASE i < m /\ j = i
    <2>1. m - 1 \in 1..n /\ ~(m - 1 < i) /\ q[m - 1] = b /\ a = c
      BY <1>2, <1>3, <1>4, <1>8
    <2>2. ~(prio[b] <= prio2[c])
      BY <1>2, <2>1
    <2> QED BY <1>2, <2>1, <2>2
  <1>9. CASE i < j
    <2>1. j - 1 \in 1..n /\ m - 1 \in 1..n /\ j - 1 < m - 1 /\ q[j - 1] = a /\ q[m - 1] = b
      BY <1>2, <1>3, <1>4, <1>9
    <2> QED BY <2>1 DEF AheadIn, n
  <1> QED BY <1>2, <1>3, <1>5, <1>6, <1>7, <1>8, <1>9
-------------------------------------------------------------------------------
(* Slots and turns *)

ThrottleTypes ==
    /\ Queued(queue, priority) /\ priority \in [Calls -> Priorities]
    /\ future \in [Calls -> {"none", "pending", "done", "cancelled"}]
    /\ drain \in {"none", "get", "acquire", "closed"}
    /\ inHand \in Calls \cup {NoCall} /\ (inHand # NoCall <=> drain = "acquire")
    /\ running \subseteq Calls /\ Members(queue) \cap running = {}
    /\ inHand \notin Members(queue) \cup running
    /\ overtaken \in [Calls -> 0..2]

Slots == slots \in 0..MaxConcurrent /\ slots + Cardinality(running) = MaxConcurrent

\* A waiting call is overtaken at most once, and after that is as urgent as what the loop
\* has in its hand, or less.
Turns ==
    \A c \in Members(queue) : future[c] = "pending" =>
        /\ overtaken[c] <= 1
        /\ inHand # NoCall /\ overtaken[c] = 1 => priority[inHand] <= priority[c]

ThrottleInv == ThrottleTypes /\ Slots /\ Turns

LEMMA ThrottleConstants ==
    /\ IsFiniteSet(Calls) /\ NoCall \notin Calls
    /\ Priorities \subseteq Nat /\ Priorities # {} /\ MaxConcurrent \in Nat \ {0}
  BY ThrottleAssumption

LEMMA Enqueued ==
    ASSUME ThrottleTypes,
           NEW c \in Calls, NEW p \in Priorities, Enqueue(c, p)
    PROVE  /\ Queued(queue', priority') /\ Members(queue') = Members(queue) \cup {c}
           /\ priority' = [priority EXCEPT ![c] = p] /\ priority' \in [Calls -> Priorities]
           /\ c \notin Members(queue) /\ c \notin running /\ c # inHand
           /\ \A a, b \in Calls : AheadIn(queue', a, b) =>
                 \/ AheadIn(queue, a, b)
                 \/ b = c
                 \/ a = c /\ priority'[c] < priority'[b]
  <1> DEFINE k == Cardinality({i \in 1..Len(queue) : priority[queue[i]] <= p})
  <1>1. /\ Queued(queue, priority) /\ queue \in Seq(Calls) /\ Len(queue) \in Nat
        /\ priority \in [Calls -> Nat] /\ p \in Nat
    BY ThrottleConstants, LenProperties DEF ThrottleTypes, Queued
  <1>2. c \notin Members(queue) /\ c \notin running /\ c # inHand
    BY <1>1, MembersAre, ThrottleConstants DEF Enqueue, Held
  <1>3. k \in 0..Len(queue) /\ \A i \in 1..Len(queue) : i <= k <=> priority[queue[i]] <= p
    BY <1>1, PlaceIs
  <1>4. Place(p) = k + 1
    BY MembersAre DEF Place
  <1> HIDE DEF k
  <1>5. /\ queue' = InsertAt(queue, k + 1, c)
        /\ priority' = [priority EXCEPT ![c] = p]
    BY <1>4 DEF Enqueue
  <1>6. k + 1 \in 1..Len(queue) + 1 /\ \A i \in 1..Len(queue) : i < k + 1 <=> priority[queue[i]] <= p
    BY <1>1, <1>3
  <1>7. /\ Queued(queue', priority') /\ Members(queue') = Members(queue) \cup {c}
        /\ \A a, b \in Calls : AheadIn(queue', a, b) =>
              \/ AheadIn(queue, a, b)
              \/ b = c
              \/ a = c /\ priority'[c] < priority'[b]
    <2> DEFINE i == k + 1
               t == queue'
               prio2 == priority'
    <2>1. prio2[c] = p /\ prio2[c] \in Nat /\ \A d \in Calls : d # c => prio2[d] = priority[d]
      BY <1>1, <1>5
    <2>2. /\ t = InsertAt(queue, i, c) /\ i \in 1..Len(queue) + 1
          /\ \A j \in 1..Len(queue) : j < i <=> priority[queue[j]] <= prio2[c]
      BY <1>5, <1>6, <2>1
    <2> HIDE DEF i, t, prio2
    <2>3. /\ Queued(t, prio2) /\ Members(t) = Members(queue) \cup {c}
          /\ \A a, b \in Calls : AheadIn(t, a, b) =>
                \/ AheadIn(queue, a, b)
                \/ b = c
                \/ a = c /\ prio2[c] < prio2[b]
      <3>1. Inserts(queue, priority, c, prio2, i)
        BY <1>1, <1>2, <2>1, <2>2 DEF Inserts
      <3>2. /\ Queued(InsertAt(queue, i, c), prio2)
            /\ Members(InsertAt(queue, i, c)) = Members(queue) \cup {c}
        BY <3>1, InsertIs
      <3>3. \A a, b \in Calls : AheadIn(InsertAt(queue, i, c), a, b) =>
                \/ AheadIn(queue, a, b)
                \/ b = c
                \/ a = c /\ prio2[c] < prio2[b]
        BY <3>1, InsertKeepsTurns, Zenon
      <3> QED BY <2>2, <3>2, <3>3, Zenon
    <2> QED BY <2>3 DEF t, prio2
  <1>8. priority' \in [Calls -> Priorities]
    BY <1>5 DEF ThrottleTypes
  <1> QED BY <1>2, <1>5, <1>7, <1>8

LEMMA Taken ==
    ASSUME ThrottleTypes, queue # << >>, queue' = Tail(queue), priority' = priority
    PROVE  /\ Queued(queue', priority') /\ Head(queue) \in Calls
           /\ Members(queue) = Members(queue') \cup {Head(queue)}
           /\ Head(queue) \notin Members(queue')
           /\ \A d \in Members(queue') : priority[Head(queue)] <= priority[d]
  <1>1. Queued(queue, priority)
    BY DEF ThrottleTypes
  <1> QED BY <1>1, TakeHead

LEMMA StepTypes ==
    ASSUME ThrottleTypes, [ThrottleNext]_throttleVars
    PROVE  ThrottleTypes'
  <1>1. ASSUME NEW c \in Calls, NEW p \in Priorities, Enqueue(c, p) PROVE ThrottleTypes'
    <2>1. /\ Queued(queue', priority') /\ Members(queue') = Members(queue) \cup {c}
          /\ priority' \in [Calls -> Priorities]
          /\ c \notin Members(queue) /\ c \notin running /\ c # inHand
      BY <1>1, Enqueued
    <2>2. /\ future' = [future EXCEPT ![c] = "pending"]
          /\ drain' = (IF drain = "none" THEN "get" ELSE drain)
          /\ overtaken' = [overtaken EXCEPT ![c] = 0]
          /\ inHand' = inHand /\ running' = running
      BY <1>1 DEF Enqueue
    <2> QED BY <2>1, <2>2 DEF ThrottleTypes
  <1>2. ASSUME NEW c \in Calls, CancelCaller(c) PROVE ThrottleTypes'
    BY <1>2 DEF CancelCaller, ThrottleTypes, Queued, Members
  <1>s. ASSUME NEW c, NEW rest, StartCall(c, rest)
        PROVE  overtaken' \in [Calls -> 0..2] /\ running' = running \cup {c}
    BY <1>s DEF StartCall, ThrottleTypes
  <1>3. ASSUME TakeCancelled PROVE ThrottleTypes'
    <2>1. /\ queue # << >> /\ queue' = Tail(queue)
          /\ UNCHANGED <<priority, future, drain, inHand, running, overtaken>>
      BY <1>3 DEF TakeCancelled
    <2> QED BY <2>1, Taken DEF ThrottleTypes
  <1>4. ASSUME TakeAndStart PROVE ThrottleTypes'
    <2>1. /\ queue # << >> /\ queue' = Tail(queue) /\ drain = "get"
          /\ StartCall(Head(queue), Tail(queue))
          /\ UNCHANGED <<priority, future, drain, inHand>>
      BY <1>4 DEF TakeAndStart
    <2>2. /\ overtaken' \in [Calls -> 0..2] /\ running' = running \cup {Head(queue)}
      BY <1>s, <2>1
    <2>3. inHand # Head(queue)
      BY <2>1, Taken DEF ThrottleTypes
    <2> QED BY <2>1, <2>2, <2>3, Taken DEF ThrottleTypes
  <1>5. ASSUME TakeAndWait PROVE ThrottleTypes'
    <2>1. /\ queue # << >> /\ queue' = Tail(queue) /\ inHand' = Head(queue)
          /\ drain' = "acquire" /\ UNCHANGED <<priority, future, running, overtaken>>
      BY <1>5 DEF TakeAndWait
    <2>2. Head(queue) # NoCall
      BY <2>1, Taken, ThrottleConstants
    <2> QED BY <2>1, <2>2, Taken DEF ThrottleTypes
  <1>6. ASSUME Acquired PROVE ThrottleTypes'
    <2>1. /\ drain = "acquire" /\ StartCall(inHand, queue)
          /\ inHand' = NoCall /\ drain' = "get" /\ UNCHANGED <<queue, priority, future>>
      BY <1>6 DEF Acquired
    <2>2. overtaken' \in [Calls -> 0..2] /\ running' = running \cup {inHand}
      BY <1>s, <2>1
    <2>3. Members(queue) \subseteq Calls
      BY ElementOfSeq DEF ThrottleTypes, Queued, Members
    <2>4. inHand \in Calls /\ Members(queue') = Members(queue) /\ Queued(queue', priority')
      BY <2>1 DEF ThrottleTypes
    <2> QED BY <2>1, <2>2, <2>3, <2>4, ThrottleConstants DEF ThrottleTypes
  <1>7. ASSUME NEW c \in Calls, NEW ok \in BOOLEAN, Finish(c, ok) PROVE ThrottleTypes'
    <2>1. /\ running' = running \ {c} /\ UNCHANGED <<queue, priority, drain, inHand, overtaken>>
          /\ future' \in [Calls -> {"none", "pending", "done", "cancelled"}]
      BY <1>7 DEF Finish, Settle, ThrottleTypes
    <2> QED BY <2>1 DEF ThrottleTypes
  <1>8. ASSUME Close PROVE ThrottleTypes'
    <2>1. Members(queue) \subseteq Calls
      BY ElementOfSeq DEF ThrottleTypes, Queued, Members
    <2> QED BY <1>8, <2>1, ThrottleConstants DEF Close, ThrottleTypes
  <1>9. CASE UNCHANGED throttleVars
    BY <1>9 DEF throttleVars, ThrottleTypes
  <1> QED BY <1>1, <1>2, <1>3, <1>4, <1>5, <1>6, <1>7, <1>8, <1>9
          DEF ThrottleNext, DrainStep
LEMMA StepSlots ==
    ASSUME ThrottleTypes, Slots, [ThrottleNext]_throttleVars
    PROVE  Slots'
  <1>1. /\ IsFiniteSet(running) /\ MaxConcurrent \in Nat /\ slots \in Nat
        /\ Cardinality(running) \in Nat /\ slots + Cardinality(running) = MaxConcurrent
    <2>1. IsFiniteSet(running)
      BY ThrottleConstants, FS_Subset DEF ThrottleTypes
    <2> QED BY <2>1, ThrottleConstants, FS_CardinalityType DEF Slots
  <1>2. ASSUME NEW c, NEW rest, StartCall(c, rest), c \notin running, slots > 0
        PROVE  Slots'
    <2>1. running' = running \cup {c} /\ slots' = slots - 1
      BY <1>2 DEF StartCall
    <2>2. Cardinality(running') = Cardinality(running) + 1
      BY <1>1, <1>2, <2>1, FS_AddElement
    <2> QED BY <1>1, <1>2, <2>1, <2>2 DEF Slots
  <1>3. ASSUME TakeAndStart PROVE Slots'
    <2>1. /\ queue # << >> /\ StartCall(Head(queue), Tail(queue)) /\ slots > 0
          /\ queue' = Tail(queue) /\ priority' = priority
      BY <1>3 DEF TakeAndStart
    <2>2. Head(queue) \notin running
      BY <2>1, Taken DEF ThrottleTypes
    <2> QED BY <1>2, <2>1, <2>2
  <1>4. ASSUME Acquired PROVE Slots'
    BY <1>2, <1>4 DEF Acquired, ThrottleTypes
  <1>5. ASSUME NEW c \in Calls, NEW ok \in BOOLEAN, Finish(c, ok) PROVE Slots'
    <2>1. c \in running /\ running' = running \ {c} /\ slots' = slots + 1
      BY <1>5 DEF Finish, Release
    <2>2. Cardinality(running') = Cardinality(running) - 1 /\ Cardinality(running') \in Nat
      BY <1>1, <2>1, FS_RemoveElement, FS_CardinalityType
    <2> QED BY <1>1, <2>1, <2>2 DEF Slots
  <1>6. ASSUME UNCHANGED <<running, slots>> PROVE Slots'
    BY <1>6 DEF Slots
  <1>7. ASSUME NEW c \in Calls, NEW p \in Priorities, Enqueue(c, p) PROVE Slots'
    BY <1>6, <1>7 DEF Enqueue
  <1>8. ASSUME NEW c \in Calls, CancelCaller(c) PROVE Slots'
    BY <1>6, <1>8 DEF CancelCaller
  <1>9. ASSUME TakeCancelled \/ TakeAndWait \/ Close PROVE Slots'
    BY <1>6, <1>9 DEF TakeCancelled, TakeAndWait, Close
  <1>10. CASE UNCHANGED throttleVars
    BY <1>6, <1>10 DEF throttleVars
  <1> QED BY <1>3, <1>4, <1>5, <1>7, <1>8, <1>9, <1>10 DEF ThrottleNext, DrainStep

LEMMA StepTurns ==
    ASSUME ThrottleTypes, Turns, [ThrottleNext]_throttleVars
    PROVE  Turns'
  <1>t. /\ \A c \in Members(queue) : c \in Calls /\ overtaken[c] \in 0..2 /\ priority[c] \in Nat
        /\ inHand # NoCall => priority[inHand] \in Nat
    <2>1. Members(queue) \subseteq Calls
      BY ElementOfSeq DEF ThrottleTypes, Queued, Members
    <2>2. \A c \in Calls : priority[c] \in Nat
      BY ThrottleConstants DEF ThrottleTypes
    <2> QED BY <2>1, <2>2 DEF ThrottleTypes
  <1>1. ASSUME NEW c \in Calls, NEW p \in Priorities, Enqueue(c, p) PROVE Turns'
    <2>1. /\ Members(queue') = Members(queue) \cup {c} /\ priority' = [priority EXCEPT ![c] = p]
          /\ c \notin Members(queue) /\ c # inHand
      BY <1>1, Enqueued
    <2>2. /\ future' = [future EXCEPT ![c] = "pending"] /\ overtaken' = [overtaken EXCEPT ![c] = 0]
          /\ inHand' = inHand
      BY <1>1 DEF Enqueue
    <2>3. ASSUME NEW d \in Members(queue), future'[d] = "pending"
          PROVE  /\ overtaken'[d] <= 1
                 /\ inHand' # NoCall /\ overtaken'[d] = 1 => priority'[inHand'] <= priority'[d]
      <3>1. d # c /\ d \in Calls /\ future[d] = "pending" /\ overtaken'[d] = overtaken[d]
            /\ priority'[d] = priority[d] /\ priority'[inHand] = priority[inHand]
        BY <1>t, <2>1, <2>2, <2>3 DEF ThrottleTypes
      <3> QED BY <2>2, <3>1 DEF Turns
    <2>4. overtaken'[c] = 0
      BY <2>2 DEF ThrottleTypes
    <2> QED BY <2>1, <2>3, <2>4 DEF Turns
  \* A step that changes neither the hand nor who was overtaken, and adds nobody who waits.
  <1>k. ASSUME Members(queue') \subseteq Members(queue), priority' = priority,
               \A c \in Members(queue') : future'[c] = "pending" => future[c] = "pending",
               overtaken' = overtaken, inHand' = inHand \/ inHand' = NoCall
        PROVE  Turns'
    BY <1>k DEF Turns
  <1>2. ASSUME NEW c \in Calls, CancelCaller(c) PROVE Turns'
    BY <1>2, <1>k, <1>t DEF CancelCaller, ThrottleTypes
  <1>3. ASSUME TakeCancelled PROVE Turns'
    <2>1. /\ queue # << >> /\ queue' = Tail(queue)
          /\ UNCHANGED <<priority, future, inHand, overtaken>>
      BY <1>3 DEF TakeCancelled
    <2> QED BY <1>k, <2>1, Taken
  \* The head overtakes nobody, for it is as urgent as all behind it.
  <1>4. ASSUME TakeAndStart PROVE Turns'
    <2>1. /\ queue # << >> /\ queue' = Tail(queue) /\ drain = "get"
          /\ StartCall(Head(queue), queue')
          /\ UNCHANGED <<priority, future, inHand>>
      BY <1>4 DEF TakeAndStart
    <2>2. /\ Members(queue') \subseteq Members(queue)
          /\ \A d \in Members(queue') : priority[Head(queue)] <= priority[d]
          /\ Head(queue) \in Calls
      BY <2>1, Taken
    <2>3. ToSet(queue') = Members(queue')
      BY <2>1, Taken, MembersAre DEF Queued
    <2>4. overtaken' = overtaken
      <3>1. ASSUME NEW d \in Calls
            PROVE  ~(d \in ToSet(queue') /\ priority[d] < priority[Head(queue)])
        <4>1. priority[d] \in Nat /\ priority[Head(queue)] \in Nat
          BY <2>2, ThrottleConstants DEF ThrottleTypes
        <4> QED BY <2>2, <2>3, <4>1
      <3>2. overtaken' = [d \in Calls |-> overtaken[d]]
        BY <2>1, <3>1 DEF StartCall
      <3> QED BY <3>2 DEF ThrottleTypes
    <2> QED BY <1>k, <2>1, <2>2, <2>4
  <1>5. ASSUME TakeAndWait PROVE Turns'
    <2>1. /\ queue # << >> /\ queue' = Tail(queue) /\ inHand' = Head(queue)
          /\ UNCHANGED <<priority, future, overtaken>>
      BY <1>5 DEF TakeAndWait
    <2>2. /\ Members(queue') \subseteq Members(queue)
          /\ \A d \in Members(queue') : priority[Head(queue)] <= priority[d]
      BY <2>1, Taken
    <2> QED BY <2>1, <2>2 DEF Turns
  \* What the loop had in its hand overtakes those that came meanwhile, once each.
  <1>6. ASSUME Acquired PROVE Turns'
    <2>1. /\ inHand # NoCall /\ StartCall(inHand, queue) /\ inHand' = NoCall
          /\ UNCHANGED <<queue, priority, future>>
      BY <1>6 DEF Acquired, ThrottleTypes
    <2>2. ASSUME NEW d \in Members(queue), future[d] = "pending" PROVE overtaken'[d] <= 1
      <3>1. overtaken[d] \in 0..1 /\ (overtaken[d] = 1 => priority[inHand] <= priority[d])
            /\ priority[inHand] \in Nat /\ priority[d] \in Nat /\ d \in Calls
        BY <1>t, <2>1, <2>2 DEF Turns
      <3>2. \/ overtaken'[d] = overtaken[d]
            \/ overtaken'[d] = overtaken[d] + 1 /\ priority[d] < priority[inHand]
        BY <2>1, <3>1 DEF StartCall
      <3> QED BY <3>1, <3>2
    <2> QED BY <2>1, <2>2 DEF Turns
  <1>7. ASSUME NEW c \in Calls, NEW ok \in BOOLEAN, Finish(c, ok) PROVE Turns'
    <2>1. \A d \in Members(queue) : future'[d] = "pending" => future[d] = "pending"
      BY <1>7, <1>t DEF Finish, Settle, ThrottleTypes
    <2> QED BY <1>7, <1>k, <2>1 DEF Finish
  <1>8. ASSUME Close PROVE Turns'
    BY <1>8, <1>k DEF Close
  <1>9. CASE UNCHANGED throttleVars
    BY <1>9, <1>k DEF throttleVars
  <1> QED BY <1>1, <1>2, <1>3, <1>4, <1>5, <1>6, <1>7, <1>8, <1>9
          DEF ThrottleNext, DrainStep

LEMMA InitThrottle == ASSUME ThrottleInit PROVE ThrottleInv
  <1>1. queue = << >> /\ Members(queue) = {} /\ Queued(queue, priority)
    BY EmptySeq DEF ThrottleInit, Members, Queued
  <1>2. priority \in [Calls -> Priorities]
    BY ThrottleConstants DEF ThrottleInit
  <1>3. ThrottleTypes
    BY <1>1, <1>2 DEF ThrottleInit, ThrottleTypes
  <1>4. Slots
    BY ThrottleConstants, FS_EmptySet DEF ThrottleInit, Slots
  <1> QED BY <1>1, <1>3, <1>4 DEF ThrottleInv, Turns

LEMMA StepThrottle ==
    ThrottleInv /\ [ThrottleNext]_throttleVars => ThrottleInv'
  BY StepTypes, StepSlots, StepTurns DEF ThrottleInv

LEMMA ThrottleFollows ==
    ASSUME ThrottleInv
    PROVE  SlotsConserved /\ OvertakenOnce
  <1>1. /\ queue \in Seq(Calls) /\ ToSet(queue) = Members(queue)
        /\ DOMAIN queue = 1..Len(queue)
    BY MembersAre, LenProperties DEF ThrottleInv, ThrottleTypes, Queued
  <1>2. IsInjective(queue)
    BY <1>1 DEF IsInjective, ThrottleInv, ThrottleTypes, Queued
  <1>3. \A i, j \in 1..Len(queue) : i < j => priority[queue[i]] <= priority[queue[j]]
    BY DEF ThrottleInv, ThrottleTypes, Queued
  <1>4. ThrottleTypeOK
    BY <1>1, <1>2, <1>3 DEF ThrottleTypeOK, ThrottleInv, ThrottleTypes, Slots
  <1>5. SlotsConserved
    BY <1>4, MembersAre DEF SlotsConserved, ThrottleInv, Slots
  <1>6. OvertakenOnce
    <2>1. \A c \in Calls : Waiting(c) => c \in Members(queue) /\ future[c] = "pending"
      BY <1>1 DEF Waiting
    <2> QED BY <2>1 DEF OvertakenOnce, ThrottleInv, Turns
  <1> QED BY <1>5, <1>6

\* No slot of the semaphore is lost, however calls end and whoever is cancelled, and never
\* are more requests under way than max_concurrent (_execute and its finally).
THEOREM SlotsKept == ThrottleSpec => []SlotsConserved
  <1>1. ThrottleInv => SlotsConserved
    BY ThrottleFollows
  <1>2. ThrottleInv /\ [ThrottleNext]_throttleVars => ThrottleInv'
    BY StepThrottle
  <1>3. ThrottleInit => ThrottleInv
    BY InitThrottle
  <1> QED BY <1>1, <1>2, <1>3, PTL DEF ThrottleSpec

\* A waiting call is overtaken by one less urgent call at most, the one the drain loop had
\* in its hand when it came (_drain_loop awaits the semaphore after it took the item).
THEOREM OvertakenAtMostOnce == ThrottleSpec => []OvertakenOnce
  <1>1. ThrottleInv => OvertakenOnce
    BY ThrottleFollows
  <1>2. ThrottleInv /\ [ThrottleNext]_throttleVars => ThrottleInv'
    BY StepThrottle
  <1>3. ThrottleInit => ThrottleInv
    BY InitThrottle
  <1> QED BY <1>1, <1>2, <1>3, PTL DEF ThrottleSpec

\* Only the head leaves the queue, and who is in it is passed by more urgent newcomers only.
TurnsStand ==
    [][/\ \A c \in Members(queue) \ Members(queue') : \A d \in Calls : ~AheadIn(queue, d, c)
       /\ \A c, d \in Calls : AheadIn(queue', c, d) =>
             \/ AheadIn(queue, c, d)
             \/ d \notin Members(queue)
             \/ c \notin Members(queue) /\ priority'[c] < priority'[d]]_throttleVars

\* Calls of one priority leave the queue in the order they came, and only a more urgent call
\* gets in before one that waits ((priority, seq) of the PriorityQueue), whoever is cancelled
\* and whenever the drain loop sleeps.
THEOREM QueueKeepsTurns == ThrottleSpec => TurnsStand
  <1> DEFINE Stand ==
        /\ \A c \in Members(queue) \ Members(queue') : \A d \in Calls : ~AheadIn(queue, d, c)
        /\ \A c, d \in Calls : AheadIn(queue', c, d) =>
              \/ AheadIn(queue, c, d)
              \/ d \notin Members(queue)
              \/ c \notin Members(queue) /\ priority'[c] < priority'[d]
  <1>1. ASSUME ThrottleInv, ThrottleNext PROVE Stand
    <2>1. ThrottleTypes /\ Queued(queue, priority)
      BY <1>1 DEF ThrottleInv, ThrottleTypes
    <2>2. ASSUME NEW c \in Calls, NEW p \in Priorities, Enqueue(c, p) PROVE Stand
      <3>1. /\ Members(queue') = Members(queue) \cup {c} /\ c \notin Members(queue)
            /\ \A a, b \in Calls : AheadIn(queue', a, b) =>
                  \/ AheadIn(queue, a, b)
                  \/ b = c
                  \/ a = c /\ priority'[c] < priority'[b]
        BY <2>1, <2>2, Enqueued
      <3> QED BY <3>1
    <2>3. CASE queue # << >> /\ queue' = Tail(queue) /\ priority' = priority
      <3>1. Members(queue) = Members(queue') \cup {Head(queue)}
        BY <2>1, <2>3, Taken
      <3>2. /\ \A d \in Calls : ~AheadIn(queue, d, Head(queue))
            /\ \A c, d \in Calls : AheadIn(queue', c, d) => AheadIn(queue, c, d)
        BY <2>1, <2>3, TakeKeepsTurns
      <3> QED BY <3>1, <3>2
    <2>4. CASE queue' = queue
      BY <2>4
    <2> QED BY <1>1, <2>2, <2>3, <2>4
            DEF ThrottleNext, DrainStep, TakeCancelled, TakeAndStart, TakeAndWait, Acquired,
                Close, CancelCaller, Finish
  <1>2. ThrottleInv /\ [ThrottleNext]_throttleVars => [Stand]_throttleVars
    BY <1>1
  <1>3. ThrottleInv /\ [ThrottleNext]_throttleVars => ThrottleInv'
    BY StepThrottle
  <1>4. ThrottleInit => ThrottleInv
    BY InitThrottle
  <1> QED BY <1>2, <1>3, <1>4, PTL DEF ThrottleSpec, TurnsStand
================================================================================
