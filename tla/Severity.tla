--------------------------------- MODULE Severity ---------------------------------
(***************************************************************************)
(* SeverityClassifier, ConfidenceScorer and the approval rule of the       *)
(* pipeline, as operators.  Their floating point weights are taken exactly, *)
(* in units of 1/3000 for the severity and 1/1000 for the confidence, on   *)
(* inputs in tenths.  Severities are numbers, 1 the gravest.               *)
(***************************************************************************)
EXTENDS Naturals

\* tier: criticality of the service, 1 for one that is not configured; critical: the
\* description holds a keyword; blast, deviation: tenths, deviation is |sigma| up to 10;
\* induced: by a deployment; hours: left to a certificate, 24 for alerts of other kinds.
Alerts == [tier : 1..4, critical : BOOLEAN, blast : 0..10, deviation : 0..10,
           induced : BOOLEAN, hours : 0..24]

\* ImpactDimensions.compute_severity_score; the pipeline passes no number of users.
Score(a) ==
    250 * (4 - a.tier) + 60 * a.blast + 15 * (4 - a.tier) * a.deviation
    + (IF a.induced THEN 60 ELSE 180)

Level(score) == IF score >= 2250 THEN 1 ELSE IF score >= 1500 THEN 2
                ELSE IF score >= 750 THEN 3 ELSE 4

\* Mutant: < 3 in place of < 4.
ElevatedTop(level) == IF level >= 3 THEN level ELSE 1

\* SEV4 is left where it is.
Elevated(level) == IF level = 4 THEN 4 ELSE IF level > 1 THEN level - 1 ELSE 1

\* A certificate about to expire is at least this grave.
CertificateFloor(hours) == IF hours < 2 THEN 1 ELSE IF hours < 6 THEN 2
                           ELSE IF hours < 24 THEN 3 ELSE 4

Gravest(s, t) == IF s < t THEN s ELSE t

Classify(a) ==
    IF a.critical THEN 1
    ELSE Gravest(CertificateFloor(a.hours),
                 IF a.induced THEN Elevated(Level(Score(a))) ELSE Level(Score(a)))

\* llm: the model's own confidence; agrees: the second opinion; average: of the relevance
\* of the evidence; count: pieces of evidence.  All but agrees in tenths.
Confidence(llm, agrees, average, count) ==
    35 * llm + (IF agrees THEN 250 ELSE 175) + 25 * average
    + 15 * (IF count < 10 THEN count ELSE 10)

\* SEV1 and SEV2, a confidence below AUTONOMOUS, and services of tier 1 and 2.
NeedsApproval(a, confidence) == Classify(a) <= 2 \/ confidence < 850 \/ a.tier <= 2

-------------------------------------------------------------------------------
\* Alerts one step graver than a.
Graver(a) ==
    {[a EXCEPT !.blast = @ + 1], [a EXCEPT !.deviation = @ + 1], [a EXCEPT !.tier = @ - 1],
     [a EXCEPT !.hours = @ - 1], [a EXCEPT !.critical = TRUE]} \cap Alerts

\* A wider blast, a stronger deviation, a more critical service, a keyword or fewer hours
\* never make an alert less severe, across the weights, the elevation of alerts a
\* deployment induced, which leaves SEV4 out, and the floor of certificates.
SeverityMonotone(alerts) == \A a \in alerts : \A b \in Graver(a) : Classify(b) <= Classify(a)

\* A deployment as the cause, which lowers the score by 120 and then raises the level,
\* never makes an alert less severe, except one less than that above the threshold of
\* SEV3: it falls to SEV4, which is not raised.
InducedLowersOnlyAtEdge(alerts) ==
    \A a \in alerts : ~a.induced =>
        LET b == [a EXCEPT !.induced = TRUE]
        IN Classify(b) <= Classify(a) \/ (Classify(b) = 4 /\ Score(a) \in 750..869)
===============================================================================
