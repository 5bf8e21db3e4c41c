------------------------------- MODULE RagPipeline -------------------------------
(***************************************************************************)
(* RAGDiagnosticPipeline.diagnose with its cache and its reasoning trace,  *)
(* any number of requests at a time.  A step runs from one await that can  *)
(* change the outcome to the next; the emissions of events, whose failures *)
(* are swallowed, are left out.  The caller, the diagnose endpoint, makes  *)
(* the incident's row after the pipeline has answered, or fails to.        *)
(***************************************************************************)
EXTENDS Severity, FiniteSets

CONSTANTS
    Requests,     \* calls of diagnose
    AlertOf,      \* the alert each call is about
    Facts,        \* what the classifier reads of each alert
    Key,          \* service, anomaly type and metric of each alert: the fingerprint
    Evidence,     \* [average, count] of search results, averages in tenths
    Confidences,  \* the model's own confidence, in tenths
    NoResult, NoEntry

AlertNames == {AlertOf[r] : r \in Requests}
Keys == {Key[a] : a \in AlertNames}

Kinds == {"diagnosed", "fallback", "novel", "unresolved", "unreachable", "late"}
Result == [kind : Kinds, by : Requests, severity : 1..4, approval : BOOLEAN]
Outcomes == {"success", "failed", "timeout"}

\* Alerts of one fingerprint are of one service, and so of one tier.
ASSUME PipelineAssumption ==
    /\ NoResult \notin Result
    /\ Facts \in [AlertNames -> Alerts]
    /\ \A a, b \in AlertNames : Key[a] = Key[b] => Facts[a].tier = Facts[b].tier
    /\ Evidence \subseteq [average : 0..10, count : Nat \ {0}]
    /\ Confidences \subseteq 0..10

VARIABLES
    pc,        \* the stage each request waits in
    evidence,  \* what the search found
    guess,     \* the hypothesis: the model's confidence, and whether it cites evidence
    result,    \* what the request returns
    cache,     \* the diagnostic cache
    outcome,   \* trace_outcome
    trace,     \* the row of agent_runs
    rows,      \* alerts whose row in incidents exists
    earlier    \* history: alerts some request had ended for when this one began

vars == <<pc, evidence, guess, result, cache, outcome, trace, rows, earlier>>

TypeOK ==
    /\ pc \in [Requests -> {"begin", "lookup", "retrieve", "generate", "validate", "fallback",
                            "store", "end", "done"}]
    /\ \A r \in Requests : pc[r] \in {"generate", "validate"} => evidence[r] \in Evidence
    /\ \A r \in Requests : pc[r] = "validate" => guess[r].llm \in Confidences
    /\ result \in [Requests -> Result \cup {NoResult}]
    /\ cache \in [Keys -> [result : Result, fresh : BOOLEAN] \cup {NoEntry}]
    /\ outcome \in [Requests -> Outcomes]
    /\ trace \in [Requests -> {"off", "open"} \cup Outcomes]
    /\ rows \subseteq AlertNames
    /\ earlier \in [Requests -> SUBSET AlertNames]

NoEvidence == [average |-> 0, count |-> 0]
NoGuess == [llm |-> 0, cites |-> FALSE]

Init ==
    /\ pc = [r \in Requests |-> "begin"]
    /\ evidence = [r \in Requests |-> NoEvidence]
    /\ guess = [r \in Requests |-> NoGuess]
    /\ result = [r \in Requests |-> NoResult]
    /\ cache = [k \in Keys |-> NoEntry]
    /\ outcome = [r \in Requests |-> "failed"]
    /\ trace = [r \in Requests |-> "off"]
    /\ rows = {}
    /\ earlier = [r \in Requests |-> {}]

-------------------------------------------------------------------------------
Alert(r) == Facts[AlertOf[r]]
KeyOf(r) == Key[AlertOf[r]]

Go(r, stage) == pc' = [pc EXCEPT ![r] = stage]

\* agent_runs refers to the incident's row, which the first request makes when it ends.
MayTrace(r) == AlertOf[r] \in rows

\* _trace_start_run: refused by the foreign key, failed, or switched off, there is no trace.
Begin(r, traced) ==
    /\ pc[r] = "begin"
    /\ traced => MayTrace(r)
    /\ trace' = [trace EXCEPT ![r] = IF traced THEN "open" ELSE "off"]
    /\ earlier' = [earlier EXCEPT ![r] = {AlertOf[s] : s \in {q \in Requests : pc[q] = "done"}}]
    /\ Go(r, "lookup")
    /\ UNCHANGED <<evidence, guess, result, cache, outcome, rows>>

Hit(k) == cache[k] # NoEntry /\ cache[k].fresh

\* The result is returned as it was computed for another alert of the same fingerprint.
CacheHit(r) ==
    /\ pc[r] = "lookup" /\ Hit(KeyOf(r))
    /\ result' = [result EXCEPT ![r] = cache[KeyOf(r)].result]
    /\ outcome' = [outcome EXCEPT ![r] = "success"]
    /\ Go(r, "end")
    /\ UNCHANGED <<evidence, guess, cache, trace, rows, earlier>>

CacheMiss(r) ==
    /\ pc[r] = "lookup" /\ ~Hit(KeyOf(r))
    /\ cache' = [cache EXCEPT ![KeyOf(r)] = NoEntry]
    /\ Go(r, "retrieve")
    /\ UNCHANGED <<evidence, guess, result, outcome, trace, rows, earlier>>

\* Embedding, search and reranking.
Retrieve(r, found) ==
    /\ pc[r] = "retrieve"
    /\ evidence' = [evidence EXCEPT ![r] = found]
    /\ Go(r, IF found.count > 0 THEN "generate" ELSE "fallback")
    /\ UNCHANGED <<guess, result, cache, outcome, trace, rows, earlier>>

\* SEV1 and human approval, whatever the alert.
Escalated(r, kind) == [kind |-> kind, by |-> r, severity |-> 1, approval |-> TRUE]

Answer(r, res, how) ==
    /\ result' = [result EXCEPT ![r] = res]
    /\ outcome' = [outcome EXCEPT ![r] = how]

\* Inference from the alert alone; any error or an empty root cause makes it novel.
Fallback(r, inferred) ==
    /\ pc[r] = "fallback"
    /\ Answer(r, Escalated(r, IF inferred THEN "fallback" ELSE "novel"), "success")
    /\ Go(r, "end")
    /\ UNCHANGED <<evidence, guess, cache, trace, rows, earlier>>

Generate(r, llm, cites) ==
    /\ pc[r] = "generate"
    /\ guess' = [guess EXCEPT ![r] = [llm |-> llm, cites |-> cites]]
    /\ Go(r, "validate")
    /\ UNCHANGED <<evidence, result, cache, outcome, trace, rows, earlier>>

\* Rule based validation: no model is asked about a guess without ground.
Grounded(r) == guess[r].cites /\ guess[r].llm > 0

\* The stage after which neither evidence nor guess is read.
Forget(r) ==
    /\ evidence' = [evidence EXCEPT ![r] = NoEvidence]
    /\ guess' = [guess EXCEPT ![r] = NoGuess]

\* Validation disagrees and offers no other root cause.
Unresolved(r) ==
    /\ pc[r] = "validate"
    /\ Answer(r, Escalated(r, "unresolved"), "failed")
    /\ Forget(r)
    /\ Go(r, "end")
    /\ UNCHANGED <<cache, trace, rows, earlier>>

\* Agreement, or a root cause corrected by the second model, which nobody checks; then
\* the confidence, the severity and the approval.
Diagnosed(r, agrees) ==
    /\ pc[r] = "validate" /\ Grounded(r)
    /\ LET confidence == Confidence(guess[r].llm, agrees, evidence[r].average, evidence[r].count)
       IN result' = [result EXCEPT ![r] =
              [kind |-> "diagnosed", by |-> r, severity |-> Classify(Alert(r)),
               approval |-> NeedsApproval(Alert(r), confidence)]]
    /\ Forget(r)
    /\ Go(r, "store")
    /\ UNCHANGED <<cache, outcome, trace, rows, earlier>>

\* The last of several requests that missed overwrites the others.
Store(r) ==
    /\ pc[r] = "store"
    /\ cache' = [cache EXCEPT ![KeyOf(r)] = [result |-> result[r], fresh |-> TRUE]]
    /\ outcome' = [outcome EXCEPT ![r] = "success"]
    /\ Go(r, "end")
    /\ UNCHANGED <<evidence, guess, result, trace, rows, earlier>>

\* Mutant: the except clauses leave the approval to its default.
UnavailableUnattended(r, timeout) ==
    [Escalated(r, IF timeout THEN "late" ELSE "unreachable") EXCEPT !.approval = FALSE]

Unavailable(r, timeout) == Escalated(r, IF timeout THEN "late" ELSE "unreachable")

\* Mutant: the first except clause is of OSError, which a TimeoutError is too.
OutcomeFailed(timeout) == "failed"

OutcomeOf(timeout) == IF timeout THEN "timeout" ELSE "failed"

\* ConnectionError and TimeoutError, out of the embedding, the search or a model.
BreakDown(r, timeout) ==
    /\ pc[r] \in {"retrieve", "generate", "validate"}
    /\ Answer(r, Unavailable(r, timeout), OutcomeOf(timeout))
    /\ Forget(r)
    /\ Go(r, "end")
    /\ UNCHANGED <<cache, trace, rows, earlier>>

\* Any other error, such as a relevance outside [0, 1]: no result, and outcome as it was.
Raise(r) ==
    /\ pc[r] \in {"retrieve", "generate", "validate", "fallback"}
    /\ result' = [result EXCEPT ![r] = NoResult]
    /\ Forget(r)
    /\ Go(r, "end")
    /\ UNCHANGED <<cache, outcome, trace, rows, earlier>>

\* _trace_end_run in the finally clause; then the endpoint makes the incident's row, for
\* a request that was answered and whose saving works.
End(r, traced, saved) ==
    /\ pc[r] = "end"
    /\ saved => result[r] # NoResult
    /\ trace' = [trace EXCEPT ![r] = IF @ = "open" /\ traced THEN outcome[r] ELSE @]
    /\ rows' = IF saved THEN rows \cup {AlertOf[r]} ELSE rows
    /\ Go(r, "done")
    /\ UNCHANGED <<evidence, guess, result, cache, outcome, earlier>>

\* Four hours pass.
Age(k) ==
    /\ cache[k] # NoEntry /\ cache[k].fresh
    /\ cache' = [cache EXCEPT ![k].fresh = FALSE]
    /\ UNCHANGED <<pc, evidence, guess, result, outcome, trace, rows, earlier>>

Step(r) ==
    \/ Begin(r, TRUE) \/ Begin(r, FALSE)
    \/ CacheHit(r) \/ CacheMiss(r)
    \/ \E found \in Evidence \cup {NoEvidence} : Retrieve(r, found)
    \/ \E inferred \in BOOLEAN : Fallback(r, inferred)
    \/ \E llm \in Confidences, cites \in BOOLEAN : Generate(r, llm, cites)
    \/ Unresolved(r)
    \/ \E agrees \in BOOLEAN : Diagnosed(r, agrees)
    \/ Store(r)
    \/ \E traced, saved \in BOOLEAN : End(r, traced, saved)

Next ==
    \/ \E r \in Requests : Step(r) \/ Raise(r) \/ \E timeout \in BOOLEAN : BreakDown(r, timeout)
    \/ \E k \in Keys : Age(k)

Spec == Init /\ [][Next]_vars

-------------------------------------------------------------------------------
(* Properties *)

\* Human approval is waived only on a service of tier 3 or 4, the request's own, and by a
\* diagnosis with evidence of an alert of the same fingerprint that is SEV3 or SEV4.  The
\* cache may hand it to an alert that is graver; it hands over nothing that was escalated.
WaiverIsEarned ==
    TypeOK /\ \A r \in Requests : result[r] # NoResult =>
        LET by == result[r].by
        IN /\ KeyOf(by) = KeyOf(r)
           /\ by # r => result[r].kind = "diagnosed"
           /\ ~result[r].approval =>
                /\ result[r].kind = "diagnosed"
                /\ Classify(Alert(by)) >= 3 /\ Alert(r).tier >= 3

\* A trace that was closed tells what the caller was given, over every exit, one of
\* another request's result included: success for a diagnosis or the verdict that the
\* incident is novel, timeout for a timeout, failed for the rest, no answer among them.
\* And there is none for the first diagnosis of an alert: a run is traced only when
\* another request for the alert had ended before it began.
TraceIsTrue ==
    \A r \in Requests :
        /\ pc[r] = "done" /\ trace[r] \in Outcomes =>
             trace[r] = IF result[r] = NoResult THEN "failed"
                        ELSE IF result[r].kind = "late" THEN "timeout"
                        ELSE IF result[r].kind \in {"unresolved", "unreachable"} THEN "failed"
                        ELSE "success"
        /\ trace[r] # "off" => AlertOf[r] \in earlier[r]

\* Every severity handed out is 1 or that of the alert the diagnosis was made for, and the
\* classifier gives no alert a lesser one than a milder alert, but for one edge: see
\* Severity, here over the alerts with every tier, blast and deviation.
Sampled == {a \in Alerts : a.hours \in {0, 1, 2, 5, 6, 23, 24}}
Monotone == SeverityMonotone(Sampled)
LowersOnlyAtEdge == InducedLowersOnlyAtEdge(Sampled)
SeverityAnswers ==
    /\ \A r \in Requests : result[r] # NoResult =>
           result[r].severity \in {1, Classify(Alert(result[r].by))}
    /\ Monotone /\ LowersOnlyAtEdge
===============================================================================
