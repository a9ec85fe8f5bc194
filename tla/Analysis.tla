------------------------------ MODULE Analysis ------------------------------
(***************************************************************************)
(* AnalystCoordinator.analyze() (analyst/coordinator.py) over RuleEngine   *)
(* and LLMAnalyzer (llm/analyzer.py), from the boot on: one analysis after *)
(* the other, as a worker of the work queue runs them.  The event loop is  *)
(* busy from the request to the first call of the model; from then on      *)
(* every answer of Ollama is one step, and an analysis of another worker   *)
(* may find Ollama gone in between.                                        *)
(*                                                                         *)
(* Ollama is modelled by how its answers are told apart: a diagnosis, text *)
(* that cannot be parsed, a refused connection, a time-out or HTTP error,  *)
(* and an httpx error of another kind (a connection that breaks).  Of a    *)
(* diagnosis only the confidence computed for it is kept and whether       *)
(* quality_check() passes it.  Penalties and warnings in the text of the   *)
(* response are left out.                                                  *)
(***************************************************************************)
EXTENDS RuleEngine

CONSTANTS
    MaxEvents,  \* bound: events found for one resource
    MaxRetries, \* config.ollama.max_retries
    Citations   \* numbers of citations a diagnosis may carry

ASSUME AnalysisAssumption ==
    /\ MaxEvents \in Nat \ {0} /\ MaxRetries \in Nat
    /\ Citations \subseteq Nat

QualityRetries == 2

VARIABLES
    analyzer,  \* _llm_analyzer: "off" (None), or "up" or "down" by available
    stage,     \* where the worker is
    seen,      \* cache_readiness, read once
    pending,   \* events of the resource not evaluated yet
    attempt,   \* attempt, of LLMAnalyzer.analyze
    supported, \* whether the evidence holds a change
    answer,    \* llm_result
    quality,   \* quality: what the last check said
    retries,   \* quality_retries
    calls,     \* history: requests to Ollama in this analysis
    response   \* the RCAResponse
llmVars == <<attempt, supported, answer, quality, retries, calls>>
vars == <<engineVars, analyzer, stage, seen, pending, llmVars, response>>

Readiness == {"WARMING", "PARTIALLY_READY", "READY", "DEGRADED"}
Answers == [conf : 0..70, good : BOOLEAN]
Responses == [by : {"RULE_ENGINE", "LLM", "INCONCLUSIVE"}, conf : 0..95, state : Readiness]

AnalysisTypeOK ==
    /\ EngineTypeOK
    /\ analyzer \in {"off", "up", "down"}
    /\ stage \in {"booting", "idle", "evaluating", "asking", "checking", "retrying",
                  "answered", "raised"}
    /\ seen \in Readiness /\ pending \in 0..MaxEvents
    /\ attempt \in 0..MaxRetries /\ supported \in BOOLEAN
    /\ answer \in Answers \cup {None}
    /\ quality \in {"unchecked", "passed", "failed"}
    /\ retries \in 0..QualityRetries /\ calls \in Nat
    /\ response \in Responses \cup {None}

Init ==
    /\ EngineInit
    /\ analyzer = "off" /\ stage = "booting" /\ seen = "WARMING" /\ pending = 0
    /\ attempt = 0 /\ supported = FALSE /\ answer = None
    /\ quality = "unchecked" /\ retries = 0 /\ calls = 0
    /\ response = None

-----------------------------------------------------------------------------
\* _start_rule_engine
Boot ==
    /\ stage = "booting" /\ RegisterNext
    /\ UNCHANGED <<analyzer, stage, seen, pending, llmVars, response>>

(* _start_llm: disabled or failing to start, or made with what the one     *)
(* health check found.                                                     *)
StartLLM ==
    /\ stage = "booting" /\ Complete
    /\ analyzer' \in {"off", "up", "down"}
    /\ stage' = "idle"
    /\ UNCHANGED <<engineVars, seen, pending, llmVars, response>>

-----------------------------------------------------------------------------
Within(x, limit) == IF x < 0 THEN 0 ELSE IF x > limit THEN limit ELSE x

Respond(r) == response' = r /\ stage' = "answered"
Inconclusive(state) == [by |-> "INCONCLUSIVE", conf |-> 0, state |-> state]

\* analyze() on bad arguments, a warming cache or a resource without events
AnswerAtOnce ==
    /\ stage = "idle"
    /\ \E state \in Readiness : seen' = state /\ Respond(Inconclusive(state))
    /\ UNCHANGED <<engineVars, analyzer, pending, llmVars>>

\* analyze() has read the readiness and found events
Analyze ==
    /\ stage = "idle"
    /\ seen' \in Readiness \ {"WARMING"}
    /\ pending' \in 1..MaxEvents
    /\ stage' = "evaluating"
    /\ UNCHANGED <<engineVars, analyzer, llmVars, response>>

\* Mutant: the loop over the events does not advance.
EvaluateSameEvent ==
    /\ stage = "evaluating" /\ phase = "idle"
    /\ \E s \in Situations : Begin(s)
    /\ UNCHANGED <<analyzer, stage, seen, pending, llmVars, response>>

\* evaluate() is called with the next event
EvaluateEvent ==
    /\ stage = "evaluating" /\ phase = "idle"
    /\ pending' = pending - 1
    /\ \E s \in Situations : Begin(s)
    /\ UNCHANGED <<analyzer, stage, seen, llmVars, response>>

Evaluate ==
    /\ stage = "evaluating" /\ Scan
    /\ UNCHANGED <<analyzer, stage, seen, pending, llmVars, response>>

Evaluated == stage = "evaluating" /\ phase = "returned"

\* no rule for this event: on to the next
NextEvent ==
    /\ Evaluated /\ best = None /\ pending > 0
    /\ Forget
    /\ UNCHANGED <<analyzer, stage, seen, pending, llmVars, response>>

\* _rule_result_to_rca_response
Penalised(conf, state) ==
    Within(CASE state = "DEGRADED" -> conf - 10
             [] state = "PARTIALLY_READY" -> conf - 15
             [] OTHER -> conf, 95)

AnswerByRule ==
    /\ Evaluated /\ best # None
    /\ Respond([by |-> "RULE_ENGINE", conf |-> Penalised(best.conf, seen), state |-> seen])
    /\ Forget
    /\ UNCHANGED <<analyzer, seen, pending, llmVars>>

Unexplained == Evaluated /\ best = None /\ pending = 0

\* no rule, and the cache is degraded or there is no model to ask
AnswerInconclusive ==
    /\ Unexplained
    /\ seen = "DEGRADED" \/ analyzer # "up"
    /\ Respond(Inconclusive(seen))
    /\ Forget
    /\ UNCHANGED <<analyzer, seen, pending, llmVars>>

\* the evidence is assembled and the model is asked
Escalate ==
    /\ Unexplained
    /\ seen # "DEGRADED" /\ analyzer = "up"
    /\ supported' \in BOOLEAN
    /\ stage' = "asking" /\ calls' = 1
    /\ Forget
    /\ UNCHANGED <<analyzer, seen, pending, attempt, answer, quality, retries, response>>

-----------------------------------------------------------------------------
\* _compute_confidence
LLMConfidence(n, chained) ==
    CASE n = 0 -> IF chained THEN 35 ELSE 30
      [] n \in 1..2 -> 40 + 5 * (n - 1)
      [] OTHER -> (IF supported THEN 60 ELSE 50) + Lesser(2 * (n - 3), 9)

(* _build_result and quality_check: fewer than two citations never pass,   *)
(* more may still fail on the reason or on the state; a diagnosis with     *)
(* keys missing has 0.30.                                                  *)
Diagnoses ==
    {[conf |-> IF partial THEN 30 ELSE LLMConfidence(n, chained), good |-> good /\ n >= 2] :
        n \in Citations, partial \in BOOLEAN, chained \in BOOLEAN, good \in BOOLEAN}

\* the one place where available changes after the boot
Refused == analyzer' = "down"
NotRefused == UNCHANGED analyzer

(* LLMAnalyzer.analyze: the call in flight brings a diagnosis.             *)
Diagnosed ==
    /\ stage = "asking"
    /\ answer' \in Diagnoses
    /\ stage' = "checking"
    /\ NotRefused
    /\ UNCHANGED <<engineVars, seen, pending, attempt, supported, quality, retries, calls,
                   response>>

\* Mutant: one attempt too many.
AskOnceTooOften ==
    /\ stage = "asking" /\ attempt <= MaxRetries
    /\ attempt' = attempt + 1 /\ calls' = calls + 1
    /\ NotRefused
    /\ UNCHANGED <<engineVars, stage, seen, pending, supported, answer, quality, retries,
                   response>>

(* Text that cannot be parsed is sent back with a correction, while there  *)
(* are attempts left.                                                      *)
AskAgain ==
    /\ stage = "asking" /\ attempt < MaxRetries
    /\ attempt' = attempt + 1 /\ calls' = calls + 1
    /\ NotRefused
    /\ UNCHANGED <<engineVars, stage, seen, pending, supported, answer, quality, retries,
                   response>>

(* No diagnosis: the attempts are used up, the connection is refused, or   *)
(* the call ended in a time-out or an HTTP error.                          *)
NotDiagnosed ==
    /\ stage = "asking"
    /\ NotRefused \/ Refused
    /\ Respond(Inconclusive(seen))
    /\ UNCHANGED <<engineVars, seen, pending, llmVars>>

(* Any other httpx error passes through _call_ollama, both callers and     *)
(* the coordinator.                                                        *)
Broken ==
    /\ stage \in {"asking", "retrying"}
    /\ stage' = "raised"
    /\ UNCHANGED <<engineVars, analyzer, seen, pending, llmVars, response>>

\* _llm_result_to_rca_response, after the cap on an answer that did not pass
RespondFrom(a, verdict) ==
    LET capped == IF verdict = "failed" THEN Lesser(a.conf, 35) ELSE a.conf
    IN Respond([by |-> "LLM", state |-> seen,
                conf |-> Within(IF seen = "DEGRADED" THEN capped - 10 ELSE capped, 70)])

\* the top of the quality loop: check, and answer or ask once more
Check ==
    /\ stage = "checking"
    /\ quality' = IF answer.good THEN "passed" ELSE "failed"
    /\ \/ /\ answer.good
          /\ RespondFrom(answer, "passed")
          /\ UNCHANGED <<retries, calls>>
       \/ /\ ~ answer.good
          /\ retries' = retries + 1 /\ calls' = calls + 1
          /\ stage' = "retrying"
          /\ UNCHANGED response
    /\ UNCHANGED <<engineVars, analyzer, seen, pending, attempt, supported, answer>>

\* Mutant: a retry that brings a diagnosis is taken to have repaired it.
RetriedTrusted ==
    /\ stage = "retrying"
    /\ answer' \in Diagnoses
    /\ RespondFrom(answer', "passed")
    /\ NotRefused
    /\ UNCHANGED <<engineVars, seen, pending, attempt, supported, quality, retries, calls>>

\* Mutant: the loop has no bound.
RetriedForever ==
    /\ stage = "retrying"
    /\ answer' \in Diagnoses
    /\ stage' = "checking"
    /\ NotRefused
    /\ UNCHANGED <<engineVars, seen, pending, attempt, supported, quality, retries, calls,
                   response>>

(* The retry brings a diagnosis: it is checked at the top of the loop, but *)
(* the loop ends when the retries are used up, with the last check's       *)
(* verdict on the answer before.                                           *)
Retried ==
    /\ stage = "retrying"
    /\ answer' \in Diagnoses
    /\ \/ retries < QualityRetries /\ stage' = "checking" /\ UNCHANGED response
       \/ retries = QualityRetries /\ RespondFrom(answer', quality)
    /\ NotRefused
    /\ UNCHANGED <<engineVars, seen, pending, attempt, supported, quality, retries, calls>>

\* the retry brings none: the loop ends with the answer it has
NotRetried ==
    /\ stage = "retrying"
    /\ NotRefused \/ Refused
    /\ RespondFrom(answer, quality)
    /\ UNCHANGED <<engineVars, seen, pending, llmVars>>

\* the worker goes on with the answer, or the exception, of analyze()
Return ==
    /\ stage \in {"answered", "raised"}
    /\ stage' = "idle" /\ seen' = "WARMING" /\ response' = None
    /\ pending' = 0 /\ attempt' = 0 /\ supported' = FALSE /\ answer' = None
    /\ quality' = "unchecked" /\ retries' = 0 /\ calls' = 0
    /\ UNCHANGED <<engineVars, analyzer>>

\* an analysis of another worker is refused while this one waits
OtherRefused ==
    /\ stage \in {"idle", "asking", "retrying"}
    /\ analyzer = "up" /\ Refused
    /\ UNCHANGED <<engineVars, stage, seen, pending, llmVars, response>>

-----------------------------------------------------------------------------
Work ==
    \/ EvaluateEvent \/ Evaluate \/ NextEvent \/ AnswerByRule \/ AnswerInconclusive \/ Escalate
    \/ Diagnosed \/ AskAgain \/ NotDiagnosed \/ Broken
    \/ Check \/ Retried \/ NotRetried \/ Return

Next == Boot \/ StartLLM \/ AnswerAtOnce \/ Analyze \/ Work \/ OtherRefused

(* An analysis under way goes on: the code has a time-out on every wait    *)
(* (500 ms on a correlation, the client's on a call of Ollama).            *)
Spec == Init /\ [][Next]_vars /\ WF_vars(Work)

-----------------------------------------------------------------------------
(* The quality gate: an answer of the model that is given with more than   *)
(* 0.35 is one that passes quality_check() itself, whichever retry brought *)
(* it.                                                                     *)
CheckedOrCapped ==
    response # None /\ response.by = "LLM" /\ response.conf > 35 => answer.good

(* One analysis costs at most max_retries + 1 calls for a diagnosis and    *)
(* two for its quality, whatever Ollama answers (INV-A03).                 *)
BoundedCalls == calls <= MaxRetries + 1 + QualityRetries

(* Every analysis ends, with an answer or with an exception.               *)
AnalysisEnds == stage = "evaluating" ~> stage \in {"answered", "raised"}

(* "Always returns an RCAResponse, never raises" (coordinator.py:411):     *)
(* does not hold of the code.                                              *)
NeverRaises == stage # "raised"

(* "Final quality check after retries exhausted" (coordinator.py:600): an  *)
(* answer that would pass is given as it is.  Does not hold of the code.   *)
FinalAnswerChecked ==
    response # None /\ response.by = "LLM" /\ answer.good => response.conf = answer.conf
=============================================================================
