----------------------------- MODULE Inference -----------------------------
(***************************************************************************)
(* The calls an attempt of execute_cti_run makes to score its items: the   *)
(* answer of the model under test, paced by a rate limiter, and for SYN    *)
(* items the judge's verdicts on its claims.  Each call is POSTed with     *)
(* retries.  An attempt that fails is followed by another, with a limiter  *)
(* of its own, after a delay.                                              *)
(*                                                                         *)
(* Time is counted from the two instants that matter, as far as the        *)
(* limiter's interval.                                                     *)
(***************************************************************************)
EXTENDS Naturals

CONSTANTS
  Prefixed,     \* prefixes of model names: "huggingface/", "openrouter/", none
  Prompts,      \* items of the run
  Verdicts,     \* bounds the judge's calls for an item
  MinInterval,  \* 60 / rpm, in the model's unit; 0 for no limit
  MaxRetries,   \* max_retries
  RetryDelay,   \* the shortest of _RETRY_DELAYS
  Reruns,       \* retries of the task
  Latencies     \* how long a request, or an overlong sleep, may take

ASSUME InferenceAssumption ==
  /\ {Prompts, Verdicts, MinInterval, MaxRetries, RetryDelay, Reruns} \subseteq Nat
  /\ Latencies \subseteq Nat
  /\ RetryDelay >= MinInterval

VARIABLES
  asking,   \* what the attempt does: "wait", "post", "judge", "done" or "stopped"
  model,    \* the name of the model under test
  to,       \* the route of the call
  tries,    \* POSTs of the call
  unscored, \* items without a result
  verdicts, \* verdicts the item has yet to get
  reruns,   \* attempts so far, without the first
  last,     \* time since the limiter's last call, NoCall before the first
  apart     \* time since the model was last asked about another item (history)

call == <<asking, to, tries>>
inference == <<call, model, unscored, verdicts, reruns, last, apart>>

NoCall == MinInterval + 1
RetryableStatus == {429, 500, 502, 503, 504}
Statuses == {200, 400} \cup RetryableStatus

Upto(d, t) == IF t + d < MinInterval THEN t + d ELSE MinInterval
-----------------------------------------------------------------------------
(* Routing: only names with the prefix huggingface/ go to Hugging Face,    *)
(* where thinking models are told not to.                                  *)
OpenrouterRoute == [provider |-> "openrouter", key |-> "OPENROUTER_API_KEY",
                    timeout |-> 90, suppress |-> FALSE]
HuggingfaceRoute(thinking) == [provider |-> "huggingface", key |-> "HF_TOKEN",
                               timeout |-> 180, suppress |-> thinking]
ResolveRoute(name, forced) ==
  IF forced \/ name.prefix # "huggingface/" THEN OpenrouterRoute
  ELSE HuggingfaceRoute(name.thinking)

RequestBody(route) ==
  {"model", "messages", "stream", "temperature"}
    \cup (IF route.suppress THEN {"thinking"} ELSE {})

ModelNames == [prefix : Prefixed, thinking : BOOLEAN]
-----------------------------------------------------------------------------
InferenceInit ==
  /\ model \in ModelNames
  /\ asking = "wait" /\ to = ResolveRoute(model, FALSE) /\ tries = 0
  /\ unscored = Prompts /\ verdicts = 0 /\ reruns = 0
  /\ last = NoCall /\ apart = MinInterval

(* The limiter sleeps until MinInterval after its last call; without a     *)
(* limit it does nothing.                                                  *)
SleepOf == IF last = NoCall THEN 0 ELSE MinInterval - last
LimiterWait_BeforeSleep(d) ==
  IF MinInterval = 0 THEN UNCHANGED <<last, apart>>
  ELSE /\ last' = Upto(d, 0) /\ apart' = Upto(SleepOf + d, apart)
LimiterWait(d) ==
  IF MinInterval = 0 THEN UNCHANGED <<last, apart>>
  ELSE /\ last' = 0 /\ apart' = Upto(SleepOf + d, apart)

Wait ==
  /\ asking = "wait" /\ unscored > 0
  /\ asking' = "post"
  /\ to' = ResolveRoute(model, FALSE) /\ tries' = 0
  /\ \E d \in Latencies : LimiterWait(d)
  /\ UNCHANGED <<model, unscored, verdicts, reruns>>

NoMore ==
  /\ asking = "wait" /\ unscored = 0
  /\ asking' = "done"
  /\ UNCHANGED <<model, to, tries, unscored, verdicts, reruns, last, apart>>

(* A POST is answered with a status, or its transport fails.               *)
Stop == asking' = "stopped" /\ UNCHANGED <<to, unscored, verdicts>>

(* A call that is answered with content gives a verdict, or the answer     *)
(* that is then judged; the item is scored when nothing is left to judge.  *)
Answered ==
  \E v \in IF asking = "judge" THEN {verdicts - 1} ELSE 0..Verdicts :
    /\ verdicts' = v
    /\ IF v = 0
       THEN asking' = "wait" /\ unscored' = unscored - 1 /\ UNCHANGED to
       ELSE asking' = "judge" /\ to' = ResolveRoute(model, TRUE) /\ UNCHANGED unscored

(* What complete makes of the reply it ends with: an error status, a body  *)
(* that is not JSON, has another shape or no content raise.                *)
ExtractContent(status, content) ==
  IF status >= 400 \/ ~content THEN tries' = tries + 1 /\ Stop
  ELSE tries' = 0 /\ Answered

(* One POST of a call, d being the time until it is answered and, when it  *)
(* is tried again, the backoff. A retryable status is tried again while    *)
(* retries are left, and is then the reply; a transport error as often.    *)
PostWithRetry(status, content, d) ==
  /\ IF tries < MaxRetries /\ status \in RetryableStatus \cup {0}
     THEN tries' = tries + 1 /\ UNCHANGED <<asking, to, unscored, verdicts>>
     ELSE IF status = 0 THEN tries' = tries + 1 /\ Stop
     ELSE ExtractContent(status, content)
  /\ last' = IF last = NoCall THEN NoCall ELSE Upto(d, last)
  /\ apart' = IF asking = "post" /\ tries = 0 THEN Upto(d, 0) ELSE Upto(d, apart)

Complete ==
  /\ asking \in {"post", "judge"}
  /\ \E status \in {0} \cup Statuses, content \in BOOLEAN, d \in Latencies :
       PostWithRetry(status, content, d)
  /\ UNCHANGED <<model, reruns>>

(* A new attempt: items whose results were not committed are asked again.  *)
Rerun ==
  /\ asking = "stopped" /\ reruns < Reruns
  /\ reruns' = reruns + 1
  /\ asking' = "wait" /\ to' = ResolveRoute(model, FALSE) /\ tries' = 0
  /\ unscored' \in unscored..Prompts /\ verdicts' = 0
  /\ last' = NoCall /\ apart' = Upto(RetryDelay, apart)
  /\ UNCHANGED model

InferenceNext == Wait \/ NoMore \/ Complete \/ Rerun

InferenceSpec == InferenceInit /\ [][InferenceNext]_inference
-----------------------------------------------------------------------------
(* Correctness *)

(* The model under test is asked about another item no sooner than         *)
(* MinInterval after the one before, in whatever attempt that was and      *)
(* however long requests, retries and sleeps took: what comes in between   *)
(* are retries of the same question and the judge's calls.                 *)
PacedCalls ==
  [][asking = "post" /\ tries = 0 /\ asking' \in {"post", "judge", "wait", "stopped"} =>
       apart >= MinInterval]_inference
=============================================================================
