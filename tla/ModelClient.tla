----------------------------- MODULE ModelClient -----------------------------
(***************************************************************************)
(* A run's conversation with its model: up to four structured answers, in   *)
(* order, each fetched over HTTP, decoded and validated against a schema.   *)
(* The OpenAI-compatible adapter (also behind ollama and vllm) retries once *)
(* on an answer that does not validate and falls back from json_schema to   *)
(* json_object on a 400 or 422 (agent/openai_compat.py); the Anthropic one  *)
(* does neither (agent/anthropic.py).  All prompts but the replan's carry   *)
(* the packed source.  The counters end in the metrics of the published     *)
(* packet.                                                                  *)
(***************************************************************************)
EXTENDS ContextPack

CONSTANTS Routes,     \* adapters: a subset of {"openai", "anthropic"}
          Formats,    \* configured formats: of {"json_schema", "json_object"}
          Sources     \* workspaces a run may be about

ASSUME RouteAssumption ==
  /\ Routes \subseteq {"openai", "anthropic"}
  /\ Formats \subseteq {"json_schema", "json_object"}
  /\ Sources \subseteq Workspaces

VARIABLES route, format, source,   \* fixed for the run
          at,                \* where the run's thread is
          answers,           \* structured answers returned so far
          attempt,           \* 0, then 1 for the correction
          messages,          \* the conversation of the call under way
          calls, retries, fallbacks,   \* the adapter's counters
          requests,          \* requests the server has received
          published          \* the counters as published, or Unpublished

configVars == <<route, format, source>>
counters == <<calls, retries, fallbacks>>
vars == <<configVars, at, answers, attempt, messages, counters, requests, published>>

(* The order in which the pipeline asks.                                   *)
Calls == <<"plan", "compile_probes", "replan", "generate_patch">>

Unpublished == [llm_calls |-> 0, retries |-> 0, fallbacks |-> 0]

Packed(n) ==
  IF Calls[n] = "replan" THEN NoPack ELSE repository_context(source)

Message(role, n, chunks) == [role |-> role, about |-> Calls[n], context |-> chunks]

Prompt(n) == <<Message("system", n, << >>), Message("user", n, Packed(n).chunks)>>

(* What is appended when answer n did not validate: the answer itself and   *)
(* the request to correct it.                                               *)
Correction(n) == <<Message("assistant", n, << >>), Message("user", n, << >>)>>

TypeOK ==
  /\ route \in Routes
  /\ format \in Formats
  /\ source \in Sources
  /\ at \in {"pipeline", "post", "post_plain", "decode", "validate",
             "published", "raised"}
  /\ answers \in 0..Len(Calls)
  /\ attempt \in 0..1
  /\ messages \in Seq([role    : {"system", "user", "assistant"},
                       about   : {Calls[n] : n \in DOMAIN Calls},
                       context : Seq([path : Seq(STRING), length : Nat,
                                      whole : BOOLEAN])])
  /\ calls \in Nat /\ retries \in Nat /\ fallbacks \in Nat /\ requests \in Nat
  /\ published \in [llm_calls : Nat, retries : Nat, fallbacks : Nat]

Init ==
  /\ route \in Routes
  /\ format \in Formats
  /\ source \in Sources
  /\ at = "pipeline"
  /\ answers = 0
  /\ attempt = 0
  /\ messages = << >>
  /\ calls = 0 /\ retries = 0 /\ fallbacks = 0
  /\ requests = 0
  /\ published = Unpublished

Raises ==
  /\ at' = "raised"
  /\ UNCHANGED <<configVars, answers, attempt, messages, retries, published>>

-----------------------------------------------------------------------------
(* The pipeline asks for the next answer: a conversation of its own.       *)
Ask ==
  /\ at = "pipeline"
  /\ answers < Len(Calls)
  /\ ~ Packed(answers + 1).raised
  /\ messages' = Prompt(answers + 1)
  /\ attempt' = 0
  /\ at' = "post"
  /\ UNCHANGED <<configVars, answers, counters, requests, published>>

(* A file that cannot be read ends the call before anything is sent.       *)
PackingRaises ==
  /\ at = "pipeline"
  /\ answers < Len(Calls)
  /\ Packed(answers + 1).raised
  /\ Raises
  /\ UNCHANGED <<calls, fallbacks, requests>>

CanFallBack == route = "openai" /\ format = "json_schema"

(* Variant: the first request of a fallback is not counted as one.         *)
PostUncounted ==
  /\ at = "post"
  /\ requests' = requests + 1
  /\ at' \in {"decode"} \cup (IF CanFallBack THEN {"post_plain"} ELSE {})
  /\ UNCHANGED <<configVars, answers, attempt, messages, counters, published>>

(* The server answers, or refuses the schema and is asked again at once.   *)
Post ==
  /\ at = "post"
  /\ requests' = requests + 1
  /\ \/ at' = "decode" /\ UNCHANGED fallbacks
     \/ CanFallBack /\ at' = "post_plain" /\ fallbacks' = fallbacks + 1
  /\ UNCHANGED <<configVars, answers, attempt, messages, calls, retries, published>>

PostPlain ==
  /\ at = "post_plain"
  /\ requests' = requests + 1
  /\ at' = "decode"
  /\ UNCHANGED <<configVars, answers, attempt, messages, counters, published>>

(* A timeout, a transport error, or a status that raise_for_status raises   *)
(* on: outside the inner try, so there is no retry.                         *)
PostFails ==
  /\ at \in {"post", "post_plain"}
  /\ requests' = requests + 1
  /\ Raises
  /\ UNCHANGED <<calls, fallbacks>>

(* The body is JSON and has the fields expected: the call is counted.      *)
Decode ==
  /\ at = "decode"
  /\ calls' = calls + 1
  /\ at' = "validate"
  /\ UNCHANGED <<configVars, answers, attempt, messages, retries, fallbacks,
                 requests, published>>

(* It is not JSON (not counted), or usage or choices are malformed (counted *)
(* already).                                                                *)
DecodeFails ==
  /\ at = "decode"
  /\ calls' \in {calls, calls + 1}
  /\ Raises
  /\ UNCHANGED <<fallbacks, requests>>

(* The content fits the schema.                                            *)
Accept ==
  /\ at = "validate"
  /\ answers' = answers + 1
  /\ at' = "pipeline"
  /\ UNCHANGED <<configVars, attempt, messages, counters, requests, published>>

(* Variant: every correction is counted as an attempt, none is the last.   *)
CorrectEachTime ==
  /\ at = "validate"
  /\ route = "openai"
  /\ retries' = retries + 1
  /\ messages' = messages \o Correction(answers + 1)
  /\ attempt' = attempt + 1
  /\ at' = "post"
  /\ UNCHANGED <<configVars, answers, calls, fallbacks, requests, published>>

(* Variant: the retry is not bounded.                                      *)
AskAgain ==
  /\ at = "validate"
  /\ route = "openai"
  /\ at' = "post"
  /\ messages' = Prompt(answers + 1) \o Correction(answers + 1)
  /\ UNCHANGED <<configVars, answers, attempt, counters, requests, published>>

(* Variant: the correction goes out without the prompt it is about.        *)
CorrectWithoutPrompt ==
  /\ at = "validate"
  /\ route = "openai"
  /\ attempt = 0
  /\ retries' = retries + 1
  /\ messages' = Correction(answers + 1)
  /\ attempt' = 1
  /\ at' = "post"
  /\ UNCHANGED <<configVars, answers, calls, fallbacks, requests, published>>

(* It does not, and this was the first attempt: ask for a correction.      *)
Correct ==
  /\ at = "validate"
  /\ route = "openai"
  /\ attempt = 0
  /\ retries' = retries + 1
  /\ messages' = messages \o Correction(answers + 1)
  /\ attempt' = 1
  /\ at' = "post"
  /\ UNCHANGED <<configVars, answers, calls, fallbacks, requests, published>>

(* Nor did the correction, or the adapter asks for none.                   *)
GiveUp ==
  /\ at = "validate"
  /\ route = "anthropic" \/ attempt = 1
  /\ Raises
  /\ UNCHANGED <<calls, fallbacks, requests>>

(* The packet takes the metrics: after two answers when a premise stayed    *)
(* unknown (or in preflight), after three when the replan was rejected,     *)
(* after four when the patch was checked.                                   *)
Publish ==
  /\ at = "pipeline"
  /\ answers \in 2..4
  /\ published' = [llm_calls |-> calls, retries |-> retries, fallbacks |-> fallbacks]
  /\ at' = "published"
  /\ UNCHANGED <<configVars, answers, attempt, messages, counters, requests>>

Next == \/ Ask \/ PackingRaises \/ Post \/ PostPlain \/ PostFails \/ Decode \/ DecodeFails
        \/ Accept \/ Correct \/ GiveUp \/ Publish

Spec == Init /\ [][Next]_vars

-----------------------------------------------------------------------------
(* What a model is sent of the repository fits the budget, whatever the     *)
(* roots and however long the files: the sum is passed by the mark of one   *)
(* cut at most, and only what comes last is cut (context.py:65-75).         *)
ContextFitsBudget ==
  at \in {"post", "post_plain"} => FitsBudget(messages[2].context)

(* A model that is asked about the repository sees all of it that the roots *)
(* offer, in path order, or a beginning that uses the budget up: no file is *)
(* skipped for a later one, and no premise is drawn up or probed from a     *)
(* pack with a hole (context.py:52-75).                                     *)
ContextHasNoGap ==
  at \in {"post", "post_plain"} /\ Calls[answers + 1] # "replan" =>
    HasNoGap(source, messages[2].context)

(* The published numbers can be audited: every answer took one call plus    *)
(* its retry, every call one request plus its fallback, no answer took more *)
(* than one retry and no call more than one fallback, and what cannot fall  *)
(* back or retry reports none (openai_compat.py:41-51 and 97-121).          *)
MetricsReconcile ==
  at = "published" =>
    /\ published.llm_calls = answers + published.retries
    /\ requests = published.llm_calls + published.fallbacks
    /\ published.retries <= answers
    /\ published.fallbacks <= published.llm_calls
    /\ ~ CanFallBack => published.fallbacks = 0
    /\ route = "anthropic" => published.retries = 0

(* However the server behaves, a call costs at most two attempts of two     *)
(* requests each, so a run never sends more than sixteen                    *)
(* (openai_compat.py:70, 97-104).                                           *)
RequestsAreBounded ==
  LET started == IF at \in {"pipeline", "published"} THEN answers ELSE answers + 1
  IN requests <= 4 * started

(* What goes out is the prompt of this very call, and on the second attempt *)
(* the rejected answer with its correction after it: nothing of an earlier  *)
(* call, and never two corrections (openai_compat.py:55-68, 122-133).       *)
ConversationIsOwn ==
  at \in {"post", "post_plain"} =>
    messages = Prompt(answers + 1)
                 \o (IF attempt = 1 THEN Correction(answers + 1) ELSE << >>)
=============================================================================
