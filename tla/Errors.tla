------------------------------- MODULE Errors -------------------------------
(***************************************************************************)
(* What an exception becomes for a client (errors.py): its code, the code's *)
(* HTTP status and whether retrying can help.  An exception is its class,   *)
(* what the class's own fields say, and what the project's classifiers make *)
(* of it; a chain is the exception, its cause, the cause of that, and so on. *)
(***************************************************************************)
EXTENDS Naturals, Sequences, FiniteSets

NoCode == "no_code"

\* What an exception says that gives no further hint, and what a rule asks of
\* one that may say anything.
Silent == "silent"

(***************************************************************************)
(* The registered codes.                                                   *)
(***************************************************************************)
StatusOf(code) ==
    CASE code \in {"context_overflow", "content_filtered", "file_unsupported", "invalid_request"} -> 400
      [] code = "permission_denied" -> 403
      [] code = "not_found" -> 404
      [] code = "conflict" -> 409
      [] code = "rate_limited" -> 429
      [] code \in {"provider_unavailable", "knowledge_unavailable"} -> 503
      [] code = "provider_timeout" -> 504
      [] code \in {"configuration_error", "tool_failed", "file_processing_failed", "unknown"} -> 500

Retryable == {"rate_limited", "provider_unavailable", "provider_timeout", "knowledge_unavailable",
              "tool_failed", "file_processing_failed", "unknown"}

Code == Retryable \cup {"context_overflow", "content_filtered", "file_unsupported", "invalid_request",
                        "permission_denied", "not_found", "conflict", "configuration_error"}

\* A code nobody registered is shown as `unknown`.
ErrorSpec(code) ==
    LET shown == IF code \in Code THEN code ELSE "unknown"
    IN  [code |-> shown, status |-> StatusOf(shown), retryable |-> shown \in Retryable]

(***************************************************************************)
(* Classes, each with the one it extends.                                  *)
(***************************************************************************)
StatusErrors == {"RateLimitError", "NotFoundError", "AuthenticationError", "PermissionDeniedError",
                 "BadRequestError", "InternalServerError"}

Parent(class) ==
    CASE class \in {"NotFound", "UserError"} -> "AiSdkError"
      [] class = "IntegrationNotConnectable" -> "UserError"
      [] class = "APITimeoutError" -> "APIConnectionError"
      [] class \in StatusErrors -> "APIStatusError"
      [] OTHER -> "Exception"

Is(e, class) == class \in {e.class, Parent(e.class), Parent(Parent(e.class))}

Exc(class, from, says) == [class |-> class, from |-> from, says |-> says, hooks |-> <<>>]

\* An SDK error says its code; a class may come with one.
SdkCode(e) ==
    IF e.says # Silent THEN e.says
    ELSE CASE Is(e, "NotFound") -> "not_found"
           [] Is(e, "UserError") -> "invalid_request"
           [] OTHER -> "unknown"

\* AI_SDK_ERROR_CLASSIFIERS: a code, nothing, or an exception of their own.
HookCode(e) ==
    LET codes == {i \in DOMAIN e.hooks : e.hooks[i] \notin {NoCode, "raises"}}
    IN  IF codes = {} THEN NoCode ELSE e.hooks[CHOOSE i \in codes : \A j \in codes : i <= j]

\* The first rule that fits an exception; the base class comes after its own.
FirstRule(rules, e) ==
    LET fits == {i \in DOMAIN rules : Is(e, rules[i][1]) /\ rules[i][2] \in {Silent, e.says}}
    IN  IF fits = {} THEN NoCode ELSE rules[CHOOSE i \in fits : \A j \in fits : i <= j][3]

OpenAI == <<
    <<"ContentFilterFinishReasonError", Silent, "content_filtered">>,
    <<"RateLimitError", "quota", "configuration_error">>,
    <<"RateLimitError", Silent, "rate_limited">>,
    <<"APITimeoutError", Silent, "provider_timeout">>,
    <<"APIConnectionError", Silent, "provider_unavailable">>,
    <<"NotFoundError", "no_body", "provider_unavailable">>,
    <<"AuthenticationError", Silent, "configuration_error">>,
    <<"PermissionDeniedError", Silent, "configuration_error">>,
    <<"NotFoundError", Silent, "configuration_error">>,
    <<"BadRequestError", "overflow", "context_overflow">>,
    <<"BadRequestError", "filter", "content_filtered">>,
    <<"BadRequestError", "tools", "configuration_error">>,
    <<"InternalServerError", Silent, "provider_unavailable">>>>

Anthropic == <<
    <<"RateLimitError", Silent, "rate_limited">>,
    <<"APITimeoutError", Silent, "provider_timeout">>,
    <<"APIConnectionError", Silent, "provider_unavailable">>,
    <<"NotFoundError", "no_body", "provider_unavailable">>,
    <<"AuthenticationError", Silent, "configuration_error">>,
    <<"PermissionDeniedError", Silent, "configuration_error">>,
    <<"NotFoundError", Silent, "configuration_error">>,
    <<"BadRequestError", "overflow", "context_overflow">>,
    <<"InternalServerError", Silent, "provider_unavailable">>>>

Framework == <<
    <<"PermissionDenied", Silent, "permission_denied">>,
    <<"Http404", Silent, "not_found">>,
    <<"ObjectDoesNotExist", Silent, "not_found">>,
    <<"ConflictError", Silent, "conflict">>,
    <<"ImproperlyConfigured", Silent, "configuration_error">>>>

\* After the providers': Python's own, and text of an overflow in any of them.
Rest == <<
    <<"TimeoutError", Silent, "provider_timeout">>,
    <<"ConnectionError", Silent, "provider_unavailable">>,
    <<"Exception", "overflow", "context_overflow">>>>

(***************************************************************************)
(* classify_error: the exception's own code, or that of its cause, so far   *)
(* down.                                                                   *)
(***************************************************************************)
OwnCode(e) ==
    LET providers == IF e.from = "openai" THEN OpenAI ELSE IF e.from = "anthropic" THEN Anthropic ELSE <<>>
    IN  IF Is(e, "AiSdkError") THEN SdkCode(e)
        ELSE IF HookCode(e) # NoCode THEN HookCode(e)
        ELSE FirstRule(Framework \o providers \o Rest, e)

MaxCauseDepth == 5

Classify(chain) ==
    LET from[i \in DOMAIN chain] ==
            IF OwnCode(chain[i]) # NoCode THEN OwnCode(chain[i])
            ELSE IF i < Len(chain) /\ i - 1 < MaxCauseDepth THEN from[i + 1]
            ELSE "unknown"
    IN  from[1]

\* What the caller sent was malformed, whatever that was caused by.
BadInput == {"ValidationError", "DjangoValidationError", "SuspiciousOperation"}
ErrorResponse(chain) ==
    ErrorSpec(IF Head(chain).class \in BadInput THEN "invalid_request" ELSE Classify(chain))

\* The layers answer their own exceptions themselves, and any other with it.
LayersOwn == [ninja |-> {"HttpError"}, drf |-> {"APIException"}, chat |-> {}]
Answer(layer, chain) ==
    IF Head(chain).class \in LayersOwn[layer] THEN [code |-> "its_own"] ELSE ErrorResponse(chain)

\* What the services raise, by the answer of the step that fails.
Raised ==
    [missing  |-> {Exc("NotFound", "sdk", Silent), Exc("ObjectDoesNotExist", "django", Silent)},
     denied   |-> {Exc("PermissionDenied", "sdk", Silent)},
     invalid  |-> {Exc(class, "sdk", Silent) : class \in {"UserError", "IntegrationNotConnectable",
                                                      "ValidationError", "DjangoValidationError"}},
     conflict |-> {Exc("ConflictError", "sdk", Silent)},
     configuration |-> {Exc("ImproperlyConfigured", "django", Silent)}]

(***************************************************************************)
(* Properties.                                                             *)
(***************************************************************************)
ProviderErrors ==
    {Exc(class, from, says) :
        class \in StatusErrors \cup {"APITimeoutError", "APIConnectionError"},
        from \in {"openai", "anthropic"}, says \in {Silent, "no_body", "overflow"}}

Recognised ==
    {e \in ProviderErrors : OwnCode(e) # NoCode}
    \cup (UNION {Raised[answer] : answer \in {"missing", "denied", "conflict"}})
    \cup {Exc("TimeoutError", "python", Silent), Exc("RuntimeError", "python", "overflow"),
          Exc("AiSdkError", "sdk", "knowledge_unavailable"), Exc("ImproperlyConfigured", "django", Silent)}
    \cup {[Exc("RuntimeError", "python", Silent) EXCEPT !.hooks = <<NoCode, "raises", "rate_limited">>]}

Opaque(n) == [i \in 1..n |-> Exc("PipelineRuntimeError", "haystack", Silent)]

\* A provider's error is told alike from either provider, and whatever the
\* pipeline wraps it in or raised it over, up to the depth that is looked at.
CauseIsTold ==
    /\ \A e \in ProviderErrors : OwnCode(e) = OwnCode([e EXCEPT !.from = "openai"])
    /\ \A e \in Recognised : \A n \in 0..(MaxCauseDepth + 1) :
          Classify(Opaque(n) \o <<e>> \o Opaque(1)) = IF n <= MaxCauseDepth THEN OwnCode(e) ELSE "unknown"
    /\ \A e \in Recognised, f \in Recognised : Classify(<<e, f>>) = OwnCode(e)

\* A step that fails is answered with the status of its kind by every layer, as
\* a failure of the server only if the deployment is to blame, and never as
\* something to try again; retrying is suggested only for what the caller is
\* not to blame for.
RefusalsAreTold ==
    /\ \A layer \in DOMAIN LayersOwn : \A answer \in DOMAIN Raised : \A e \in Raised[answer] :
          LET told == Answer(layer, <<e>>)
          IN  /\ told.status = [missing |-> 404, denied |-> 403, invalid |-> 400, conflict |-> 409,
                                  configuration |-> 500][answer]
              /\ ~told.retryable
    /\ \A code \in Code : code \in Retryable => StatusOf(code) = 429 \/ StatusOf(code) >= 500
=============================================================================
