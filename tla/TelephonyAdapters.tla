-------------------------- MODULE TelephonyAdapters --------------------------
(***************************************************************************)
(* The telephony adapters of apps/web/lib/providers/telephony/adapters, as *)
(* functions of what the provider says: the statuses they make of its      *)
(* words, what createCall() makes of its answer, which configuration and   *)
(* headers receiveWebhook() asks for.  A configuration, a request's        *)
(* headers and a body are the sets of the fields they carry; signatures    *)
(* are genuine (the model has no forged deliveries).                       *)
(***************************************************************************)

Providers == {"mock", "plivo", "frejun_teler"}
CallStatus == {"queued", "ringing", "in_progress", "completed", "failed", "no_answer"}

------------------------------------------------------------------------------
(* Words and statuses.  "none": the field is absent.                       *)

PlivoWords ==
  {"queued", "ringing", "in-progress", "completed", "busy", "failed", "no-answer"}
FreJunWords == {"initiated", "queued", "ringing", "answered", "in-progress", "in_progress",
                "completed", "busy", "failed", "no-answer", "no_answer"}

\* "other": a word the adapter does not know.
WordsOf(p) == {"none"} \union
  CASE p = "mock" -> CallStatus
    [] p = "plivo" -> PlivoWords \union {"other"}
    [] p = "frejun_teler" -> FreJunWords \union {"other"}

\* Busy lines, failures and unknown words are all "failed".
statusFromPlivo(w) ==
  CASE w \in {"queued", "ringing", "completed"} -> w
    [] w = "in-progress" -> "in_progress"
    [] w = "no-answer" -> "no_answer"
    [] OTHER -> "failed"

statusFromFreJun(w) ==
  CASE w \in {"ringing", "completed"} -> w
    [] w \in {"initiated", "queued"} -> "queued"
    [] w \in {"answered", "in-progress", "in_progress"} -> "in_progress"
    [] w \in {"no-answer", "no_answer"} -> "no_answer"
    [] OTHER -> "failed"

\* The normalised event's status.
EventStatus(p, w) ==
  IF w = "none" THEN w
  ELSE CASE p = "mock" -> w
         [] p = "plivo" -> statusFromPlivo(w)
         [] p = "frejun_teler" -> statusFromFreJun(w)

------------------------------------------------------------------------------
(* createCall(): the statuses a call is accepted with.  An answer that is  *)
(* not ok, or has no call id, is an exception: "refused" or "unreadable".  *)

createCallMock == {"ringing"}
createCallPlivo == {"queued", "refused", "unreadable"}
createCallFreJun ==
  {statusFromFreJun(w) : w \in FreJunWords \union {"other"}} \union {"refused", "unreadable"}

createCall(p) == CASE p = "mock" -> createCallMock
                   [] p = "plivo" -> createCallPlivo
                   [] p = "frejun_teler" -> createCallFreJun

------------------------------------------------------------------------------
(* receiveWebhook().                                                       *)

\* The fields without which the constructor throws.
Required(p) == CASE p = "mock" -> {}
                 [] p = "plivo" -> {"auth_id", "auth_token"}
                 [] p = "frejun_teler" -> {"api_key", "account_id"}

\* What a provider sends along.  x-plivo-request-url is no header of Plivo's:
\* the adapter expects somebody on the way to add it, and nobody does.
HeadersOf(p) == CASE p = "mock" -> {}
                  [] p = "plivo" -> {"x-plivo-signature-v3", "x-plivo-signature-v3-nonce"}
                  [] p = "frejun_teler" -> {"x-teler-signature"}

verifiedByPlivo(headers) ==
  {"x-plivo-signature-v3", "x-plivo-signature-v3-nonce", "x-plivo-request-url"} \subseteq headers

verifiedByFreJun(config, headers) ==
  "webhook_secret" \in config /\ "x-teler-signature" \in headers

verifySignature(p, config, headers) ==
  CASE p = "mock" -> TRUE
    [] p = "plivo" -> verifiedByPlivo(headers)
    [] p = "frejun_teler" -> verifiedByFreJun(config, headers)

\* Bodies are those the provider sends: well-formed, with the call's id (the
\* adapters answer any other with an exception, 400).
receiveWebhook(p, config, headers) ==
  IF verifySignature(p, config, headers) THEN 200 ELSE 401

\* The route around it: the class is built from the configuration outside the
\* try, so that a constructor that throws is an unhandled 500.
RouteAnswer(p, config, headers) ==
  CASE p \notin Providers -> 404
    [] p \in Providers /\ ~(Required(p) \subseteq config) -> 500
    [] OTHER -> receiveWebhook(p, config, headers)
==============================================================================
