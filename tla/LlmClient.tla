------------------------------ MODULE LlmClient ------------------------------
(***************************************************************************)
(* A question to the model: the check of the governor, the attempts of       *)
(* ask_json, the tries of chat_completions inside each of them, the cache of *)
(* deterministic calls, a call of chat_completions without ask_json, an      *)
(* embedding, and the resolver of the process that a client with a fixed     *)
(* address replaces during a call.                                           *)
(*                                                                         *)
(* Every question makes its own client, with its own session.  Questions run *)
(* on one event loop and take turns while a request, a pause or the end of a *)
(* session is awaited.  Which keys are set does not change.                  *)
(***************************************************************************)
EXTENDS Naturals, Sequences, FiniteSets

CONSTANTS
    Asks,           \* questions
    Prompts,        \* what they ask; two may ask the same
    MaxAttempts,    \* of ask_json, 3
    MaxTries,       \* of chat_completions, 3
    CacheSize,      \* 1000
    FixedIp         \* whether LLM_RESOLVE_IP is set

ASSUME LlmAssumption ==
    /\ {MaxAttempts, MaxTries, CacheSize} \subseteq Nat \ {0}
    /\ FixedIp \in BOOLEAN
    /\ Asks \cap {"real", "none"} = {}

VARIABLES
    apiKeys,        \* the keys that are set: that of the chat and that of the embeddings
    asks,           \* the progress of each question
    cache,          \* the requests that are cached, oldest first, with what was answered
    resolver,       \* socket.getaddrinfo: "real", or the client that replaced it
    saved,          \* _original_getaddrinfo of each client
    crossed,        \* history: a call ended while another client had the resolver
    stranded        \* history: the clients whose call left before its resolver was restored

llmVars == <<apiKeys, asks, cache, resolver, saved, crossed, stranded>>
dnsVars == <<resolver, saved, crossed>>

(* What the service may send: an object of the JSON that was asked for, text    *)
(* that holds none, an error status, one that says JSON mode is unknown, a body *)
(* that is no response, and no answer at all.                                  *)
Answers == {"object", "text"}
Failures == {"UPSTREAM_BAD_STATUS", "JSON_MODE", "UPSTREAM_BAD_RESPONSE",
             "UPSTREAM_UNAVAILABLE", "UPSTREAM_TIMEOUT"}

NewAsk == [stage |-> "new", form |-> "chat", prompt |-> "none", exact |-> FALSE,
           jsonMode |-> TRUE, attempt |-> 0, try |-> 0, outcome |-> "none", result |-> "none"]

(* Of a question that is over only how it ended is kept. *)
Over(result) == [NewAsk EXCEPT !.stage = "over", !.result = result]

(* The embeddings use the key of the chat unless they have their own. *)
LlmInit ==
    /\ apiKeys \in {{}, {"embedding"}, {"chat"}}
    /\ asks = [a \in Asks |-> NewAsk]
    /\ cache = <<>>
    /\ resolver = "real"
    /\ saved = [a \in Asks |-> "none"]
    /\ crossed = FALSE /\ stranded = {}

(* What is sent: the question, or from the second attempt on a prompt that      *)
(* quotes the last answer and the number of the attempt.  The form of the       *)
(* answer is not part of the key.                                              *)
Request(ask) == <<ask.prompt, ask.attempt>>

CachedAs(request) == {i \in DOMAIN cache : cache[i].request = request}

(* LLMCache.set: a full cache drops its oldest entry, also for a key it has. *)
CacheSet(request, answer) ==
    LET room == IF Len(cache) >= CacheSize THEN Tail(cache) ELSE cache
        others == SelectSeq(room, LAMBDA entry : entry.request # request) IN
    Append(others, [request |-> request, answer |-> answer])

-----------------------------------------------------------------------------
(* _apply_dns_patch and _restore_dns *)

ApplyDnsPatch(a) ==
    IF FixedIp
    THEN /\ resolver' = a /\ saved' = [saved EXCEPT ![a] = resolver]
         /\ UNCHANGED crossed
    ELSE UNCHANGED dnsVars

RestoreDns(a) ==
    IF saved[a] # "none"
    THEN /\ resolver' = saved[a] /\ saved' = [saved EXCEPT ![a] = "none"]
         /\ crossed' = (crossed \/ resolver # a)
    ELSE UNCHANGED dnsVars

(* The key of a call: the embeddings fall back on that of the chat. *)
HasKey(ask) == IF ask.form = "embedding" THEN apiKeys # {} ELSE "chat" \in apiKeys

(* The first request of a call.  The resolver is replaced before the headers are *)
(* built, and what restores it begins after: without a key the call leaves with   *)
(* the resolver replaced.                                                        *)
Post(a, ask) ==
    /\ ApplyDnsPatch(a)
    /\ IF HasKey(ask)
       THEN /\ asks' = [asks EXCEPT ![a] = [ask EXCEPT !.stage = "posted"]]
            /\ UNCHANGED stranded
       ELSE /\ asks' = [asks EXCEPT ![a] = Over("raised")]
            /\ stranded' = IF FixedIp THEN stranded \cup {a} ELSE stranded

-----------------------------------------------------------------------------
(* ask_json *)

(* No key, DISABLE_LLM or the governor refuses the question; the last is never  *)
(* answered by a fallback.                                                     *)
Refused(a) ==
    /\ asks[a].stage = "new"
    /\ \E code \in {"MISSING_API_KEY", "LLM_DISABLED", "GOVERNANCE_BLOCKED"} :
         /\ code = "MISSING_API_KEY" <=> "chat" \notin apiKeys
         /\ asks' = [asks EXCEPT ![a] =
                       Over(IF code = "GOVERNANCE_BLOCKED" THEN "raised" ELSE "fallback")]
    /\ UNCHANGED <<apiKeys, cache, dnsVars, stranded>>

(* What is asked, and whether the answer may be cached: temperature 0. *)
Asked(ask, form) ==
    [ask EXCEPT !.stage = "attempt", !.prompt = form.prompt, !.exact = form.exact]

Ask(a) ==
    /\ asks[a].stage = "new" /\ "chat" \in apiKeys
    /\ \E form \in [prompt : Prompts, exact : BOOLEAN] :
         asks' = [asks EXCEPT ![a] = Asked(@, form)]
    /\ UNCHANGED <<apiKeys, cache, dnsVars, stranded>>

(* The text of an answer: _parse_response finds an object, or the next attempt  *)
(* asks for a repair after a pause.                                            *)
Parsed(ask, answer) ==
    IF answer = "object" THEN Over("answer")
    ELSE IF ask.attempt < MaxAttempts - 1
         THEN [ask EXCEPT !.stage = "attempt", !.attempt = @ + 1, !.try = 0, !.outcome = "none"]
         ELSE Over("fallback")

(* Any error of the call is repaired like a bad answer.  One that says JSON     *)
(* mode is unknown turns it off, and takes an attempt as well.                 *)
CallFailed(ask, failure) ==
    Parsed([ask EXCEPT !.jsonMode = @ /\ failure # "JSON_MODE"], "text")

(* chat_completions: a cached answer, or the first request. *)
Call(a) ==
    LET ask == asks[a]
        hits == IF ask.exact THEN CachedAs(Request(ask)) ELSE {} IN
    /\ ask.stage = "attempt"
    /\ IF hits # {}
       THEN /\ \E i \in hits : asks' = [asks EXCEPT ![a] = Parsed(ask, cache[i].answer)]
            /\ UNCHANGED <<dnsVars, stranded>>
       ELSE Post(a, ask)
    /\ UNCHANGED <<apiKeys, cache>>

-----------------------------------------------------------------------------
(* The callers of chat_completions beside ask_json, and embed: one call, neither *)
(* cached nor charged to the governor, and no check of the key; an error is left *)
(* to the caller.                                                              *)

CallDirectly(a) ==
    /\ asks[a].stage = "new"
    /\ Post(a, [asks[a] EXCEPT !.form = "direct", !.jsonMode = FALSE])
    /\ UNCHANGED <<apiKeys, cache>>

Embed(a) ==
    LET ask == [asks[a] EXCEPT !.form = "embedding", !.jsonMode = FALSE] IN
    /\ ask.stage = "new"
    /\ \/ asks' = [asks EXCEPT ![a] = Over("raised")] /\ UNCHANGED <<dnsVars, stranded>>  \* no text
       \/ Post(a, ask)
    /\ UNCHANGED <<apiKeys, cache>>

-----------------------------------------------------------------------------
(* The tries of a call, and its end *)

(* The call is decided and enters its finally: the session is closed first. *)
Decided(ask, outcome) == [ask EXCEPT !.stage = "closing", !.outcome = outcome]

(* A response: it is cached if the call is deterministic. *)
Answered(a) ==
    LET ask == asks[a] IN
    /\ ask.stage = "posted" /\ ask.form # "embedding"
    /\ \E answer \in Answers :
         /\ asks' = [asks EXCEPT ![a] = Decided(ask, answer)]
         /\ cache' = IF ask.exact THEN CacheSet(Request(ask), answer) ELSE cache
    /\ UNCHANGED <<apiKeys, dnsVars, stranded>>

Embedded(a) ==
    /\ asks[a].stage = "posted" /\ asks[a].form = "embedding"
    /\ asks' = [asks EXCEPT ![a] = Decided(@, "object")]
    /\ UNCHANGED <<apiKeys, cache, dnsVars, stranded>>

(* Whatever the status, an attempt that is not the last pauses and tries again; *)
(* only a body that is no response ends the call at once.                      *)
Retryable(failure) == failure # "UPSTREAM_BAD_RESPONSE"

TryFails(a) ==
    LET ask == asks[a] IN
    /\ ask.stage = "posted"
    /\ \E failure \in Failures :
         /\ failure = "JSON_MODE" => ask.jsonMode
         /\ asks' = [asks EXCEPT ![a] =
              IF Retryable(failure) /\ ask.try < MaxTries - 1
              THEN [ask EXCEPT !.stage = "pause", !.try = @ + 1]
              ELSE Decided(ask, IF failure = "JSON_MODE" THEN failure ELSE "error")]
    /\ UNCHANGED <<apiKeys, cache, dnsVars, stranded>>

(* asyncio.sleep is over: the next request of the call. *)
TryAgain(a) ==
    /\ asks[a].stage = "pause"
    /\ asks' = [asks EXCEPT ![a].stage = "posted"]
    /\ UNCHANGED <<apiKeys, cache, dnsVars, stranded>>

(* What the end of a call makes of the question. *)
Settled(ask) ==
    IF ask.outcome = "cancelled" THEN Over("cancelled")
    ELSE IF ask.outcome \in Answers
         THEN IF ask.form = "chat" THEN Parsed(ask, ask.outcome) ELSE Over("answer")
         ELSE IF ask.form = "chat" THEN CallFailed(ask, ask.outcome) ELSE Over("raised")

(* client.close() is over: the resolver is restored and the call ends. *)
Closed(a) ==
    /\ asks[a].stage = "closing"
    /\ asks' = [asks EXCEPT ![a] = Settled(@)]
    /\ RestoreDns(a)
    /\ UNCHANGED <<apiKeys, cache, stranded>>

-----------------------------------------------------------------------------
(* Mutant: only what is an Exception is cleaned up after. *)
CancelledUnrestored(a) ==
    /\ asks[a].stage \in {"attempt", "posted", "pause"}
    /\ asks' = [asks EXCEPT ![a] = Over("cancelled")]
    /\ UNCHANGED <<apiKeys, cache, dnsVars, stranded>>

(* The caller is cancelled, as by the time limit of a tool or of a stage: a call  *)
(* closes its session, unless that is what it awaits.                            *)
AskCancelled(a) ==
    /\ \/ /\ asks[a].stage \in {"posted", "pause"}
          /\ asks' = [asks EXCEPT ![a] = Decided(@, "cancelled")]
          /\ UNCHANGED stranded
       \/ /\ asks[a].stage \in {"attempt", "closing"}
          /\ asks' = [asks EXCEPT ![a] = Over("cancelled")]
          /\ stranded' = IF saved[a] # "none" THEN stranded \cup {a} ELSE stranded
    /\ UNCHANGED <<apiKeys, cache, dnsVars>>

AskStep(a) == Call(a) \/ Answered(a) \/ TryFails(a) \/ TryAgain(a) \/ Embedded(a) \/ Closed(a)

LlmNext ==
    \E a \in Asks :
      Refused(a) \/ Ask(a) \/ CallDirectly(a) \/ Embed(a) \/ AskStep(a) \/ AskCancelled(a)

LlmSpec == LlmInit /\ [][LlmNext]_llmVars

-----------------------------------------------------------------------------
UnderWay(a) == asks[a].stage \in {"posted", "pause", "closing"}

(* Whoever has the resolver of the process replaced has a call under way, and with *)
(* no call under way the process has its own back, whatever answers, errors,       *)
(* retries and cancellations there were; at any time a name can be resolved, for   *)
(* a replaced resolver still knows what it replaced.  Three ways out are excepted: *)
(* a call that ends while a client that came after it has the resolver, from when   *)
(* on nothing is said; and a call that leaves between the replacement and its try,   *)
(* for want of a key, or is cancelled while its finally closes the session.  Those  *)
(* last two leave a replaced resolver that works, and only they do                *)
(* (_apply_dns_patch, _restore_dns, chat_completions, embed).                     *)
DnsRestoredUnlessLeft ==
    ~crossed =>
      /\ \A a \in Asks : saved[a] # "none" => UnderWay(a) \/ a \in stranded
      /\ (\A a \in Asks : ~UnderWay(a)) => resolver \in stranded \cup {"real"}
      /\ resolver # "real" => saved[resolver] # "none"
      /\ \A a \in Asks : saved[a] \in Asks => saved[saved[a]] # "none"
=============================================================================
