------------------------------- MODULE Herald -------------------------------
(***************************************************************************)
(* The client of the Herald service (pkg/herald): requests with retries,   *)
(* the health cache and the provider that falls back on a local one,       *)
(* waiting for an approval, resuming a session, and streamed replies.      *)
(* Callers are goroutines of one program that share a client.              *)
(*                                                                         *)
(* The service is external: it acts on a request when it reads it, and     *)
(* refuses one that it cannot decode, does not know, or whose time is past.*)
(* It knows one approval and one session. Any attempt may fail, before the *)
(* service has acted or after.                                             *)
(***************************************************************************)
EXTENDS Naturals

CONSTANTS HeraldUsers,
          RetryAttempts,
          MaxHeraldCalls, MaxChunks      \* bounds

ASSUME HeraldAssumption == RetryAttempts \in Nat /\ MaxHeraldCalls \in Nat /\ MaxChunks \in Nat

VARIABLES call,           \* the call of each caller
          sessionID,      \* the client's current session is set
          healthCache,    \* status in the cache, while it is fresh
          applied,        \* history: how often the service has acted on a caller's call
          approval, session,
          begun

heraldVars == <<call, sessionID, healthCache, applied, approval, session, begun>>
Client == <<sessionID, healthCache>>
Service == <<approval, session>>

\* What a caller asks for, and the first request it makes for it.
FirstRequest ==
    [k \in {"dispatch", "approve", "deny", "wait", "cancel", "resume", "terminate", "list", "complete", "stream"} |->
        CASE k = "wait" -> "look" [] k = "resume" -> "session" [] k = "complete" -> "health" [] OTHER -> k]
CallKinds == DOMAIN FirstRequest
HasBody == {"dispatch", "approve", "deny", "activate", "complete", "stream"}
Verdict == [approve |-> "approved", deny |-> "denied"]
Settled == {"approved", "denied", "expired", "cancelled"}
NoCall == [step |-> "none"]

HeraldTypeOK ==
    /\ \A c \in HeraldUsers :
         call[c] # NoCall =>
            /\ call[c].kind \in CallKinds /\ call[c].attempt \in 0 .. RetryAttempts
            /\ call[c].step \in {"tick", "try", "backoff", "answered", "reading", "done"}
            /\ call[c].spent \in BOOLEAN /\ call[c].read \in 0 .. MaxChunks
    /\ sessionID \in BOOLEAN
    /\ healthCache \in {"none", "healthy", "unhealthy"}
    /\ approval \in Settled \cup {"pending"} /\ session \in {"idle", "active", "ended"}

HeraldInit ==
    /\ call = [c \in HeraldUsers |-> NoCall]
    /\ sessionID = FALSE /\ healthCache = "none"
    /\ applied = [c \in HeraldUsers |-> 0]
    /\ approval = "pending" /\ session = "idle"
    /\ begun = 0

-----------------------------------------------------------------------------
Does(c, step) == call[c] # NoCall /\ call[c].step = step
Becomes(c, r) == call' = [call EXCEPT ![c] = r]
Ask(c, req) ==
    Becomes(c, [call[c] EXCEPT !.req = req, !.step = "try", !.attempt = 0, !.spent = FALSE])
HasAnswer(c, answer) == Becomes(c, [call[c] EXCEPT !.step = "answered", !.answer = answer])
Tell(c, told) == Becomes(c, [call[c] EXCEPT !.step = "done", !.told = told])

BeginCall(c, k) ==
    /\ call[c] = NoCall /\ begun < MaxHeraldCalls
    /\ begun' = begun + 1
    /\ LET new == [kind |-> k, req |-> FirstRequest[k], step |-> "try", attempt |-> 0,
                   spent |-> FALSE, answer |-> "none", told |-> "nothing", read |-> 0]
       IN  Becomes(c, CASE k = "wait" -> [new EXCEPT !.step = "tick"]
                        \* Health answers from the cache.
                        [] k = "complete" /\ healthCache # "none" ->
                              [new EXCEPT !.req = "cached", !.step = "answered", !.answer = healthCache]
                        [] OTHER -> new)
    /\ UNCHANGED <<Client, Service, applied>>

\* What the service answers to the request it reads, and what it does.
Answer(c) ==
    LET req == call[c].req
    IN  CASE req \in HasBody /\ call[c].spent -> "refused"
          [] req = "list" -> "refused"
          [] req \in {"approve", "deny", "cancel"} /\ approval # "pending" -> "refused"
          [] req \in {"session", "find", "activate", "terminate"} /\ session = "ended" -> "refused"
          [] req = "look" -> IF approval = "cancelled" THEN "refused" ELSE approval
          [] OTHER -> "ok"

Act(c) ==
    IF Answer(c) # "ok" THEN UNCHANGED <<approval, session, applied>>
    ELSE LET req == call[c].req
         IN  /\ approval' = CASE req \in DOMAIN Verdict -> Verdict[req]
                              [] req = "cancel" -> "cancelled"
                              [] OTHER -> approval
             /\ session' = CASE req = "activate" -> "active" [] req = "terminate" -> "ended" [] OTHER -> session
             /\ applied' = IF req \in {"dispatch", "complete"} THEN [applied EXCEPT ![c] = @ + 1] ELSE applied

\* doRequest: an answer below 500 ends the attempts.
ServiceAnswers(c) ==
    /\ Does(c, "try") /\ Act(c)
    /\ IF call[c].req = "health"
       THEN \E status \in {"healthy", "unhealthy"} : HasAnswer(c, status)
       ELSE HasAnswer(c, Answer(c))
    /\ UNCHANGED <<Client, begun>>

\* A mutant: every attempt gets a reader of its own.
AttemptFailedFresh(c, spent) ==
    IF call[c].attempt < RetryAttempts /\ call[c].req # "stream"
    THEN Becomes(c, [call[c] EXCEPT !.step = "backoff"])
    ELSE HasAnswer(c, "error")

\* Where the loop goes after an attempt that failed.
AttemptFailed(c, spent) ==
    IF call[c].attempt < RetryAttempts /\ call[c].req # "stream"
    THEN Becomes(c, [call[c] EXCEPT !.step = "backoff", !.spent = spent])
    ELSE HasAnswer(c, "error")

\* No connection, or an answer of 500 and more: the body is read or it is not.
\* All attempts share one reader.
ServiceFails(c) ==
    /\ Does(c, "try")
    /\ \E bodyRead \in {FALSE, call[c].req \in HasBody} : AttemptFailed(c, call[c].spent \/ bodyRead)
    /\ UNCHANGED <<Client, Service, applied, begun>>

AnswerIsLost(c) ==
    /\ Does(c, "try") /\ Act(c)
    /\ AttemptFailed(c, call[c].req \in HasBody)
    /\ UNCHANGED <<Client, begun>>

Retry(c) ==
    /\ Does(c, "backoff")
    /\ Becomes(c, [call[c] EXCEPT !.step = "try", !.attempt = @ + 1])
    /\ UNCHANGED <<Client, Service, applied, begun>>

\* The caller's context ends while it sleeps, between attempts or between polls.
ContextEnds(c) ==
    /\ \/ Does(c, "backoff") /\ HasAnswer(c, "error")
       \/ Does(c, "tick") /\ Tell(c, "error")
    /\ UNCHANGED <<Client, Service, applied, begun>>

-----------------------------------------------------------------------------
Outcome(answer) == IF answer = "ok" THEN "ok" ELSE "error"

\* Dispatch, RespondToApproval, CancelApproval, TerminateSession, ListSessions, Complete.
EndSimpleCall(c) ==
    /\ Does(c, "answered")
    /\ call[c].kind \notin {"wait", "resume", "stream"} /\ call[c].req \notin {"health", "cached"}
    /\ Tell(c, Outcome(call[c].answer))
    /\ UNCHANGED <<Client, Service, applied, begun>>

\* WaitForApproval.
Poll(c) ==
    /\ Does(c, "tick") /\ Ask(c, "look")
    /\ UNCHANGED <<Client, Service, applied, begun>>

\* A mutant: an expired request is taken for a pending one.
SettledWait(c) ==
    /\ Does(c, "answered") /\ call[c].kind = "wait"
    /\ CASE call[c].answer \in {"pending", "expired"} -> Becomes(c, [call[c] EXCEPT !.step = "tick"])
         [] call[c].answer \in {"approved", "denied"} -> Tell(c, call[c].answer)
         [] OTHER -> Tell(c, "error")
    /\ UNCHANGED <<Client, Service, applied, begun>>

JudgeApproval(c) ==
    /\ Does(c, "answered") /\ call[c].kind = "wait"
    /\ CASE call[c].answer = "pending" -> Becomes(c, [call[c] EXCEPT !.step = "tick"])
         [] call[c].answer \in {"approved", "denied", "expired"} -> Tell(c, call[c].answer)
         [] OTHER -> Tell(c, "error")
    /\ UNCHANGED <<Client, Service, applied, begun>>

\* ResumeSession: by its identifier, else by its name; then it is made active.
ResumeGoesOn(c) ==
    /\ Does(c, "answered") /\ call[c].kind = "resume"
    /\ CASE call[c].req \in {"session", "find"} /\ call[c].answer = "ok" -> Ask(c, "activate")
         [] call[c].req = "session" /\ call[c].answer # "ok" -> Ask(c, "find")
         [] OTHER -> Tell(c, Outcome(call[c].answer))
    /\ sessionID' = (sessionID \/ (call[c].req = "activate" /\ call[c].answer = "ok"))
    /\ UNCHANGED <<healthCache, Service, applied, begun>>

\* FallbackProvider: the first provider that is available answers the request.
ChooseProvider(c) ==
    /\ Does(c, "answered") /\ call[c].req \in {"health", "cached"}
    /\ IF call[c].answer = "healthy" THEN Ask(c, "complete")
       ELSE \E result \in {"local", "error"} : Tell(c, result)
    \* Health keeps what the service has said, and no error.
    /\ healthCache' = IF call[c].req = "health" /\ call[c].answer # "error" THEN call[c].answer ELSE healthCache
    /\ UNCHANGED <<sessionID, Service, applied, begun>>

\* doStreamRequest makes one attempt.
OpenStream(c) ==
    /\ Does(c, "answered") /\ call[c].kind = "stream"
    /\ IF call[c].answer = "ok" THEN Becomes(c, [call[c] EXCEPT !.step = "reading"]) ELSE Tell(c, "error")
    /\ UNCHANGED <<Client, Service, applied, begun>>

\* InferenceStream.Next: a piece of text; the last one may say that it is the last
\* (told is then what Response holds); [DONE] or the end of the connection, which are
\* the same to the reader; or an error.
ReadChunk(c) ==
    /\ Does(c, "reading")
    /\ \/ /\ call[c].read < MaxChunks
          /\ \E last \in BOOLEAN :
                Becomes(c, IF last THEN [call[c] EXCEPT !.read = @ + 1, !.step = "done", !.told = "all"]
                           ELSE [call[c] EXCEPT !.read = @ + 1])
       \/ Tell(c, "empty")
       \/ Tell(c, "error")
    /\ UNCHANGED <<Client, Service, applied, begun>>

EndCall(c) ==
    /\ Does(c, "done") /\ Becomes(c, NoCall)
    /\ applied' = [applied EXCEPT ![c] = 0]
    /\ UNCHANGED <<Client, Service, begun>>

-----------------------------------------------------------------------------
\* The cached status is as old as healthTTL.
CacheAges ==
    /\ healthCache # "none" /\ healthCache' = "none"
    /\ UNCHANGED <<call, sessionID, Service, applied, begun>>

ApprovalExpires ==
    /\ approval = "pending" /\ approval' = "expired"
    /\ UNCHANGED <<call, Client, session, applied, begun>>

Proceed(c) ==
    \/ ServiceAnswers(c) \/ ServiceFails(c) \/ AnswerIsLost(c) \/ Retry(c)
    \/ EndSimpleCall(c) \/ Poll(c) \/ JudgeApproval(c) \/ ResumeGoesOn(c) \/ ChooseProvider(c)
    \/ OpenStream(c) \/ ReadChunk(c) \/ EndCall(c)

HeraldNext ==
    \/ \E c \in HeraldUsers : Proceed(c) \/ ContextEnds(c) \/ \E k \in CallKinds : BeginCall(c, k)
    \/ CacheAges \/ ApprovalExpires

HeraldSpec == HeraldInit /\ [][HeraldNext]_heraldVars

\* The callers go on, the HTTP client's timeout ends every attempt, and the
\* service lets an approval expire.
HeraldFairness ==
    /\ \A c \in HeraldUsers : WF_heraldVars(Proceed(c))
    /\ WF_heraldVars(ApprovalExpires)

FairHeraldSpec == HeraldSpec /\ HeraldFairness

-----------------------------------------------------------------------------
\* Retries and fallbacks double nothing, and what a caller is told is so: the
\* service acts on a task or a completion once at most, whatever fails and however
\* often doRequest tries again, and never on one the local provider has answered;
\* and a verdict told, given or awaited, is the one the service has.
HeraldTellsTrue ==
    /\ HeraldTypeOK
    /\ \A c \in HeraldUsers :
         Does(c, "try") \/ Does(c, "backoff") \/ Does(c, "answered") \/ Does(c, "done") =>
            /\ applied[c] <= 1
            /\ Does(c, "done") =>
                 /\ call[c].kind \in {"dispatch", "complete"} /\ call[c].told = "ok" => applied[c] = 1
                 /\ call[c].told = "local" => applied[c] = 0
                 /\ call[c].kind = "wait" /\ call[c].told # "error" => approval = call[c].told
                 /\ call[c].kind \in DOMAIN Verdict /\ call[c].told = "ok" => approval = Verdict[call[c].kind]
                 /\ call[c].kind = "resume" /\ call[c].told = "ok" => sessionID

\* Every call ends: retries are bounded, and whoever waits for an approval is
\* answered when it expires at the latest.
HeraldCallsEnd == \A c \in HeraldUsers : call[c] # NoCall ~> call[c] = NoCall

\* client.go:156 "doRequest performs an HTTP request with retry logic": a request is
\* refused because of what the service holds, and not because a retry has lost its
\* body or a query has become part of the path.
RefusalsHaveCause ==
    \A c \in HeraldUsers :
        Does(c, "answered") /\ call[c].answer = "refused" => approval # "pending" \/ session = "ended"
=============================================================================
