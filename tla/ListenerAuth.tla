---------------------------- MODULE ListenerAuth ----------------------------
(***************************************************************************)
(* What an authentication thread does with the requests it takes off the   *)
(* queue when the authenticator asks a web server (auth_url.c) or runs a   *)
(* command (auth_cmd.c): the headers and the body that come back change    *)
(* the client and the data of the thread, and the client is answered or    *)
(* passed on.  Threads share the back-off time of the authenticator        *)
(* without a lock, and a thread keeps its data from request to request.    *)
(***************************************************************************)
EXTENDS Naturals, FiniteSets

CONSTANTS
    Client,      \* the listeners and source clients to authenticate
    Handler,     \* the authentication threads of the auth_t
    None,        \* no client
    Duration,    \* stop_req_duration
    MaxTime,     \* the bound of the clock
    MaxHeaders,  \* the bound of the headers that come back
    MaxEvents    \* the bound of the stream start and end requests

\* Times and bounds are whole numbers, and no client is None.
Settings == None \notin Client /\ {Duration, MaxHeaders, MaxEvents} \subseteq Nat /\ MaxTime \in Nat \ {0}

VARIABLES
    backend,     \* "url" or "cmd"
    innocent,    \* AUTH_SKIP_IF_SLOW, of presume_innocent
    elsewhere,   \* rejected_mount is set
    until,       \* stop_req_until
    now, events,
    pc, kind, job, \* of a thread: step, kind of request, the client it is about
    owner,       \* owner[h]: auth_user->client, None once it is passed on
    heard,       \* the headers that have come back so far
    location, message, \* of the thread's data: {} or whose Location, which message
    held,        \* held[h]: intro buffers collected
    authed, intro, given, \* of a client: two flags, and intro content attached
    outcome,     \* outcome[c]: how it was answered
    (* history *)
    granted,     \* granted[c]: its last answer let it in
    target,      \* target[c]: whose Location it was sent to
    answers,     \* answers[c]: how many times it was passed on
    failed,      \* when the last request failed, 0 when none has
    raced,       \* a back-off was cleared that had changed since it was read
    left,        \* a command's thread kept the Location of a request that ended
    slow         \* slow[c]: its request failed or timed out

settings == <<backend, innocent, elsewhere>>
data == <<location, message, held>>
client == <<authed, intro, given>>
history == <<granted, target, answers, failed, raced, left, slow>>
vars == <<settings, until, now, events, pc, kind, job, owner, heard, data, client, outcome, history>>

Init ==
    /\ backend \in {"url", "cmd"} /\ innocent \in BOOLEAN /\ elsewhere \in BOOLEAN
    /\ backend = "cmd" => ~innocent
    /\ until = 0 /\ now = 1 /\ events = 0
    /\ pc = [h \in Handler |-> "idle"] /\ kind = [h \in Handler |-> "none"]
    /\ job = [h \in Handler |-> None] /\ owner = [h \in Handler |-> None]
    /\ heard = 0
    /\ location = [h \in Handler |-> {}] /\ message = [h \in Handler |-> "other"]
    /\ held = [h \in Handler |-> 0]
    /\ authed = [c \in Client |-> FALSE] /\ intro = [c \in Client |-> FALSE]
    /\ given = [c \in Client |-> FALSE]
    /\ outcome = [c \in Client |-> "waiting"]
    /\ granted = [c \in Client |-> FALSE] /\ target = [c \in Client |-> {}]
    /\ answers = [c \in Client |-> 0] /\ slow = [c \in Client |-> FALSE]
    /\ failed = 0 /\ raced = FALSE /\ left = FALSE

Goes(h, step) == pc' = [pc EXCEPT ![h] = step]

\* The client is answered, or passed on, and auth_user->client reset.
Send(h, how) ==
    LET c == job[h] IN
    /\ outcome' = [outcome EXCEPT ![c] = how]
    /\ answers' = [answers EXCEPT ![c] = @ + 1]
    /\ owner' = [owner EXCEPT ![h] = None]

\* The thread takes a listener to add or a source client to authenticate; a
\* listener that has gone, or a server going down, is dropped with a 400.
Take(h, c, k) ==
    /\ pc[h] = "idle" /\ outcome[c] = "waiting" /\ \A g \in Handler : job[g] # c
    /\ k = "auth" => backend = "url"
    /\ kind' = [kind EXCEPT ![h] = k]
    /\ job' = [job EXCEPT ![h] = c] /\ owner' = [owner EXCEPT ![h] = c]
    /\ IF k = "auth" THEN Goes(h, "request")
       ELSE Goes(h, "check") \/ Goes(h, "drop")
    /\ UNCHANGED <<settings, until, now, heard, events, data, authed, intro, given, outcome, history>>

\* auth_release_listener queues a listener that was let in when it leaves.
TakeLeaving(h, c) ==
    /\ pc[h] = "idle" /\ outcome[c] \in {"added", "moved"} /\ backend = "url"
    /\ authed[c] /\ \A g \in Handler : job[g] # c
    /\ kind' = [kind EXCEPT ![h] = "remove"]
    /\ job' = [job EXCEPT ![h] = c] /\ owner' = [owner EXCEPT ![h] = c]
    /\ outcome' = [outcome EXCEPT ![c] = "leaving"]
    /\ answers' = [answers EXCEPT ![c] = 0]
    /\ Goes(h, "check")
    /\ UNCHANGED <<settings, until, now, heard, events, data, authed, intro, given,
                   granted, target, failed, raced, left, slow>>

\* A stream starts or ends: the request is about a blank copy of a client.
TakeEvent(h) ==
    /\ pc[h] = "idle" /\ backend = "url" /\ events < MaxEvents
    /\ events' = events + 1
    /\ kind' = [kind EXCEPT ![h] = "event"]
    /\ Goes(h, "request")
    /\ UNCHANGED <<settings, until, now, heard, job, owner, data, client, outcome, history>>

\* A new listener restarts the requests at the time set, a leaving one after it.
Expired(k) == IF k = "remove" THEN until < now ELSE until <= now

\* A listener is let in while requests are held back.
LetInUnasked == innocent

\* url_add_listener and url_remove_listener look at the back-off first; what
\* follows its expiry is a separate write.
UrlCheck(h) ==
    /\ pc[h] = "check" /\ backend = "url"
    /\ Goes(h, IF until = 0 THEN "request" ELSE IF Expired(kind[h]) THEN "clear" ELSE "post")
    /\ authed' = IF until # 0 /\ ~Expired(kind[h]) /\ kind[h] = "add" /\ LetInUnasked
                 THEN [authed EXCEPT ![job[h]] = TRUE] ELSE authed
    /\ UNCHANGED <<settings, until, now, events, kind, job, owner, heard, data,
                   intro, given, outcome, history>>

UrlClear(h) ==
    /\ pc[h] = "clear"
    /\ raced' = (raced \/ ~Expired(kind[h]))
    /\ until' = 0
    /\ Goes(h, "request")
    /\ UNCHANGED <<settings, now, events, kind, job, owner, heard, data, client, outcome,
                   granted, target, answers, failed, left, slow>>

\* The request cannot be made: too much in the client's headers, no pipe, or
\* an authenticator that is stopping.
RequestFails(h) ==
    /\ \/ pc[h] = "request" /\ backend = "url" /\ kind[h] = "add"
       \/ pc[h] = "check" /\ backend = "cmd"
    /\ message' = IF backend = "cmd" THEN [message EXCEPT ![h] = "other"] ELSE message
    /\ Goes(h, "post")
    /\ UNCHANGED <<settings, until, now, events, kind, job, owner, heard, location, held,
                   client, outcome, history>>

\* Mutant of StartLocation: the location of the client before is kept.
NotReset(h) == location[h]

\* The location an add request starts with.
StartLocation(h) == IF kind[h] = "add" THEN {} ELSE location[h]

\* An add request starts with the thread's message and location reset; the
\* other requests leave them.  A stream_auth request drops the client's flag.
UrlRequest(h) ==
    /\ pc[h] = "request"
    /\ Goes(h, "answer")
    /\ message' = [message EXCEPT ![h] = IF kind[h] = "add" THEN "other" ELSE @]
    /\ location' = [location EXCEPT ![h] = StartLocation(h)]
    /\ authed' = IF kind[h] = "auth" THEN [authed EXCEPT ![job[h]] = FALSE] ELSE authed
    /\ UNCHANGED <<settings, until, now, events, kind, job, owner, heard, held,
                   intro, given, outcome, history>>

\* auth_cmd_client resets the message and not the location; without a child
\* process it goes on to the end.
CmdRequest(h, forked) ==
    /\ pc[h] = "check" /\ backend = "cmd"
    /\ message' = [message EXCEPT ![h] = "other"]
    /\ Goes(h, IF forked THEN "answer" ELSE "end")
    /\ UNCHANGED <<settings, until, now, events, kind, job, owner, heard, location, held,
                   client, outcome, history>>

Heard(h) == /\ pc[h] = "answer" /\ heard < MaxHeaders
            /\ heard' = heard + 1
            /\ UNCHANGED <<settings, now, events, pc, kind, job, owner, held, given, outcome>>

\* The status line: 403 is kept as the message, an error lets a client in and
\* starts the back-off when clients are presumed innocent.
StatusHeader(h, code) ==
    /\ Heard(h) /\ backend = "url"
    /\ code = 403 \/ innocent
    /\ message' = [message EXCEPT ![h] = IF code = 403 THEN "403" ELSE "other"]
    /\ IF code = 403
       THEN UNCHANGED <<until, failed, authed>>
       ELSE /\ until' = now + Duration /\ failed' = now
            /\ authed' = IF job[h] # None THEN [authed EXCEPT ![job[h]] = TRUE] ELSE authed
    /\ UNCHANGED <<location, intro, granted, target, answers, raced, left, slow>>

\* The user header lets the client in, a 0 in it takes that back; a command's
\* value is "1" or "withintro".
AuthHeader(h, value) ==
    LET c == job[h] IN
    /\ Heard(h) /\ c # None
    /\ backend = "cmd" => value # "0"
    /\ authed' = [authed EXCEPT ![c] = value # "0"]
    /\ granted' = [granted EXCEPT ![c] = value # "0"]
    /\ intro' = IF value = "withintro" THEN [intro EXCEPT ![c] = TRUE] ELSE intro
    /\ UNCHANGED <<until, location, message, target, answers, failed, raced,
                   left, slow>>

\* A Location or a message.
TextHeader(h, name) ==
    /\ Heard(h)
    /\ IF name = "Location"
       THEN location' = [location EXCEPT ![h] = {job[h]}] /\ UNCHANGED message
       ELSE message' = [message EXCEPT ![h] = name] /\ UNCHANGED location
    /\ UNCHANGED <<until, authed, intro, history>>

\* A body is kept for a listener that was promised intro content.  (One that
\* comes back for a source client is left out: where it would be kept was not
\* set up.)
Body(h) ==
    /\ pc[h] = "answer" /\ job[h] # None /\ kind[h] = "add" /\ intro[job[h]] /\ held[h] = 0
    /\ held' = [held EXCEPT ![h] = 1]
    /\ UNCHANGED <<settings, until, now, events, pc, kind, job, owner, heard, location,
                   message, client, outcome, history>>

\* The collected buffers go to a client that is let in, else they are released.
Attached(h) == held[h] = 1 /\ authed[job[h]] /\ intro[job[h]]

BackoffSet(ok) == /\ until' = IF ok THEN until ELSE now + Duration
                  /\ failed' = IF ok THEN failed ELSE now

\* curl_easy_perform returns from an add request, with an error or not.
UrlAdded(h, ok) ==
    LET c == job[h] IN
    /\ pc[h] = "answer" /\ backend = "url" /\ kind[h] = "add"
    /\ given' = [given EXCEPT ![c] = Attached(h)]
    /\ intro' = [intro EXCEPT ![c] = @ /\ ~(authed[c] /\ held[h] = 0)]
    /\ authed' = [authed EXCEPT ![c] = @ \/ (~ok /\ innocent)]
    /\ BackoffSet(ok)
    /\ held' = [held EXCEPT ![h] = 0]
    /\ slow' = [slow EXCEPT ![c] = ~ok]
    /\ LET said == IF ok THEN message[h] ELSE "other" IN
       CASE location[h] # {} -> /\ Send(h, "302") /\ target' = [target EXCEPT ![c] = location[h]]
                                  /\ location' = [location EXCEPT ![h] = {}]
                                  /\ message' = [message EXCEPT ![h] = said]
         [] location[h] = {} /\ said = "403" -> /\ Send(h, "403")
                                                  /\ UNCHANGED <<target, location, message>>
         [] OTHER -> /\ message' = [message EXCEPT ![h] = said]
                     /\ UNCHANGED <<owner, outcome, answers, target, location>>
    /\ Goes(h, "post")
    /\ UNCHANGED <<settings, now, events, kind, job, heard, granted, raced, left>>

\* The other requests: only the one for a leaving listener starts a back-off.
UrlReturns(h, ok) ==
    /\ pc[h] = "answer" /\ backend = "url" /\ kind[h] # "add"
    /\ BackoffSet(ok \/ kind[h] # "remove")
    /\ Goes(h, "post")
    /\ UNCHANGED <<settings, now, events, kind, job, owner, heard, data, client, outcome,
                   granted, target, answers, raced, left, slow>>

\* The command has ended.  Its exit code, whatever it is, is looked at only to
\* tell that there is one; the flag the header set decides, and after a command
\* that was killed too, as auth_postprocess_listener has only the flag to look
\* at.  A body cut short by the timeout is lost.
CmdEnds(h, exited) ==
    LET c == job[h] IN
    /\ pc[h] = "answer" /\ backend = "cmd"
    /\ given' = [given EXCEPT ![c] = exited /\ Attached(h)]
    /\ intro' = [intro EXCEPT ![c] = @ /\ (held[h] = 1 \/ ~exited)]
    /\ held' = [held EXCEPT ![h] = 0]
    /\ slow' = [slow EXCEPT ![c] = ~exited]
    /\ Goes(h, IF exited /\ ~authed[c] THEN "end" ELSE "post")
    /\ left' = (left \/ (location[h] # {} /\ ~(exited /\ ~authed[c])))
    /\ UNCHANGED <<settings, until, now, events, kind, job, owner, heard, location, message,
                   authed, outcome, granted, target, answers, failed, raced>>

\* The end of auth_cmd_client: a 403 message first, then a location.
CmdRefuses(h) ==
    LET c == job[h] IN
    /\ pc[h] = "end"
    /\ CASE message[h] = "403" -> /\ Send(h, "403") /\ left' = (left \/ location[h] # {})
                                  /\ UNCHANGED <<location, target>>
         [] message[h] # "403" /\ location[h] # {} ->
               /\ Send(h, "302") /\ target' = [target EXCEPT ![c] = location[h]]
               /\ location' = [location EXCEPT ![h] = {}] /\ UNCHANGED left
         [] OTHER -> UNCHANGED <<owner, outcome, answers, location, target, left>>
    /\ Goes(h, "post")
    /\ UNCHANGED <<settings, until, now, events, kind, job, heard, message, held, client,
                   granted, failed, raced, slow>>

\* auth_postprocess_listener and auth_postprocess_source, then auth_client_free,
\* which refuses a client still there and frees the mount.
Answer(h) ==
    LET c == job[h]
        in == authed[c] \/ (kind[h] = "add" /\ elsewhere)
    IN IF owner[h] = None THEN UNCHANGED <<owner, outcome, answers>>
       ELSE Send(h, CASE ~in -> "401"
                      [] in /\ kind[h] = "auth" -> "started"
                      [] OTHER -> IF authed[c] THEN "added" ELSE "moved")

\* A client that was refused, or has left, is freed.
Freed(c) == /\ intro' = [intro EXCEPT ![c] = FALSE] /\ given' = [given EXCEPT ![c] = FALSE]
            /\ granted' = [granted EXCEPT ![c] = FALSE] /\ slow' = [slow EXCEPT ![c] = FALSE]

Post(h) ==
    /\ pc[h] = "post" /\ kind[h] \in {"add", "auth"}
    /\ authed' = [authed EXCEPT ![job[h]] = @ \/ (owner[h] # None /\ kind[h] = "add" /\ elsewhere)]
    /\ Answer(h)
    /\ IF outcome'[job[h]] = "401" THEN Freed(job[h]) ELSE UNCHANGED <<intro, given, granted, slow>>
    /\ Goes(h, "idle") /\ kind' = [kind EXCEPT ![h] = "none"] /\ job' = [job EXCEPT ![h] = None]
    /\ UNCHANGED <<settings, until, now, events, heard, data, target, failed, raced, left>>

\* A listener that is dropped, and auth_remove_listener once the request is over.
Finish(h) ==
    /\ \/ pc[h] = "drop"
       \/ pc[h] = "post" /\ kind[h] = "remove"
    /\ authed' = [authed EXCEPT ![job[h]] = FALSE]
    /\ Send(h, IF kind[h] = "remove" THEN "gone" ELSE "401")
    /\ Freed(job[h])
    /\ Goes(h, "idle") /\ kind' = [kind EXCEPT ![h] = "none"] /\ job' = [job EXCEPT ![h] = None]
    /\ UNCHANGED <<settings, until, now, events, heard, data, target, failed, raced, left>>

\* stream_start_callback and stream_end_callback free the copy.
EventEnds(h) ==
    /\ pc[h] = "post" /\ kind[h] = "event"
    /\ Goes(h, "idle") /\ kind' = [kind EXCEPT ![h] = "none"]
    /\ UNCHANGED <<settings, until, now, events, job, owner, heard, data, client, outcome, history>>

Tick == /\ now < MaxTime /\ now' = now + 1
        /\ UNCHANGED <<settings, until, events, pc, kind, job, owner, heard, data, client, outcome, history>>

Next ==
    \/ \E h \in Handler, c \in Client : TakeLeaving(h, c) \/ \E k \in {"add", "auth"} : Take(h, c, k)
    \/ \E h \in Handler : \/ TakeEvent(h) \/ UrlCheck(h) \/ UrlClear(h) \/ RequestFails(h) \/ UrlRequest(h)
                          \/ Body(h) \/ CmdRefuses(h) \/ Post(h) \/ Finish(h) \/ EventEnds(h)
    \/ \E h \in Handler, b \in BOOLEAN : CmdRequest(h, b) \/ UrlAdded(h, b) \/ UrlReturns(h, b) \/ CmdEnds(h, b)
    \/ \E h \in Handler, code \in {403, 500} : StatusHeader(h, code)
    \/ \E h \in Handler, value \in {"1", "0", "withintro"} : AuthHeader(h, value)
    \/ \E h \in Handler, name \in {"Location", "other", "403"} : TextHeader(h, name)
    \/ Tick

Spec == Init /\ [][Next]_vars

-----------------------------------------------------------------------------
\* The type of every variable.
TypeOK ==
    /\ backend \in {"url", "cmd"} /\ {innocent, elsewhere, raced, left} \subseteq BOOLEAN
    /\ until \in 0..(MaxTime + Duration) /\ {now, failed} \subseteq 0..MaxTime
    /\ events \in 0..MaxEvents
    /\ pc \in [Handler -> {"idle", "drop", "check", "clear", "request", "answer", "end", "post"}]
    /\ kind \in [Handler -> {"none", "add", "auth", "remove", "event"}]
    /\ {job, owner} \subseteq [Handler -> Client \cup {None}]
    /\ location \in [Handler -> SUBSET (Client \cup {None})]
    /\ heard \in 0..MaxHeaders /\ held \in [Handler -> 0..1]
    /\ message \in [Handler -> {"other", "403"}]
    /\ {authed, intro, given, granted, slow} \subseteq [Client -> BOOLEAN]
    /\ outcome \in [Client -> {"waiting", "added", "moved", "started", "302", "403", "401", "leaving", "gone"}]
    /\ target \in [Client -> SUBSET (Client \cup {None})] /\ answers \in [Client -> 0..2]

\* auth_new_listener, the back ends and auth_client_free: a client taken off the
\* queue is passed on exactly once, whichever of redirect, refusal, admission or
\* disconnection ends its request.
AnsweredOnce ==
    \A c \in Client :
       answers[c] = IF outcome[c] \in {"waiting", "leaving"} THEN 0 ELSE 1

\* url_add_listener, url_stream_auth and auth_cmd_client: unless clients are
\* presumed innocent, a client is let into the mount it asked for only when the
\* last header about it said so, whatever the back-off, errors and redirects did.
\* Of a command too it is the header that counts and not the exit code, which
\* the comment at auth_cmd.c:21 says it is.
LetInByAnswer ==
    \A c \in Client : (outcome[c] \in {"added", "started"} /\ ~innocent) => granted[c]

\* A refused listener is sent to the location its own request was given, not to
\* one another listener's request left with the thread; a command's thread keeps
\* the location when it lets the listener in or answers 403.
RedirectOwn == \A c \in Client : outcome[c] = "302" => target[c] = {c} \/ left

\* A listener let in with the intro flag has the buffers that were collected for
\* it, and no thread keeps any, unless its request failed or timed out.
IntroOwned ==
    /\ \A h \in Handler : pc[h] \in {"idle", "post"} => held[h] = 0
    /\ \A c \in Client : outcome[c] \in {"added", "302", "403"} /\ authed[c] /\ ~slow[c]
                         => (intro[c] <=> given[c])

\* stop_req_until ("prevent further attempts for a while"): after a request for
\* a listener failed it stays set for stop_req_duration, unless a thread that had
\* found an older back-off expired clears the new one.  Requests for source
\* clients and stream events are made all the same.
BackoffKept == (until = 0 /\ failed # 0) => now >= failed + Duration \/ raced

(* A client is passed on once and let in by its own answer only, with its own redirect and its *)
(* own intro, by threads that keep data from one client to the next and share the back-off.    *)
AnswersOwn == 
    /\ TypeOK
    /\ AnsweredOnce
    /\ LetInByAnswer
    /\ RedirectOwn
    /\ IntroOwned
    /\ BackoffKept
=============================================================================
