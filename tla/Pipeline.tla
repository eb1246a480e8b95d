------------------------------ MODULE Pipeline ------------------------------
(***************************************************************************)
(* What happens to a request around its usecase: the middlewares of        *)
(* cmd/api/main.go, the routes of handler/router.go, the rate limiter and  *)
(* the error envelope.                                                     *)
(*                                                                         *)
(* On the way down the middlewares may abort the chain; on the way up      *)
(* ErrorHandler, Recovery and AccessLog see what became of the request.    *)
(* All of this works on the request's own gin.Context.  The one thing      *)
(* requests share here is the limiter, so the steps of a request are those *)
(* of RateLimit and what it does before, between and after them.           *)
(***************************************************************************)
EXTENDS RateLimit

CONSTANT HandlerErrors  \* the errors the handlers of an instance attach

VARIABLES
    stage,      \* stage[r]: how far r has come
    req,        \* req[r]: what r asks for
    ctx,        \* ctx[r]: gin.Context
    ran         \* requests whose usecase was called (history)

web   == <<stage, req, ctx, ran>>
pvars == <<vars, web>>

-----------------------------------------------------------------------------
(* Values *)

\* "slash" is a path that would have a route of its method but for a slash at its
\* end (/healthz/, or /tasks/ for /tasks), "none" any other without a route; no
\* route has the method OPTIONS of a preflight.  (/swagger is left out.)
Req == {q \in [route : {"health", "auth", "api", "slash", "none"},
               origin : {"allowed", "barred", "preflight"},
               token : BOOLEAN] :
           /\ q.origin = "preflight" => q.route = "none"
           /\ q.route # "api" => q.token}

\* Errors attached to a context: AppErrors by their code; domain errors, which
\* From translates; and any other.
Errors == {"VALIDATION_ERROR", "UNAUTHORIZED", "RATE_LIMITED", "FORBIDDEN", "CONFLICT",
           "ErrNotFound", "ErrConflict", "ErrForbidden", "ErrUnauthorized", "ErrValidation",
           "ErrIdemInFlight", "other"}

ASSUME HandlerErrorsAssumption == HandlerErrors \subseteq Errors \ {"RATE_LIMITED"}

\* "empty" is data without a byte; "plain" is what gin and net/http write.
Bodies == {"view", "empty", "envelope", "plain"}

\* 200 stands for 201 as well.
Statuses == {200, 204, 301, 307, 401, 403, 404, 409, 422, 429, 500}

\* status and wrote are the response writer's; logged is the status in the
\* access log, 0 while there is no line.
Context == [status : Statuses, wrote : BOOLEAN, body : Seq(Bodies), errs : Seq(Errors),
            aborted : BOOLEAN, panicking : BOOLEAN, logged : Statuses \cup {0}]

\* A route that does not exist starts from 404, any other from 200.
NewContext(route) ==
    [status |-> IF route = "none" THEN 404 ELSE 200, wrote |-> FALSE, body |-> <<>>,
     errs |-> <<>>, aborted |-> FALSE, panicking |-> FALSE, logged |-> 0]

-----------------------------------------------------------------------------
(* gin.Context *)

\* Status has no effect once the header is out.
SetStatus(c, s) == IF c.wrote THEN c ELSE [c EXCEPT !.status = s]

Write(c, s, b) == [SetStatus(c, s) EXCEPT !.wrote = TRUE, !.body = Append(@, b)]

Error(c, err) == [c EXCEPT !.errs = Append(@, err)]

Abort(c) == [c EXCEPT !.aborted = TRUE]

AbortWithStatus(c, s) == Abort([SetStatus(c, s) EXCEPT !.wrote = TRUE])

-----------------------------------------------------------------------------
(* On the way down *)

\* gin-contrib/cors with this allowlist: an unknown origin is refused, and a
\* preflight answered, without a body.
CORS(c, origin) ==
    CASE origin = "barred"    -> AbortWithStatus(c, 403)
      [] origin = "preflight" -> AbortWithStatus(c, 204)
      [] origin = "allowed"   -> c

\* No bearer token, or one that does not parse or has expired.
JWTAuth(c, token) == IF token THEN c ELSE Abort(Error(c, "UNAUTHORIZED"))

\* Mutant: the chain is not aborted, and gin goes on to the handler.
TooManyRequestsNoAbort(c) == Error(c, "RATE_LIMITED")

TooManyRequests(c) == Abort(Error(c, "RATE_LIMITED"))

Health(c) == Write(c, 200, "view")

\* What a handler may leave behind: a view; empty data, the replay of a key that
\* was reset (TaskHandler.Create); no content, which only sets the status; an
\* error it attached (a body over the limit of BodyLimit is one that does not
\* bind); a view that could not be written to the end; a panic.
Handled(c) ==
    {Write(c, 200, "view"), Write(c, 200, "empty"), SetStatus(c, 204)}
    \cup {Error(c, err) : err \in HandlerErrors}
    \cup {Error(Write(c, 200, "view"), "other"), [c EXCEPT !.panicking = TRUE]}

-----------------------------------------------------------------------------
(* On the way up *)

\* apperr.From.
From(err) ==
    CASE err \in {"VALIDATION_ERROR", "ErrValidation"}          -> 422
      [] err \in {"UNAUTHORIZED", "ErrUnauthorized"}            -> 401
      [] err = "RATE_LIMITED"                                   -> 429
      [] err = "ErrNotFound"                                    -> 404
      [] err \in {"FORBIDDEN", "ErrForbidden"}                  -> 403
      [] err \in {"CONFLICT", "ErrConflict", "ErrIdemInFlight"} -> 409
      [] err = "other"                                          -> 500

\* The last error becomes the envelope, unless something was written; a panic
\* passes by.
ErrorHandler(c) ==
    IF c.panicking \/ c.errs = <<>> \/ c.wrote THEN c
    ELSE Abort(Write(c, From(c.errs[Len(c.errs)]), "envelope"))

\* Mutant: the panic is caught and logged, but not answered.
RecoverySilent(c) == [c EXCEPT !.panicking = FALSE]

\* A panic is answered, unless something was written.
Recovery(c) ==
    IF ~c.panicking THEN c
    ELSE LET caught == [c EXCEPT !.panicking = FALSE] IN
         IF caught.wrote THEN caught ELSE Abort(Write(caught, 500, "envelope"))

\* The status as it is when the rest of the chain returns.
AccessLog(c) == IF c.panicking THEN c ELSE [c EXCEPT !.logged = c.status]

\* gin's engine: the default answer to what has no route, and the header if it
\* is not out.
Flush(c, route) ==
    IF route = "none" /\ ~c.wrote /\ c.status = 404 THEN Write(c, 404, "plain")
    ELSE [c EXCEPT !.wrote = TRUE]

\* Mutant: Recovery outside AccessLog.
LeaveRecoveryOutside(c, route) == Flush(Recovery(AccessLog(ErrorHandler(c))), route)

\* The chain of main.go, from the inside.
Leave(c, route) == Flush(AccessLog(Recovery(ErrorHandler(c))), route)

-----------------------------------------------------------------------------
(* Past the chain *)

\* gin.New leaves RedirectTrailingSlash on: a GET is answered 301 with a line of
\* HTML, any other method 307 with nothing.
Redirects ==
    {Write(NewContext("slash"), 301, "plain"),
     [SetStatus(NewContext("slash"), 307) EXCEPT !.wrote = TRUE]}

-----------------------------------------------------------------------------
(* Requests *)

PipelineInit ==
    /\ Init
    /\ stage = [r \in Requests |-> "new"]
    /\ req   = [r \in Requests |-> NULL]
    /\ ctx   = [r \in Requests |-> NewContext("none")]
    /\ ran   = {}

\* An aborted chain turns back at once.
GoOn(r, c, label) ==
    /\ ctx' = [ctx EXCEPT ![r] = c]
    /\ stage' = [stage EXCEPT ![r] = IF c.aborted THEN "leave" ELSE label]

\* Down to the first thing that is not the request's own.
Arrive(r, q) ==
    LET c == CORS(NewContext(q.route), q.origin) IN
    /\ stage[r] = "new"
    /\ req' = [req EXCEPT ![r] = q]
    /\ \/ q.route = "none" /\ GoOn(r, c, "leave")
       \/ q.route = "health" /\ GoOn(r, IF c.aborted THEN c ELSE Health(c), "leave")
       \/ q.route = "auth" /\ GoOn(r, c, "limit")
       \/ q.route = "api" /\ GoOn(r, IF c.aborted THEN c ELSE JWTAuth(c, q.token), "handle")
    /\ UNCHANGED <<vars, ran>>

\* The engine redirects by itself: no middleware sees the request, the access
\* log and CORS included.
Redirect(r, q) ==
    /\ stage[r] = "new"
    /\ q.route = "slash"
    /\ req' = [req EXCEPT ![r] = q]
    /\ \E c \in Redirects : ctx' = [ctx EXCEPT ![r] = c]
    /\ stage' = [stage EXCEPT ![r] = "done"]
    /\ UNCHANGED <<vars, ran>>

\* The limiter, up to its decision.
Limit(r) ==
    /\ stage[r] = "limit"
    /\ (\E a \in Addresses : Get(r, a)) \/ Clock(r)
    /\ UNCHANGED web

\* Its decision.
Decide(r) ==
    /\ stage[r] = "limit"
    /\ Allow(r)
    /\ GoOn(r, IF pc'[r] = "refused" THEN TooManyRequests(ctx[r]) ELSE ctx[r], "handle")
    /\ UNCHANGED <<req, ran>>

\* The handler and its usecase.
Handle(r) ==
    /\ stage[r] = "handle"
    /\ ran' = ran \cup {r}
    /\ \E c \in Handled(ctx[r]) : ctx' = [ctx EXCEPT ![r] = c]
    /\ stage' = [stage EXCEPT ![r] = "leave"]
    /\ UNCHANGED <<vars, req>>

\* Back up the chain.
Answer(r) ==
    /\ stage[r] = "leave"
    /\ ctx' = [ctx EXCEPT ![r] = Leave(ctx[r], req[r].route)]
    /\ stage' = [stage EXCEPT ![r] = "done"]
    /\ UNCHANGED <<vars, req, ran>>

\* Every request is answered.
Answered ==
    /\ \A r \in Requests : stage[r] = "done"
    /\ UNCHANGED pvars

PipelineNext ==
    \/ \E r \in Requests :
        \/ \E q \in Req : Arrive(r, q) \/ Redirect(r, q)
        \/ Limit(r)
        \/ Decide(r)
        \/ Handle(r)
        \/ Answer(r)
    \/ Tick /\ UNCHANGED web
    \/ Answered

PipelineSpec == PipelineInit /\ [][PipelineNext]_pvars

-----------------------------------------------------------------------------
(* What the code guarantees                                                *)

\* Contexts have values of their shape: only statuses the code sends, and a
\* request that is under way asks for something.
WebTypeOK ==
    /\ stage \in [Requests -> {"new", "limit", "handle", "leave", "done"}]
    /\ req \in [Requests -> Req \cup {NULL}]
    /\ ctx \in [Requests -> Context]
    /\ ran \subseteq Requests
    /\ \A r \in Requests : stage[r] # "new" => req[r] \in Req

\* The shape of the state, the limiter's included: no status but those the
\* code sends, and no bucket with more than the burst or less than nothing.
PipelineTypeOK == WebTypeOK /\ TypeOK

\* Whatever happens to a request (refused, failed, panicked, cut off while
\* writing), it gets one answer, and the access log has the status of that
\* answer; only a redirect, which the middlewares do not see, has no line.
OneAnswer ==
    \A r \in Requests :
        stage[r] = "done" =>
            /\ ctx[r].wrote /\ ~ctx[r].panicking
            /\ Len(ctx[r].body) <= 1
            /\ ctx[r].logged = IF req[r].route = "slash" THEN 0 ELSE ctx[r].status

\* What is due for the errors attached on the way: the envelope with the status
\* of the last one, unless a view was being written by then.  Without an error, a
\* request whose usecase was called is answered as its handler did, or with the
\* envelope of a panic.
AnswerDue(c, called) ==
    IF c.errs # <<>>
    THEN \/ c.status = From(c.errs[Len(c.errs)]) /\ c.body = <<"envelope">>
         \/ called /\ c.status = 200 /\ c.body = <<"view">>
    ELSE called =>
         \/ c.status = 200 /\ c.body \in {<<"view">>, <<"empty">>}
         \/ c.status = 204 /\ c.body = <<>>
         \/ c.status = 500 /\ c.body = <<"envelope">>

\* README.md:12: every error that a handler or a middleware attaches comes out as
\* the envelope with its status, and so does a panic; a request whose usecase was
\* called gets no answer but its handler's or the envelope.  (What CORS and gin
\* answer by themselves was attached by nobody.)
ErrorsInEnvelope ==
    \A r \in Requests : stage[r] = "done" => AnswerDue(ctx[r], r \in ran)

\* No usecase is called for a request that was refused anywhere on the way; and
\* an address pays with tokens for calls of usecases of /auth only, one each.
OnlyAdmittedRun ==
    /\ \A r \in ran :
           /\ req[r].route \in {"auth", "api"}
           /\ req[r].origin = "allowed" /\ req[r].token
           /\ req[r].route = "auth" => pc[r] = "admitted"
    /\ \A r \in Requests :
           pc[r] = "admitted" => req[r].route = "auth" /\ (r \in ran \/ stage[r] = "handle")

=============================================================================
