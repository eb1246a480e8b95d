--------------------------- MODULE PipelineProofs ---------------------------
(***************************************************************************)
(* Proofs about the pipeline, for any number of requests and addresses and *)
(* whatever errors the handlers attach.                                    *)
(***************************************************************************)
EXTENDS Pipeline, RateLimitProofs

-----------------------------------------------------------------------------
(* What each function makes of a context, field by field                   *)

\* Status moves the status until the header is out, and nothing else.
LEMMA StatusSet ==
    ASSUME NEW c \in Context, NEW s \in Statuses
    PROVE  LET d == SetStatus(c, s) IN
           /\ d \in Context
           /\ d.status = IF c.wrote THEN c.status ELSE s
           /\ (d.wrote <=> c.wrote) /\ d.body = c.body /\ d.errs = c.errs /\ d.logged = c.logged
           /\ (d.aborted <=> c.aborted) /\ (d.panicking <=> c.panicking)
  BY DEF SetStatus, Context

\* A body put in place sends the header, and nothing else changes.
LEMMA BodySet ==
    ASSUME NEW c \in Context, NEW x \in Seq(Bodies)
    PROVE  LET d == [[c EXCEPT !.wrote = TRUE] EXCEPT !.body = x] IN
           /\ d \in Context
           /\ d.wrote /\ d.body = x /\ d.status = c.status /\ d.errs = c.errs /\ d.logged = c.logged
           /\ (d.aborted <=> c.aborted) /\ (d.panicking <=> c.panicking)
  BY DEF Context

\* A write sends the header and one more body.
LEMMA Written ==
    ASSUME NEW c \in Context, NEW s \in Statuses, NEW b \in Bodies
    PROVE  LET d == Write(c, s, b) IN
           /\ d \in Context
           /\ d.status = IF c.wrote THEN c.status ELSE s
           /\ d.wrote /\ d.body = Append(c.body, b) /\ d.errs = c.errs /\ d.logged = c.logged
           /\ (d.aborted <=> c.aborted) /\ (d.panicking <=> c.panicking)
  <1> DEFINE e == SetStatus(c, s)
             x == Append(e.body, b)
  <1>1. e \in Context /\ e.body \in Seq(Bodies) /\ x \in Seq(Bodies)
    BY StatusSet DEF Context
  <1>2. Write(c, s, b) = [[e EXCEPT !.wrote = TRUE] EXCEPT !.body = x]
    BY <1>1 DEF Write, Context
  <1> DEFINE f == [[e EXCEPT !.wrote = TRUE] EXCEPT !.body = x]
  <1> HIDE DEF e, x
  <1>3. /\ f \in Context
        /\ f.wrote /\ f.body = x /\ f.status = e.status /\ f.errs = e.errs /\ f.logged = e.logged
        /\ (f.aborted <=> e.aborted) /\ (f.panicking <=> e.panicking)
    BY <1>1, BodySet
  <1> HIDE DEF f
  <1>4. Write(c, s, b) = f
    BY <1>2 DEF f
  <1> QED
    BY <1>3, <1>4, StatusSet DEF e, x

\* An error is attached after those before it.
LEMMA ErrorAdded ==
    ASSUME NEW c \in Context, NEW err \in Errors
    PROVE  LET d == Error(c, err) IN
           /\ d \in Context
           /\ d.status = c.status /\ (d.wrote <=> c.wrote) /\ d.body = c.body
           /\ d.errs = Append(c.errs, err)
           /\ (d.aborted <=> c.aborted) /\ (d.panicking <=> c.panicking)
  <1> DEFINE x == Append(c.errs, err)
  <1>1. x \in Seq(Errors)
    BY DEF Context
  <1>2. Error(c, err) = [c EXCEPT !.errs = x]
    BY DEF Error, Context
  <1> HIDE DEF x
  <1>3. LET d == [c EXCEPT !.errs = x] IN
           /\ d \in Context
           /\ d.status = c.status /\ (d.wrote <=> c.wrote) /\ d.body = c.body
           /\ d.errs = x
           /\ (d.aborted <=> c.aborted) /\ (d.panicking <=> c.panicking)
    BY <1>1 DEF Context
  <1> QED
    BY <1>2, <1>3 DEF x

\* Abort changes nothing but the chain.
LEMMA Aborted ==
    ASSUME NEW c \in Context
    PROVE  LET d == Abort(c) IN
           /\ d \in Context
           /\ d.status = c.status /\ (d.wrote <=> c.wrote) /\ d.body = c.body /\ d.errs = c.errs
           /\ d.aborted /\ (d.panicking <=> c.panicking)
  BY DEF Abort, Context

\* A status without a body, and the end of the chain.
LEMMA AbortedWithStatus ==
    ASSUME NEW c \in Context, NEW s \in Statuses
    PROVE  LET d == AbortWithStatus(c, s) IN
           /\ d \in Context
           /\ d.status = IF c.wrote THEN c.status ELSE s
           /\ d.wrote /\ d.body = c.body /\ d.errs = c.errs
           /\ d.aborted /\ (d.panicking <=> c.panicking)
  <1> DEFINE e == SetStatus(c, s)
             f == [e EXCEPT !.wrote = TRUE]
  <1>1. /\ e \in Context /\ e.status = IF c.wrote THEN c.status ELSE s
        /\ e.body = c.body /\ e.errs = c.errs /\ (e.panicking <=> c.panicking)
    BY StatusSet
  <1>2. AbortWithStatus(c, s) = Abort(f)
    BY DEF AbortWithStatus
  <1> HIDE DEF e
  <1>3. /\ f \in Context
        /\ f.status = e.status /\ f.wrote /\ f.body = e.body /\ f.errs = e.errs
        /\ (f.panicking <=> e.panicking)
    BY <1>1 DEF Context
  <1> HIDE DEF f
  <1> DEFINE d == Abort(f)
  <1>4. /\ d \in Context
        /\ d.status = f.status /\ (d.wrote <=> f.wrote) /\ d.body = f.body /\ d.errs = f.errs
        /\ d.aborted /\ (d.panicking <=> f.panicking)
    BY <1>3, Aborted
  <1> HIDE DEF d
  <1>5. AbortWithStatus(c, s) = d
    BY <1>2 DEF d
  <1> QED
    BY <1>1, <1>3, <1>4, <1>5

\* The status of an error is one of the envelope's.
LEMMA FromStatus == ASSUME NEW err \in Errors PROVE From(err) \in Statuses
  BY DEF Errors, From, Statuses

\* ErrorHandler answers an attached error if nothing was written.
LEMMA ErrorHandled ==
    ASSUME NEW c \in Context
    PROVE  LET d == ErrorHandler(c) IN
           IF c.panicking \/ c.errs = <<>> \/ c.wrote THEN d = c
           ELSE /\ d \in Context /\ d.status = From(c.errs[Len(c.errs)]) /\ d.wrote
                /\ d.body = Append(c.body, "envelope") /\ d.errs = c.errs /\ ~d.panicking
  <1>1. CASE c.panicking \/ c.errs = <<>> \/ c.wrote
    BY <1>1 DEF ErrorHandler
  <1>2. CASE ~(c.panicking \/ c.errs = <<>> \/ c.wrote)
    <2> DEFINE s == From(c.errs[Len(c.errs)])
    <2>1. s \in Statuses
      <3>1. c.errs \in Seq(Errors)
        BY DEF Context
      <3>2. c.errs[Len(c.errs)] \in Errors
        BY <1>2, <3>1
      <3> QED
        BY <3>2, FromStatus
    <2>2. ErrorHandler(c) = Abort(Write(c, s, "envelope"))
      BY <1>2 DEF ErrorHandler
    <2> DEFINE w == Write(c, s, "envelope")
    <2> HIDE DEF s
    <2>3. "envelope" \in Bodies
      BY DEF Bodies
    <2>4. w \in Context /\ w.status = s /\ w.wrote /\ w.body = Append(c.body, "envelope")
          /\ w.errs = c.errs /\ ~w.panicking
      BY <1>2, <2>1, <2>3, Written
    <2> HIDE DEF w
    <2>5. ErrorHandler(c) = Abort(w)
      BY <2>2 DEF w
    <2> QED
      BY <1>2, <2>1, <2>4, <2>5, Aborted DEF s
  <1> QED
    BY <1>1, <1>2

\* Recovery ends a panic, and answers it if nothing was written.
LEMMA Recovered ==
    ASSUME NEW c \in Context
    PROVE  LET d == Recovery(c) IN
           IF ~c.panicking THEN d = c
           ELSE /\ d \in Context /\ d.wrote /\ ~d.panicking /\ d.errs = c.errs
                /\ IF c.wrote THEN d.status = c.status /\ d.body = c.body
                   ELSE d.status = 500 /\ d.body = Append(c.body, "envelope")
  <1> DEFINE e == [c EXCEPT !.panicking = FALSE]
  <1>1. e \in Context /\ ~e.panicking /\ e.status = c.status /\ e.body = c.body
        /\ (e.wrote <=> c.wrote) /\ e.errs = c.errs
    BY DEF Context
  <1>2. c.panicking =>
            Recovery(c) = IF e.wrote THEN e ELSE Abort(Write(e, 500, "envelope"))
    BY DEF Recovery
  <1>3. ~c.panicking => Recovery(c) = c
    BY DEF Recovery
  <1> HIDE DEF e
  <1>4. 500 \in Statuses /\ "envelope" \in Bodies
    BY DEF Statuses, Bodies
  <1>5. CASE c.panicking /\ ~c.wrote
    <2> DEFINE w == Write(e, 500, "envelope")
    <2>1. /\ w \in Context /\ w.status = 500 /\ w.wrote /\ w.body = Append(e.body, "envelope")
          /\ ~w.panicking /\ w.errs = e.errs
      BY <1>1, <1>4, <1>5, Written
    <2>2. Recovery(c) = Abort(w)
      BY <1>1, <1>2, <1>5
    <2> HIDE DEF w
    <2> DEFINE d == Abort(w)
    <2>3. d \in Context /\ d.status = 500 /\ d.wrote /\ d.body = w.body /\ ~d.panicking
          /\ d.errs = w.errs
      BY <2>1, Aborted
    <2> HIDE DEF d
    <2>4. Recovery(c) = d
      BY <2>2 DEF d
    <2> QED
      BY <1>1, <1>5, <2>1, <2>3, <2>4
  <1>6. CASE c.panicking /\ c.wrote
    <2>1. Recovery(c) = e
      BY <1>1, <1>2, <1>6
    <2> QED
      BY <1>1, <1>6, <2>1
  <1> QED
    BY <1>3, <1>5, <1>6

\* AccessLog notes the status it finds, and nothing else changes.
LEMMA Logged ==
    ASSUME NEW c \in Context, ~c.panicking
    PROVE  LET d == AccessLog(c) IN
           /\ d \in Context
           /\ d.status = c.status /\ (d.wrote <=> c.wrote) /\ d.body = c.body
           /\ d.errs = c.errs /\ ~d.panicking /\ d.logged = c.status
  BY DEF AccessLog, Context

\* The engine sends what is still unsent, and its own 404 to what has no route.
LEMMA Flushed ==
    ASSUME NEW c \in Context, NEW route, ~c.panicking
    PROVE  LET d == Flush(c, route) IN
           /\ d \in Context
           /\ d.status = c.status /\ d.wrote /\ ~d.panicking /\ d.logged = c.logged
           /\ d.errs = c.errs
           /\ d.body = IF route = "none" /\ ~c.wrote /\ c.status = 404
                       THEN Append(c.body, "plain") ELSE c.body
  <1>1. CASE route = "none" /\ ~c.wrote /\ c.status = 404
    <2>1. 404 \in Statuses /\ "plain" \in Bodies
      BY DEF Statuses, Bodies
    <2>2. Flush(c, route) = Write(c, 404, "plain")
      BY <1>1 DEF Flush
    <2> QED
      BY <1>1, <2>1, <2>2, Written
  <1>2. CASE ~(route = "none" /\ ~c.wrote /\ c.status = 404)
    <2> DEFINE e == [c EXCEPT !.wrote = TRUE]
    <2>1. Flush(c, route) = e
      BY <1>2 DEF Flush
    <2>2. /\ e \in Context /\ e.status = c.status /\ e.wrote /\ ~e.panicking
          /\ e.logged = c.logged /\ e.body = c.body /\ e.errs = c.errs
      BY DEF Context
    <2> HIDE DEF e
    <2> QED
      BY <1>2, <2>1, <2>2
  <1> QED
    BY <1>1, <1>2

-----------------------------------------------------------------------------
(* Up the chain                                                            *)

\* What a request may bring to the end of the chain: an answer that is
\* written (and perhaps cut off), an error or a panic instead of one, no content,
\* or what CORS and the router leave.
Viewed(c)    == /\ c.wrote /\ c.body \in {<<"view">>, <<"empty">>} /\ c.status = 200 /\ ~c.panicking
                /\ c.errs = <<>> \/ c.body = <<"view">>
Erred(c)     == ~c.wrote /\ c.body = <<>> /\ c.errs # <<>> /\ ~c.panicking
Panicked(c)  == ~c.wrote /\ c.body = <<>> /\ c.errs = <<>> /\ c.panicking
Empty(c)     == ~c.wrote /\ c.body = <<>> /\ c.errs = <<>> /\ ~c.panicking /\ c.status = 204
Stopped(c)   == c.wrote /\ c.body = <<>> /\ c.errs = <<>> /\ ~c.panicking
Unrouted(c)  == ~c.wrote /\ c.body = <<>> /\ c.errs = <<>> /\ ~c.panicking /\ c.status = 404

\* What a request, with its usecase called or not, may look like before it goes
\* back up the chain.
LeaveOK(called, c) ==
    \/ Viewed(c) /\ (called \/ c.errs = <<>>)
    \/ Erred(c)
    \/ Panicked(c)
    \/ Empty(c)
    \/ ~called /\ Stopped(c)
    \/ ~called /\ Unrouted(c)

\* What OneAnswer and ErrorsInEnvelope ask of an answer that the chain gives.
AnswerOK(called, c) ==
    /\ c.wrote /\ ~c.panicking /\ Len(c.body) <= 1 /\ c.logged = c.status
    /\ AnswerDue(c, called)

\* ErrorHandler and Recovery leave no error without an answer and no panic.
LEMMA Caught ==
    ASSUME NEW called, NEW c \in Context, LeaveOK(called, c)
    PROVE  LET d == Recovery(ErrorHandler(c)) IN
           /\ d \in Context /\ ~d.panicking
           /\ \/ d.wrote /\ Len(d.body) <= 1 /\ AnswerDue(d, called)
              \/ Empty(d)
              \/ ~called /\ Unrouted(d)
  <1> DEFINE e == ErrorHandler(c)
             d == Recovery(e)
  <1>1. Append(<<>>, "envelope") = <<"envelope">> /\ Len(<<"envelope">>) = 1
    OBVIOUS
  <1>2. CASE Erred(c)
    <2>1. /\ e \in Context /\ e.wrote /\ e.body = <<"envelope">> /\ ~e.panicking
          /\ e.errs = c.errs /\ e.errs # <<>> /\ e.status = From(e.errs[Len(e.errs)])
      BY <1>1, <1>2, ErrorHandled DEF Erred
    <2> HIDE DEF e
    <2>2. d = e
      BY <2>1, Recovered
    <2>3. AnswerDue(e, called) /\ Len(e.body) <= 1
      BY <1>1, <2>1 DEF AnswerDue
    <2> QED
      BY <2>1, <2>2, <2>3 DEF e
  <1>3. CASE Panicked(c)
    <2>1. e = c
      BY <1>3, ErrorHandled DEF Panicked
    <2> DEFINE f == Recovery(c)
    <2>2. /\ f \in Context /\ f.wrote /\ ~f.panicking
          /\ f.status = 500 /\ f.body = <<"envelope">> /\ f.errs = <<>>
      BY <1>1, <1>3, Recovered DEF Panicked
    <2> HIDE DEF f
    <2>3. AnswerDue(f, called) /\ Len(f.body) <= 1
      BY <1>1, <2>2 DEF AnswerDue
    <2> QED
      BY <2>1, <2>2, <2>3 DEF f
  <1>4. CASE ~Erred(c) /\ ~Panicked(c)
    <2>1. ~c.panicking /\ (c.errs = <<>> \/ c.wrote)
      BY <1>4 DEF LeaveOK, Viewed, Empty, Stopped, Unrouted
    <2>2. e = c
      BY <2>1, ErrorHandled
    <2>3. Recovery(c) = c
      BY <2>1, Recovered
    <2>4. CASE Viewed(c) /\ (called \/ c.errs = <<>>)
      <3>1. Len(c.body) <= 1
        <4>1. CASE c.body = <<"view">>
          BY <4>1
        <4>2. CASE c.body = <<"empty">>
          BY <4>2
        <4> QED
          BY <2>4, <4>1, <4>2 DEF Viewed
      <3>2. AnswerDue(c, called)
        BY <2>4 DEF Viewed, AnswerDue
      <3> QED
        BY <2>1, <2>2, <2>3, <2>4, <3>1, <3>2 DEF Viewed
    <2>5. CASE ~called /\ Stopped(c)
      <3>1. Len(c.body) <= 1
        BY <2>5 DEF Stopped
      <3>2. AnswerDue(c, called)
        BY <2>5 DEF Stopped, AnswerDue
      <3> QED
        BY <2>1, <2>2, <2>3, <2>5, <3>1, <3>2 DEF Stopped
    <2>6. CASE Empty(c) \/ (~called /\ Unrouted(c))
      BY <2>1, <2>2, <2>3, <2>6
    <2> QED
      BY <1>4, <2>4, <2>5, <2>6 DEF LeaveOK
  <1> QED
    BY <1>2, <1>3, <1>4

\* What comes back up the chain is one answer, logged as it is.
LEMMA Answers ==
    ASSUME NEW called, NEW route, NEW c \in Context, LeaveOK(called, c)
    PROVE  Leave(c, route) \in Context /\ AnswerOK(called, Leave(c, route))
  <1> DEFINE d == Recovery(ErrorHandler(c))
             l == AccessLog(d)
             f == Flush(l, route)
  <1>1. /\ d \in Context /\ ~d.panicking
        /\ \/ d.wrote /\ Len(d.body) <= 1 /\ AnswerDue(d, called)
           \/ Empty(d)
           \/ ~called /\ Unrouted(d)
    BY Caught
  <1> HIDE DEF d
  <1>2. /\ l \in Context /\ l.status = d.status /\ (l.wrote <=> d.wrote) /\ l.body = d.body
        /\ l.errs = d.errs /\ ~l.panicking /\ l.logged = d.status
    BY <1>1, Logged
  <1> HIDE DEF l
  <1>3. /\ f \in Context /\ f.status = l.status /\ f.wrote /\ ~f.panicking /\ f.logged = l.logged
        /\ f.errs = l.errs
        /\ f.body = IF route = "none" /\ ~l.wrote /\ l.status = 404
                    THEN Append(l.body, "plain") ELSE l.body
    BY <1>2, Flushed
  <1>4. f = Leave(c, route)
    BY DEF Leave, l, d
  <1> HIDE DEF f
  <1>5. Append(<<>>, "plain") = <<"plain">> /\ Len(<<"plain">>) = 1 /\ Len(<<>>) = 0
    OBVIOUS
  <1>6. Len(f.body) <= 1 /\ AnswerDue(f, called)
    <2>1. CASE d.wrote /\ Len(d.body) <= 1 /\ AnswerDue(d, called)
      <3>1. f.body = d.body /\ f.status = d.status /\ f.errs = d.errs
        BY <1>2, <1>3, <2>1
      <3>2. AnswerDue(f, called)
        BY <2>1, <3>1 DEF AnswerDue
      <3> QED
        BY <2>1, <3>1, <3>2
    <2>2. CASE Empty(d)
      <3>1. f.body = <<>> /\ f.status = 204 /\ f.errs = <<>>
        BY <1>2, <1>3, <2>2 DEF Empty
      <3> QED
        BY <1>5, <3>1 DEF AnswerDue
    <2>3. CASE ~called /\ Unrouted(d)
      <3>1. f.body \in {<<>>, <<"plain">>} /\ f.errs = <<>>
        BY <1>2, <1>3, <1>5, <2>3 DEF Unrouted
      <3>2. Len(f.body) <= 1
        <4>1. CASE f.body = <<>>
          BY <4>1
        <4>2. CASE f.body = <<"plain">>
          BY <4>2
        <4> QED
          BY <3>1, <4>1, <4>2
      <3> QED
        BY <2>3, <3>1, <3>2 DEF AnswerDue
    <2> QED
      BY <1>1, <2>1, <2>2, <2>3
  <1>7. f.logged = f.status
    BY <1>2, <1>3
  <1>8. AnswerOK(called, f)
    BY <1>3, <1>6, <1>7 DEF AnswerOK
  <1> QED
    BY <1>3, <1>4, <1>8

-----------------------------------------------------------------------------
(* Down the chain                                                          *)

\* A context nothing has happened to yet but the routing.
Fresh(c) == ~c.wrote /\ c.body = <<>> /\ c.errs = <<>> /\ ~c.panicking /\ ~c.aborted

\* Every request starts with a fresh context.
LEMMA Routed ==
    ASSUME NEW route
    PROVE  /\ NewContext(route) \in Context
           /\ Fresh(NewContext(route))
           /\ NewContext(route).status = IF route = "none" THEN 404 ELSE 200
  BY DEF NewContext, Context, Statuses, Fresh

\* What CORS lets through it leaves alone; what it stops leaves the chain.
LEMMA Crossed ==
    ASSUME NEW q \in Req
    PROVE  LET c == CORS(NewContext(q.route), q.origin) IN
           /\ c \in Context
           /\ IF q.origin = "allowed" THEN c = NewContext(q.route)
              ELSE c.aborted /\ LeaveOK(FALSE, c)
  <1> DEFINE n == NewContext(q.route)
  <1>1. n \in Context /\ Fresh(n)
    BY Routed
  <1>2. q.origin \in {"allowed", "barred", "preflight"}
    BY DEF Req
  <1> HIDE DEF n
  <1>3. CASE q.origin = "allowed"
    <2>1. CORS(n, q.origin) = n
      BY <1>3 DEF CORS
    <2> QED
      BY <1>1, <1>3, <2>1 DEF n
  <1>4. CASE q.origin = "barred"
    <2>1. CORS(n, q.origin) = AbortWithStatus(n, 403) /\ 403 \in Statuses
      BY <1>4 DEF CORS, Statuses
    <2> QED
      BY <1>1, <1>4, <2>1, AbortedWithStatus DEF n, Fresh, LeaveOK, Stopped
  <1>5. CASE q.origin = "preflight"
    <2>1. CORS(n, q.origin) = AbortWithStatus(n, 204) /\ 204 \in Statuses
      BY <1>5 DEF CORS, Statuses
    <2> QED
      BY <1>1, <1>5, <2>1, AbortedWithStatus DEF n, Fresh, LeaveOK, Stopped
  <1> QED
    BY <1>2, <1>3, <1>4, <1>5 DEF n

\* An error that stops the chain, before anything was written.
LEMMA Refused ==
    ASSUME NEW called, NEW c \in Context, Fresh(c), NEW err \in Errors
    PROVE  LET d == Abort(Error(c, err)) IN d \in Context /\ d.aborted /\ LeaveOK(called, d)
  <1> DEFINE e == Error(c, err)
  <1>1. e \in Context /\ ~e.wrote /\ e.body = <<>> /\ e.errs = Append(<<>>, err) /\ ~e.panicking
    BY ErrorAdded DEF Fresh
  <1>2. e.errs # <<>>
    BY <1>1
  <1> HIDE DEF e
  <1>3. LET d == Abort(e) IN d \in Context /\ d.aborted /\ Erred(d)
    BY <1>1, <1>2, Aborted DEF Erred
  <1> QED
    BY <1>3 DEF LeaveOK, e

\* Data that a handler writes is an answer.
LEMMA ViewWritten ==
    ASSUME NEW c \in Context, Fresh(c), NEW b \in {"view", "empty"}
    PROVE  LET w == Write(c, 200, b) IN
           w \in Context /\ Viewed(w) /\ w.errs = <<>> /\ w.body = <<b>>
  <1>1. 200 \in Statuses /\ b \in Bodies /\ Append(<<>>, b) = <<b>>
    BY DEF Statuses, Bodies
  <1> DEFINE w == Write(c, 200, b)
  <1>2. /\ w \in Context /\ w.status = 200 /\ w.wrote /\ w.body = <<b>> /\ w.errs = <<>>
        /\ ~w.panicking
    BY <1>1, Written DEF Fresh
  <1> HIDE DEF w
  <1>3. Viewed(w)
    BY <1>2 DEF Viewed
  <1> QED
    BY <1>2, <1>3 DEF w

\* Whatever a handler leaves behind is one of the things that can be answered.
LEMMA HandledOK ==
    ASSUME NEW c \in Context, Fresh(c), c.status = 200, NEW d \in Handled(c)
    PROVE  d \in Context /\ LeaveOK(TRUE, d)
  <1>1. 204 \in Statuses /\ "other" \in Errors
    BY DEF Statuses, Errors
  <1> DEFINE w == Write(c, 200, "view")
             z == Write(c, 200, "empty")
  <1>2. w \in Context /\ Viewed(w) /\ w.body = <<"view">> /\ z \in Context /\ Viewed(z)
    BY ViewWritten
  <1> HIDE DEF w, z
  <1>3. CASE d = w \/ d = z
    BY <1>2, <1>3 DEF LeaveOK
  <1>4. CASE d = SetStatus(c, 204)
    BY <1>1, <1>4, StatusSet DEF LeaveOK, Empty, Fresh
  <1>5. ASSUME NEW err \in HandlerErrors, d = Error(c, err) PROVE d \in Context /\ LeaveOK(TRUE, d)
    <2>1. err \in Errors
      BY HandlerErrorsAssumption
    <2>2. d \in Context /\ ~d.wrote /\ d.body = <<>> /\ d.errs = Append(<<>>, err) /\ ~d.panicking
      BY <1>5, <2>1, ErrorAdded DEF Fresh
    <2>3. d.errs # <<>>
      BY <2>2
    <2> QED
      BY <2>2, <2>3 DEF LeaveOK, Erred
  <1>6. CASE d = Error(w, "other")
    <2> DEFINE x == Error(w, "other")
    <2>1. /\ x \in Context /\ x.status = w.status /\ (x.wrote <=> w.wrote) /\ x.body = w.body
          /\ (x.panicking <=> w.panicking)
      BY <1>1, <1>2, ErrorAdded
    <2> HIDE DEF x
    <2>2. Viewed(x)
      BY <1>2, <2>1 DEF Viewed
    <2> QED
      BY <1>6, <2>1, <2>2 DEF LeaveOK, x
  <1>7. CASE d = [c EXCEPT !.panicking = TRUE]
    BY <1>7 DEF LeaveOK, Panicked, Fresh, Context
  <1> QED
    BY <1>3, <1>4, <1>5, <1>6, <1>7 DEF Handled, w, z

-----------------------------------------------------------------------------
(* The inductive invariant                                                 *)

\* A redirect is an answer without a log line.
RedirectOK(c) ==
    c.wrote /\ ~c.panicking /\ Len(c.body) <= 1 /\ c.logged = 0 /\ c.errs = <<>>

\* How far a request has come says what it has been through: CORS and the
\* token before the limiter, the limiter before the usecase, and what it brings
\* to the end of the chain.
RequestOK(r) ==
    /\ stage[r] = "new" => pc[r] = "get" /\ r \notin ran
    /\ stage[r] \in {"limit", "handle"} =>
           /\ req[r].origin = "allowed" /\ req[r].token /\ r \notin ran
           /\ Fresh(ctx[r]) /\ ctx[r].status = 200
    /\ stage[r] = "limit" => req[r].route = "auth" /\ pc[r] \in {"get", "clock", "allow"}
    /\ stage[r] = "handle" =>
           \/ req[r].route = "auth" /\ pc[r] = "admitted"
           \/ req[r].route = "api" /\ pc[r] = "get"
    /\ stage[r] = "leave" => LeaveOK(r \in ran, ctx[r]) /\ req[r].route # "slash"
    /\ stage[r] = "done" =>
           IF req[r].route = "slash" THEN RedirectOK(ctx[r]) /\ r \notin ran
           ELSE AnswerOK(r \in ran, ctx[r])
    /\ r \in ran =>
           /\ req[r].route \in {"auth", "api"} /\ req[r].origin = "allowed" /\ req[r].token
           /\ req[r].route = "auth" => pc[r] = "admitted"
    /\ pc[r] = "admitted" => req[r].route = "auth" /\ (r \in ran \/ stage[r] = "handle")

\* The inductive invariant: the types, the limiter's labels and every request.
PipelineInv ==
    /\ WebTypeOK
    /\ pc \in [Requests -> {"get", "clock", "allow", "admitted", "refused"}]
    /\ \A r \in Requests : RequestOK(r)

\* A step of request r.
Moves(r) ==
    \/ \E q \in Req : Arrive(r, q) \/ Redirect(r, q)
    \/ Limit(r)
    \/ Decide(r)
    \/ Handle(r)
    \/ Answer(r)

\* It holds at the start.
LEMMA PipelineInitInv == PipelineInit => PipelineInv
  <1> SUFFICES ASSUME PipelineInit PROVE PipelineInv
    OBVIOUS
  <1>1. NewContext("none") \in Context
    BY Routed
  <1>2. WebTypeOK
    BY <1>1 DEF PipelineInit, WebTypeOK
  <1>3. \A r \in Requests : RequestOK(r)
    BY DEF PipelineInit, Init, RequestOK
  <1> QED
    BY <1>2, <1>3 DEF PipelineInv, PipelineInit, Init

\* A step of one request leaves the others where they are.
LEMMA Others ==
    ASSUME PipelineInv, NEW r \in Requests, Moves(r), NEW q \in Requests, q # r, RequestOK(q)
    PROVE  RequestOK(q)'
  <1>1. stage'[q] = stage[q] /\ req'[q] = req[q] /\ ctx'[q] = ctx[q] /\ pc'[q] = pc[q]
        /\ (q \in ran' <=> q \in ran)
    BY DEF PipelineInv, WebTypeOK, Moves, Arrive, Redirect, Limit, Decide, Handle, Answer, GoOn,
           Get, Clock, Allow, Goto, vars, limiter, web
  <1> QED
    BY <1>1 DEF RequestOK

\* The request itself keeps its invariant, whichever step it takes.
LEMMA ArriveStep ==
    ASSUME PipelineInv, NEW r \in Requests, NEW q \in Req, Arrive(r, q)
    PROVE  ctx'[r] \in Context /\ stage'[r] \in {"limit", "handle", "leave"} /\ RequestOK(r)'
  <1> DEFINE c == CORS(NewContext(q.route), q.origin)
  <1>1. req'[r] = q /\ pc'[r] = "get" /\ r \notin ran' /\ stage[r] = "new"
    BY DEF PipelineInv, WebTypeOK, RequestOK, Arrive, vars
  <1>2. c \in Context /\ IF q.origin = "allowed" THEN c = NewContext(q.route)
                         ELSE c.aborted /\ LeaveOK(FALSE, c)
    BY Crossed
  <1>3. Fresh(NewContext(q.route))
        /\ NewContext(q.route).status = IF q.route = "none" THEN 404 ELSE 200
    BY Routed
  <1>4. q.route \in {"health", "auth", "api", "slash", "none"} /\ q.token \in BOOLEAN
        /\ (q.route # "api" => q.token) /\ q.origin \in {"allowed", "barred", "preflight"}
    BY DEF Req
  <1> DEFINE Went(d, label) == ctx'[r] = d /\ stage'[r] = IF d.aborted THEN "leave" ELSE label
  <1>5. \/ q.route = "none" /\ Went(c, "leave")
        \/ q.route = "health" /\ Went(IF c.aborted THEN c ELSE Health(c), "leave")
        \/ q.route = "auth" /\ Went(c, "limit")
        \/ q.route = "api" /\ Went(IF c.aborted THEN c ELSE JWTAuth(c, q.token), "handle")
    BY DEF PipelineInv, WebTypeOK, Arrive, GoOn
  <1> HIDE DEF c
  <1>6. \A d : LeaveOK(FALSE, d) => LeaveOK(r \in ran', d)
    BY <1>1 DEF LeaveOK
  <1>7. CASE q.origin # "allowed"
    <2>1. c.aborted /\ LeaveOK(FALSE, c)
      BY <1>2, <1>7
    <2>2. ctx'[r] = c /\ stage'[r] = "leave"
      BY <1>5, <2>1
    <2> QED
      BY <1>1, <1>2, <1>5, <1>6, <2>1, <2>2 DEF RequestOK
  <1>8. CASE q.origin = "allowed"
    <2>1. c \in Context /\ Fresh(c) /\ c.status = (IF q.route = "none" THEN 404 ELSE 200)
      BY <1>2, <1>3, <1>8
    <2>2. CASE q.route = "none"
      <3>1. ctx'[r] = c /\ stage'[r] = "leave"
        BY <1>5, <2>2
      <3>2. LeaveOK(FALSE, c)
        BY <2>1, <2>2 DEF LeaveOK, Unrouted, Fresh
      <3> QED
        BY <1>1, <1>6, <2>1, <2>2, <3>1, <3>2 DEF RequestOK
    <2>3. CASE q.route = "health"
      <3>1. ctx'[r] = Health(c) /\ stage'[r] = "leave"
        BY <1>5, <2>1, <2>3 DEF Fresh
      <3>2. Health(c) \in Context /\ Viewed(Health(c)) /\ Health(c).errs = <<>>
        BY <2>1, ViewWritten DEF Health
      <3>3. LeaveOK(FALSE, Health(c))
        BY <3>2 DEF LeaveOK
      <3> QED
        BY <1>1, <1>6, <2>3, <3>1, <3>2, <3>3 DEF RequestOK
    <2>4. CASE q.route = "auth"
      <3>1. ctx'[r] = c /\ stage'[r] = "limit"
        BY <1>5, <2>1, <2>4 DEF Fresh
      <3> QED
        BY <1>1, <1>4, <1>8, <2>1, <2>4, <3>1 DEF RequestOK
    <2>5. CASE q.route = "api" /\ q.token
      <3>1. ctx'[r] = c /\ stage'[r] = "handle"
        BY <1>5, <2>1, <2>5 DEF Fresh, JWTAuth
      <3> QED
        BY <1>1, <1>8, <2>1, <2>5, <3>1 DEF RequestOK
    <2>6. CASE q.route = "api" /\ ~q.token
      <3> DEFINE d == Abort(Error(c, "UNAUTHORIZED"))
      <3>1. d \in Context /\ d.aborted /\ LeaveOK(FALSE, d)
        BY <2>1, Refused DEF Errors
      <3>2. Went(JWTAuth(c, q.token), "handle") /\ JWTAuth(c, q.token) = d
        BY <1>5, <2>1, <2>6 DEF Fresh, JWTAuth
      <3> HIDE DEF d
      <3>3. ctx'[r] = d /\ stage'[r] = "leave"
        BY <3>1, <3>2
      <3> QED
        BY <1>1, <1>6, <2>6, <3>1, <3>3 DEF RequestOK
    <2> QED
      BY <1>4, <1>5, <2>2, <2>3, <2>4, <2>5, <2>6
  <1> QED
    BY <1>7, <1>8

\* A redirect is all there is of its request.
LEMMA RedirectStep ==
    ASSUME PipelineInv, NEW r \in Requests, NEW q \in Req, Redirect(r, q)
    PROVE  ctx'[r] \in Context /\ stage'[r] = "done" /\ RequestOK(r)'
  <1> DEFINE n == NewContext("slash")
             get == Write(n, 301, "plain")
             s == SetStatus(n, 307)
             other == [s EXCEPT !.wrote = TRUE]
  <1>1. n \in Context /\ Fresh(n) /\ n.logged = 0
    BY Routed DEF NewContext
  <1>2. 301 \in Statuses /\ 307 \in Statuses /\ "plain" \in Bodies
    BY DEF Statuses, Bodies
  <1>3. Append(<<>>, "plain") = <<"plain">> /\ Len(<<"plain">>) <= 1 /\ Len(<<>>) <= 1
    OBVIOUS
  <1>4. PICK c \in {get, other} : ctx' = [ctx EXCEPT ![r] = c]
    BY DEF Redirect, Redirects
  <1> HIDE DEF n
  <1>5. get \in Context /\ RedirectOK(get)
    BY <1>1, <1>2, <1>3, Written DEF Fresh, RedirectOK
  <1>6. /\ s \in Context /\ s.body = <<>> /\ s.errs = <<>> /\ s.logged = 0 /\ ~s.panicking
    BY <1>1, <1>2, StatusSet DEF Fresh
  <1> HIDE DEF s
  <1>7. other \in Context /\ RedirectOK(other)
    BY <1>3, <1>6 DEF Context, RedirectOK
  <1> HIDE DEF get, other
  <1>8. /\ stage[r] = "new" /\ stage'[r] = "done" /\ req'[r] = q /\ q.route = "slash"
        /\ pc'[r] = pc[r] /\ ran' = ran /\ ctx'[r] = c /\ RequestOK(r)
    BY <1>4 DEF Redirect, PipelineInv, WebTypeOK, vars
  <1> QED
    BY <1>4, <1>5, <1>7, <1>8 DEF RequestOK

\* A request in the limiter stays what it is until the decision.
LEMMA LimitStep ==
    ASSUME PipelineInv, NEW r \in Requests, Limit(r)
    PROVE  ctx'[r] \in Context /\ stage'[r] = "limit" /\ RequestOK(r)'
  <1>1. stage[r] = "limit" /\ UNCHANGED web /\ ctx[r] \in Context
    BY DEF Limit, PipelineInv, WebTypeOK
  <1>2. pc'[r] \in {"clock", "allow"}
    BY DEF PipelineInv, Limit, Get, Clock, Goto
  <1>3. RequestOK(r)
    BY DEF PipelineInv
  <1> QED
    BY <1>1, <1>2, <1>3 DEF web, RequestOK

\* Admitted it goes on to the handler; refused it leaves with an error.
LEMMA DecideStep ==
    ASSUME PipelineInv, NEW r \in Requests, Decide(r)
    PROVE  ctx'[r] \in Context /\ stage'[r] \in {"handle", "leave"} /\ RequestOK(r)'
  <1>1. /\ stage[r] = "limit" /\ req'[r] = req[r] /\ ran' = ran /\ ctx[r] \in Context
        /\ RequestOK(r)
    BY DEF Decide, PipelineInv, WebTypeOK
  <1>2. pc'[r] \in {"admitted", "refused"}
    BY DEF Decide, PipelineInv, Allow, Goto
  <1>3. /\ req[r].origin = "allowed" /\ req[r].token /\ r \notin ran /\ req[r].route = "auth"
        /\ Fresh(ctx[r]) /\ ctx[r].status = 200
    BY <1>1 DEF RequestOK
  <1>4. CASE pc'[r] = "admitted"
    <2>1. ctx'[r] = ctx[r] /\ stage'[r] = "handle"
      BY <1>3, <1>4 DEF Decide, GoOn, PipelineInv, WebTypeOK, Fresh
    <2> QED
      BY <1>1, <1>3, <1>4, <2>1 DEF RequestOK
  <1>5. CASE pc'[r] = "refused"
    <2> DEFINE d == TooManyRequests(ctx[r])
    <2>1. d \in Context /\ d.aborted /\ LeaveOK(FALSE, d)
      BY <1>1, <1>3, Refused DEF TooManyRequests, Errors
    <2>2. ctx'[r] = d /\ stage'[r] = IF d.aborted THEN "leave" ELSE "handle"
      BY <1>5 DEF Decide, GoOn, PipelineInv, WebTypeOK
    <2> HIDE DEF d
    <2>3. LeaveOK(r \in ran', d)
      BY <1>1, <1>3, <2>1 DEF LeaveOK
    <2> QED
      BY <1>1, <1>3, <1>5, <2>1, <2>2, <2>3 DEF RequestOK
  <1> QED
    BY <1>2, <1>4, <1>5

\* Whatever the handler leaves behind, the chain can answer.
LEMMA HandleStep ==
    ASSUME PipelineInv, NEW r \in Requests, Handle(r)
    PROVE  ctx'[r] \in Context /\ stage'[r] = "leave" /\ RequestOK(r)'
  <1>1. PICK d \in Handled(ctx[r]) : ctx' = [ctx EXCEPT ![r] = d]
    BY DEF Handle
  <1>2. /\ stage[r] = "handle" /\ stage'[r] = "leave" /\ req'[r] = req[r] /\ pc'[r] = pc[r]
        /\ r \in ran' /\ ctx[r] \in Context /\ RequestOK(r) /\ ctx'[r] = d
    BY <1>1 DEF Handle, PipelineInv, WebTypeOK, vars
  <1>3. Fresh(ctx[r]) /\ ctx[r].status = 200
    BY <1>2 DEF RequestOK
  <1>4. d \in Context /\ LeaveOK(TRUE, d)
    BY <1>2, <1>3, HandledOK
  <1> QED
    BY <1>2, <1>4 DEF RequestOK

\* What comes back up the chain is one proper answer.
LEMMA AnswerStep ==
    ASSUME PipelineInv, NEW r \in Requests, Answer(r)
    PROVE  ctx'[r] \in Context /\ stage'[r] = "done" /\ RequestOK(r)'
  <1>1. /\ stage[r] = "leave" /\ stage'[r] = "done" /\ req'[r] = req[r] /\ pc'[r] = pc[r]
        /\ ran' = ran /\ ctx[r] \in Context /\ RequestOK(r)
        /\ ctx'[r] = Leave(ctx[r], req[r].route)
    BY DEF Answer, PipelineInv, WebTypeOK, vars
  <1>2. LeaveOK(r \in ran, ctx[r]) /\ req[r].route # "slash"
    BY <1>1 DEF RequestOK
  <1>3. ctx'[r] \in Context /\ AnswerOK(r \in ran, ctx'[r])
    BY <1>1, <1>2, Answers
  <1> QED
    BY <1>1, <1>2, <1>3 DEF RequestOK

\* Every step of the pipeline keeps the invariant.
LEMMA PipelineStep == PipelineInv /\ [PipelineNext]_pvars => PipelineInv'
  <1> SUFFICES ASSUME PipelineInv, [PipelineNext]_pvars PROVE PipelineInv'
    OBVIOUS
  <1>1. ASSUME NEW r \in Requests, Moves(r) PROVE PipelineInv'
    <2>1. ctx'[r] \in Context /\ stage'[r] \in {"limit", "handle", "leave", "done"} /\ RequestOK(r)'
      BY <1>1, ArriveStep, RedirectStep, LimitStep, DecideStep, HandleStep, AnswerStep DEF Moves
    <2>2. \A q \in Requests : RequestOK(q)'
      BY <1>1, <2>1, Others DEF PipelineInv
    <2>3. /\ pc' \in [Requests -> {"get", "clock", "allow", "admitted", "refused"}]
          /\ ran' \subseteq Requests
          /\ req' \in [Requests -> Req \cup {NULL}]
          /\ stage[r] = "new" \/ req' = req
          /\ stage[r] # "new" \/ req'[r] \in Req
      BY <1>1 DEF PipelineInv, WebTypeOK, Moves, Arrive, Redirect, Limit, Decide, Handle, Answer,
                  Get, Clock, Allow, Goto, vars, web
    <2>4. /\ DOMAIN ctx' = Requests /\ DOMAIN stage' = Requests
          /\ \E d : ctx' = [ctx EXCEPT ![r] = d]
          /\ \E l : stage' = [stage EXCEPT ![r] = l]
      BY <1>1 DEF PipelineInv, WebTypeOK, Moves, Arrive, Redirect, Limit, Decide, Handle, Answer,
                  GoOn, web
    <2>5. /\ ctx' \in [Requests -> Context]
          /\ stage' \in [Requests -> {"new", "limit", "handle", "leave", "done"}]
      BY <2>1, <2>4 DEF PipelineInv, WebTypeOK
    <2>6. \A q \in Requests : stage'[q] # "new" => req'[q] \in Req
      <3>1. \A q \in Requests \ {r} : stage'[q] = stage[q] /\ req'[q] = req[q]
        BY <1>1 DEF PipelineInv, WebTypeOK, Moves, Arrive, Redirect, Limit, Decide, Handle, Answer,
                    GoOn, web
      <3>2. req'[r] \in Req
        BY <2>3 DEF PipelineInv, WebTypeOK
      <3> QED
        BY <3>1, <3>2 DEF PipelineInv, WebTypeOK
    <2> QED
      BY <2>2, <2>3, <2>5, <2>6 DEF PipelineInv, WebTypeOK
  <1>2. CASE (Tick /\ UNCHANGED web) \/ UNCHANGED pvars
    BY <1>2 DEF PipelineInv, WebTypeOK, RequestOK, Tick, web, pvars, vars
  <1> QED
    BY <1>1, <1>2 DEF PipelineNext, Moves, Answered

-----------------------------------------------------------------------------
(* The theorems                                                            *)

\* The pipeline adds nothing to what the limiter may do.
LEMMA LimiterSteps == [PipelineNext]_pvars => [Next]_vars
  BY DEF PipelineNext, Arrive, Redirect, Limit, Decide, Handle, Answer, Answered, Next, pvars

\* The limiter in the pipeline is RateLimit, with requests that may never come
\* to it (router.go, ratelimit.go).
THEOREM LimiterInside == PipelineSpec => Spec
  <1>1. PipelineInit => Init
    BY DEF PipelineInit
  <1> QED
    BY <1>1, LimiterSteps, PTL DEF PipelineSpec, Spec

\* Behind CORS and in front of the handlers of /auth, the limiter grants an
\* address neither more nor less than by itself.
THEOREM LimitsHold == PipelineSpec => []NeverTooMany /\ NeverTooFew
  BY LimiterInside, NotTooMany, NotTooFew

\* The state of every request at every stage of the chain.
THEOREM PipelineInvariance == PipelineSpec => []PipelineInv
  BY PipelineInitInv, PipelineStep, PTL DEF PipelineSpec

\* Contexts keep their shape through the whole chain.
THEOREM PipelineTypeCorrect == PipelineSpec => []PipelineTypeOK
  <1>1. PipelineInv /\ TypeOK => PipelineTypeOK
    BY DEF PipelineInv, PipelineTypeOK
  <1> QED
    BY PipelineInvariance, LimiterInside, TypeCorrect, <1>1, PTL

\* Refused, failed, panicked or cut off: one answer, and the log says which, unless
\* the engine redirected before any middleware.
THEOREM AnsweredOnce == PipelineSpec => []OneAnswer
  <1>1. PipelineInv => OneAnswer
    BY DEF PipelineInv, RequestOK, AnswerOK, RedirectOK, OneAnswer
  <1> QED
    BY PipelineInvariance, <1>1, PTL

\* Errors are answered with the envelope and their status, whatever the handlers
\* attach, and no usecase's request gets an answer nobody made.
THEOREM Enveloped == PipelineSpec => []ErrorsInEnvelope
  <1>1. PipelineInv => ErrorsInEnvelope
    <2> SUFFICES ASSUME PipelineInv, NEW r \in Requests, stage[r] = "done"
                 PROVE  AnswerDue(ctx[r], r \in ran)
      BY DEF ErrorsInEnvelope
    <2>1. CASE req[r].route = "slash"
      BY <2>1 DEF PipelineInv, RequestOK, RedirectOK, AnswerDue
    <2>2. CASE req[r].route # "slash"
      BY <2>2 DEF PipelineInv, RequestOK, AnswerOK
    <2> QED
      BY <2>1, <2>2
  <1> QED
    BY PipelineInvariance, <1>1, PTL

\* No usecase runs for a request that was refused on the way, and no token is
\* spent for one that does not reach its usecase.
THEOREM AdmittedOnly == PipelineSpec => []OnlyAdmittedRun
  <1>1. PipelineInv => OnlyAdmittedRun
    BY DEF PipelineInv, WebTypeOK, RequestOK, OnlyAdmittedRun
  <1> QED
    BY PipelineInvariance, <1>1, PTL

=============================================================================
