------------------------------ MODULE Request ------------------------------
(***************************************************************************)
(* An HTTP request on its way through the handlers of http/, run by gin,   *)
(* with the queries of mysql/sql.go that its handler makes.                *)
(*                                                                         *)
(* gin keeps the handlers of a request in a slice and an index into it.    *)
(* A handler that calls c.Next() runs the ones behind it in a loop and     *)
(* stays on the goroutine's stack meanwhile; c.Abort() moves the index to  *)
(* abortIndex, so that every such loop ends.  A panic unwinds the stack,   *)
(* running only what was deferred, up to Recovery.                         *)
(***************************************************************************)
EXTENDS Integers, Sequences, FiniteSets

CONSTANTS
  Requests,
  Used,      \* the middleware that is added with Use, in order
  Grouped,   \* that of the group some of the routes are in
  MaxConns,  \* connections of the pool (SetMaxOpenConns)
  MaxOps     \* bound: queries of one request

abortIndex == 63   \* gin

(* Where a request goes: a route of the group, a route of the server, or   *)
(* none.  The middleware of a group runs for the routes of the group only. *)
Routes == {"grouped", "plain", "noRoute"}

Middleware(route) == IF route = "grouped" THEN Used \o Grouped ELSE Used

ASSUME ChainAssumption ==
  \A route \in Routes : LET m == Middleware(route) IN
    /\ m \in Seq({"Metrics", "Jwt", "Ratelimit"})
    /\ \A i, j \in 1..Len(m) : m[i] = m[j] => i = j
    /\ Len(m) \in 0..3

(* DefaultServer, then the middleware of the application.                  *)
Chain(route) == <<"Logger", "Recovery", "Trace">> \o Middleware(route)

ASSUME LimitsAssumption == MaxConns \in Nat \ {0} /\ MaxOps \in Nat

VARIABLES
  setup,    \* what start-up chose: trace.Init was called; FlowRule.Enabled
  rq,       \* per request, its gin.Context and its goroutine
  entries,  \* requests with a sentinel entry that has not exited
  spans,    \* requests whose Trace span is not finished
  opSpans,  \* requests whose query's span is not finished
  conns     \* requests that hold a connection of the database

held == <<entries, spans, opSpans, conns>>
vars == <<setup, rq, held>>

Statuses == {200, 404, 429, 500}

Context == [pc : {"new", "loop", "body", "wait", "conn", "unwind", "done"},
            index : Nat,
            stack : Seq({"Logger", "Recovery", "Trace", "Metrics", "Jwt", "Ratelimit",
                         "handler"}),
            status : Statuses,                             \* c.Writer.Status()
            claims : BOOLEAN,                              \* "jwtClaims" is set
            route : Routes,
            path : {"/metrics", "other"},                  \* metrics.DefaultPath
            ops : 0..MaxOps,
            panic : {"none", "other", "broken pipe"},       \* history
            counted : Seq(Statuses),                       \* ReqCnt
            logged : Seq(Statuses)]                        \* the access log

TypeOK ==
  /\ setup \in [tracing : BOOLEAN, limited : BOOLEAN]
  /\ rq \in [Requests -> Context]
  /\ entries \in SUBSET Requests /\ spans \in SUBSET Requests
  /\ opSpans \in SUBSET Requests /\ conns \in SUBSET Requests

Init ==
  /\ setup \in [tracing : BOOLEAN, limited : BOOLEAN]
  /\ rq = [q \in Requests |->
             [pc |-> "new", index |-> 0, stack |-> <<>>, status |-> 200,
              claims |-> FALSE, route |-> "noRoute", path |-> "other", ops |-> 0,
              panic |-> "none", counted |-> <<>>, logged |-> <<>>]]
  /\ entries = {} /\ spans = {} /\ opSpans = {} /\ conns = {}

-----------------------------------------------------------------------------
(* gin.                                                                    *)

HandlersOf(route) ==
  Append(Chain(route), IF route = "noRoute" THEN "noRoute" ELSE "handler")

Handlers(q) == HandlersOf(rq[q].route)

(* The loop of some Next calls handler h.                                  *)
Turn(q, h) ==
  /\ rq[q].pc = "loop"
  /\ rq[q].index < Len(Handlers(q))
  /\ Handlers(q)[rq[q].index + 1] = h

(* h calls c.Next(); the handler on top returns to the loop that called it; *)
(* c.Abort(); a panic.                                                     *)
NextOf(r, h) == [r EXCEPT !.stack = Append(@, h), !.index = @ + 1]
Return(r)    == [r EXCEPT !.pc = "loop", !.index = @ + 1]
Pop(r)       == [r EXCEPT !.stack = SubSeq(@, 1, Len(@) - 1)]
Aborted(r)   == [r EXCEPT !.index = abortIndex]
Panic(r, e)  == [r EXCEPT !.pc = "unwind", !.panic = e]

Becomes(q, r) == rq' = [rq EXCEPT ![q] = r] /\ UNCHANGED setup

Top(q) == rq[q].stack[Len(rq[q].stack)]

(* ServeHTTP: the route is looked up and the first Next is called.  With   *)
(* no route for it, a request has status 404 from the start.  (One that    *)
(* gin redirects by itself runs no handlers and is not modelled.)          *)
Arrive(q) ==
  /\ rq[q].pc = "new"
  /\ \E route \in Routes, path \in {"/metrics", "other"} :
       Becomes(q, [rq[q] EXCEPT !.pc = "loop", !.route = route, !.path = path,
                     !.status = IF route = "noRoute" THEN 404 ELSE 200])
  /\ UNCHANGED held

Ends(q) ==
  /\ rq[q].pc = "loop"
  /\ rq[q].index >= Len(Handlers(q))
  /\ rq[q].stack = <<>>
  /\ Becomes(q, [rq[q] EXCEPT !.pc = "done"])
  /\ UNCHANGED held

-----------------------------------------------------------------------------
(* The handlers, up to their Next.                                         *)

(* Logger, Recovery, Metrics.                                              *)
PassOn(q) ==
  /\ \E h \in {"Logger", "Recovery", "Metrics"} :
       Turn(q, h) /\ Becomes(q, NextOf(rq[q], h))
  /\ UNCHANGED held

Trace(q) ==
  /\ Turn(q, "Trace")
  /\ Becomes(q, NextOf(rq[q], "Trace"))
  /\ spans' = IF setup.tracing THEN spans \cup {q} ELSE spans
  /\ UNCHANGED <<entries, opSpans, conns>>

(* ParseToken: of a valid token the claims are set, and the loop goes on:  *)
(* Jwt returns without calling Next.                                       *)
JwtAccepts(q) ==
  /\ Turn(q, "Jwt")
  /\ Becomes(q, Return([rq[q] EXCEPT !.claims = TRUE]))
  /\ UNCHANGED held

(* Mutant of JwtRefuses: a branch answers, but does not abort.             *)
JwtAnswers(q) ==
  /\ Turn(q, "Jwt")
  /\ LET r == [rq[q] EXCEPT !.status = 200] IN
     Becomes(q, Return(r)) \/ Becomes(q, Return(Aborted(r)))
  /\ UNCHANGED held

(* The answer is written and the chain aborted.  A write that fails is a   *)
(* panic of gin's: of a client that is gone, or another (a timeout).       *)
Answer(q, status) ==
  LET r == [rq[q] EXCEPT !.status = status] IN
  \/ Becomes(q, Return(Aborted(r)))
  \/ \E e \in {"other", "broken pipe"} : Becomes(q, Panic(r, e))

(* Without a token, or with one that is expired or invalid: c.JSON, Abort. *)
JwtRefuses(q) ==
  /\ Turn(q, "Jwt")
  /\ Answer(q, 200)
  /\ UNCHANGED held

Admit(q) ==
  /\ Turn(q, "Ratelimit")
  /\ Becomes(q, NextOf(rq[q], "Ratelimit"))
  /\ entries' = IF setup.limited THEN entries \cup {q} ELSE entries
  /\ UNCHANGED <<spans, opSpans, conns>>

(* Mutant of TooMany: another status.                                      *)
TooManyBusy(q) ==
  /\ Turn(q, "Ratelimit")
  /\ setup.limited
  /\ Becomes(q, Return(Aborted([rq[q] EXCEPT !.status = 503])))
  /\ UNCHANGED held

(* sentinel.Entry returns an error: AbortWithStatus.                       *)
TooMany(q) ==
  /\ Turn(q, "Ratelimit")
  /\ setup.limited
  /\ Becomes(q, Return(Aborted([rq[q] EXCEPT !.status = 429])))
  /\ UNCHANGED held

NoRoute(q) ==
  /\ Turn(q, "noRoute")
  /\ Answer(q, 404)
  /\ UNCHANGED held

-----------------------------------------------------------------------------
(* The handler of the application, which may query the database.           *)

Work(q) ==
  /\ Turn(q, "handler")
  /\ Becomes(q, [rq[q] EXCEPT !.pc = "body", !.stack = Append(@, "handler")])
  /\ UNCHANGED held

(* It answers, well or with an error, and returns.                         *)
Reply(q) ==
  /\ rq[q].pc = "body"
  /\ \E s \in {200, 500} : Becomes(q, Return(Pop([rq[q] EXCEPT !.status = s])))
  /\ UNCHANGED held

HandlerPanics(q) ==
  /\ rq[q].pc = "body"
  /\ \E e \in {"other", "broken pipe"} : Becomes(q, Panic(rq[q], e))
  /\ UNCHANGED held

(* A query begins.  GetDB returns nil when there is no pool, and the       *)
(* method called on it panics; so does trace.GetTraceCtx when the DB has a *)
(* gin.Context and trace.Init was never called.  The builder may refuse    *)
(* the query; otherwise it needs a connection.                             *)
StartOp(q) ==
  /\ rq[q].pc = "body"
  /\ rq[q].ops < MaxOps
  /\ LET r == [rq[q] EXCEPT !.ops = @ + 1] IN
     \/ (Becomes(q, r) \/ Becomes(q, Panic(r, "other"))) /\ UNCHANGED held
     \/ /\ Becomes(q, [r EXCEPT !.pc = "wait"])
        /\ \/ UNCHANGED opSpans
           \/ setup.tracing /\ opSpans' = opSpans \cup {q}
        /\ UNCHANGED <<entries, spans, conns>>

(* db.Query and db.Exec wait for a connection.                             *)
TakeConn(q) ==
  /\ rq[q].pc = "wait"
  /\ Cardinality(conns) < MaxConns
  /\ Becomes(q, [rq[q] EXCEPT !.pc = "conn"])
  /\ conns' = conns \cup {q}
  /\ UNCHANGED <<entries, spans, opSpans>>

(* The deferred rows.Close and span.Finish.                                *)
OpReturns(q) ==
  /\ conns' = conns \ {q}
  /\ opSpans' = opSpans \ {q}
  /\ UNCHANGED <<entries, spans>>

(* Mutant of FinishOp: a scan that panics is caught and the query tried    *)
(* again, with its rows still open.                                        *)
FinishAgain(q) ==
  /\ rq[q].pc = "conn"
  /\ \/ Becomes(q, [rq[q] EXCEPT !.pc = "body"]) /\ OpReturns(q)
     \/ Becomes(q, [rq[q] EXCEPT !.pc = "wait"]) /\ UNCHANGED held

(* The statement was sent and its rows scanned, well or not; scanning into *)
(* the handler's result may panic.                                         *)
FinishOp(q) ==
  /\ rq[q].pc = "conn"
  /\ Becomes(q, [rq[q] EXCEPT !.pc = "body"]) \/ Becomes(q, Panic(rq[q], "other"))
  /\ OpReturns(q)

-----------------------------------------------------------------------------
(* The handlers after their Next, and while a panic unwinds them.          *)

(* What Ratelimit and Trace deferred.                                      *)
Deferred(q, h) ==
  /\ entries' = IF h = "Ratelimit" THEN entries \ {q} ELSE entries
  /\ spans' = IF h = "Trace" THEN spans \ {q} ELSE spans
  /\ UNCHANGED <<opSpans, conns>>

(* The loop in the Next of the top handler is over.                        *)
Back(q) ==
  /\ rq[q].pc = "loop"
  /\ rq[q].index >= Len(Handlers(q))
  /\ rq[q].stack # <<>>

(* Metrics counts, but for the path that the counts are read under.        *)
Counts(q) == Top(q) = "Metrics" /\ rq[q].path # "/metrics"

(* The top handler does the rest.                                          *)
Leave(q) ==
  /\ Back(q)
  /\ LET r == rq[q] IN
     Becomes(q, Return(Pop(
       [r EXCEPT !.logged  = IF Top(q) = "Logger" THEN Append(@, r.status) ELSE @,
                 !.counted = IF Counts(q) THEN Append(@, r.status) ELSE @])))
  /\ Deferred(q, Top(q))

(* The labels of a count panic before metrics.Init, and with a path that   *)
(* no label may have.                                                      *)
CountPanics(q) ==
  /\ Back(q)
  /\ Counts(q)
  /\ Becomes(q, Panic(rq[q], "other"))
  /\ UNCHANGED held

(* Mutants of Unwind: Exit and Finish are not deferred; Metrics defers its *)
(* counting.                                                               *)
UnwindPlain(q) ==
  /\ rq[q].pc = "unwind"
  /\ Top(q) # "Recovery"
  /\ Becomes(q, Pop(rq[q]))
  /\ UNCHANGED held

UnwindCounting(q) ==
  /\ rq[q].pc = "unwind"
  /\ Top(q) # "Recovery"
  /\ Becomes(q, Pop([rq[q] EXCEPT !.counted =
                       IF Counts(q) THEN Append(@, rq[q].status) ELSE @]))
  /\ Deferred(q, Top(q))

(* A panic passes a handler: only what it deferred is run.                 *)
Unwind(q) ==
  /\ rq[q].pc = "unwind"
  /\ Top(q) # "Recovery"
  /\ Becomes(q, Pop(rq[q]))
  /\ Deferred(q, Top(q))

(* Mutant of Recover: the panic of a client that is gone is not answered   *)
(* and not recovered from.                                                 *)
RecoverBugs(q) ==
  /\ rq[q].pc = "unwind"
  /\ Top(q) = "Recovery"
  /\ IF rq[q].panic = "broken pipe"
       THEN Becomes(q, [rq[q] EXCEPT !.pc = "done", !.stack = <<>>])
       ELSE Becomes(q, Return(Pop(Aborted([rq[q] EXCEPT !.status = 500]))))
  /\ UNCHANGED held

(* Recovery stops it, and returns to the loop of Logger.                   *)
Recover(q) ==
  /\ rq[q].pc = "unwind"
  /\ Top(q) = "Recovery"
  /\ LET r == IF rq[q].panic = "broken pipe" THEN rq[q] ELSE [rq[q] EXCEPT !.status = 500]
     IN  Becomes(q, Return(Pop(Aborted(r))))
  /\ UNCHANGED held

-----------------------------------------------------------------------------
Serve(q) ==
  \/ PassOn(q) \/ Trace(q) \/ JwtAccepts(q) \/ JwtRefuses(q) \/ Admit(q)
  \/ TooMany(q) \/ NoRoute(q) \/ Work(q) \/ Reply(q) \/ HandlerPanics(q)
  \/ StartOp(q) \/ TakeConn(q) \/ FinishOp(q)
  \/ Leave(q) \/ CountPanics(q) \/ Unwind(q) \/ Recover(q) \/ Ends(q)

Next == \E q \in Requests : Arrive(q) \/ Serve(q)

Spec == Init /\ [][Next]_vars

(* The goroutine of a request runs, its handler returns, and the database  *)
(* answers.  No request is owed.                                           *)
FairSpec == Spec /\ \A q \in Requests : WF_vars(Serve(q))

-----------------------------------------------------------------------------
(* Properties. *)

OnStack(q, h) == \E i \in 1..Len(rq[q].stack) : rq[q].stack[i] = h

(* Nothing outlives its user, whichever way a request goes - refused,      *)
(* failed, panicking in any place: an entry or a span is of a request that *)
(* is still inside Ratelimit or Trace, a connection of one inside a query. *)
(* A lost entry would count against the concurrency limit for ever, a lost *)
(* connection against MaxOpenConns.                                        *)
NothingLeaked ==
  /\ \A q \in entries : OnStack(q, "Ratelimit")
  /\ \A q \in spans : OnStack(q, "Trace")
  /\ \A q \in opSpans : rq[q].pc \in {"wait", "conn"}
  /\ \A q \in conns : rq[q].pc = "conn"

(* The handler runs only for requests that every middleware of its route   *)
(* let pass, and under the span and the entry they opened: gin's loops     *)
(* resume at whatever index an aborted handler left.                       *)
OnlyAdmitted ==
  \A q \in Requests : OnStack(q, "handler") =>
    \A i \in 1..Len(Handlers(q)) : LET h == Handlers(q)[i] IN
      /\ h = "Trace" /\ setup.tracing => q \in spans
      /\ h = "Jwt" => rq[q].claims
      /\ h = "Ratelimit" /\ setup.limited => q \in entries

(* Every request leaves one line in the access log, with its last status,  *)
(* which is 500 after a panic that was not a broken pipe's.                *)
LoggedOnce ==
  \A q \in Requests : rq[q].pc = "done" =>
    /\ rq[q].logged = <<rq[q].status>>
    /\ rq[q].panic = "other" => rq[q].status = 500

(* Metrics and the access log agree: a request is counted once at most,    *)
(* with the status that is logged, and not when it panicked or had the     *)
(* path /metrics.  All others are counted when Metrics comes before the    *)
(* rest of the application's middleware; behind Jwt or Ratelimit it does   *)
(* not see what they refuse.                                               *)
CountedAsLogged ==
  \A q \in Requests : rq[q].pc = "done" =>
    /\ rq[q].counted \in {<<>>, rq[q].logged}
    /\ rq[q].panic # "none" \/ rq[q].path = "/metrics" => rq[q].counted = <<>>
    /\ Handlers(q)[4] = "Metrics" /\ rq[q].panic = "none" /\ rq[q].path = "other"
         => rq[q].counted # <<>>

(* Every request is answered in the end, also when there are fewer         *)
(* connections than requests.                                              *)
EveryRequestAnswered ==
  \A q \in Requests : (rq[q].pc # "new") ~> (rq[q].pc = "done")
=============================================================================
