--------------------------------- MODULE Web ---------------------------------
(***************************************************************************)
(* The HTTP handlers of web.go: /db/execute/ and /db/query/, which open a  *)
(* database of the application for one request, and /status, which asks    *)
(* the leader for the members of the cluster.                              *)
(*                                                                         *)
(* Each handler is one goroutine per request.  The two /db/ handlers keep  *)
(* the context they open the database with in a variable of the enclosing  *)
(* closure, so all requests of one endpoint share it: a request stores its *)
(* context there and reads back whatever is there when it calls Open.      *)
(*                                                                         *)
(* A request carries some items: the statements of /db/execute/ or the     *)
(* queries of /db/query/.                                                  *)
(***************************************************************************)
EXTENDS Naturals, FiniteSets

CONSTANTS
    Request,    (* the requests the server may receive                      *)
    Boot,       (* the context webHandlers was given when the server started *)
    MaxItem     (* bound: the most items a request carries                  *)

ASSUME WebAssumption == Boot \notin Request /\ MaxItem \in Nat \ {0}

Shared   == {"exec", "query"}       \* the endpoints with a shared context
Endpoint == Shared \cup {"status"}

VARIABLES
    pc,         (* pc[r]: where the handler of request r is                 *)
    path,       (* path[r]: the endpoint r is for                           *)
    items,      (* items[r]: the number of items in the body of r           *)
    ctx,        (* ctx[p]: whose context the closure of endpoint p holds    *)
    openCtx,    (* openCtx[r]: whose context r passed to Open               *)
    gone,       (* requests whose client has hung up                        *)
    coming,     (* requests whose client has yet to send the body           *)
    handles,    (* requests that hold an open sql.DB                        *)
    leaders,    (* requests that hold a client of the leader                *)
    did,        (* did[r]: items applied at least once, or answered         *)
    cut,        (* requests whose answer lacks rows of a query that failed  *)
    reply       (* reply[r]: what the handler wrote                         *)

webVars == <<pc, path, items, ctx, openCtx, gone, coming, handles, leaders, did,
             cut, reply>>

Location == {"idle", "entered", "stored", "opening", "opened", "running",
             "writing", "asking", "sending", "done"}

(* 200, and the rest are: 405 or the "wrong method" text; 400 as Open was   *)
(* cancelled, or failed; 400 on the body; an error of the database (400 on  *)
(* execute, 500 elsewhere); a broken connection; the request's own context; *)
(* a panic, which net/http turns into a broken connection.                  *)
Reply == {"none", "ok", "refused", "unopened", "nodb", "bad", "failed", "lost",
          "cancelled", "panic"}

InFlight == {r \in Request : pc[r] \notin {"idle", "done"}}

(* net/http cancels the context of a request when its handler returns and  *)
(* when its client hangs up, which it does not notice while a body is due. *)
Cancelled(c) == c \in gone \ coming \/ (c \in Request /\ pc[c] = "done")

(* Connections that are not idle: net/http reads what is left of a body    *)
(* even after the handler has returned without it.                         *)
Busy == InFlight \cup (coming \ gone)

(* The handlers bound the time of nothing they do, and the http.Server has *)
(* no timeouts: a handler that reads the body, or whose answer does not    *)
(* fit the buffers of the connection, goes on when its client does.        *)
AwaitsClient(r) ==
    /\ r \notin gone
    /\ \/ r \in coming /\ pc[r] \in {"opened", "done"}
       \/ pc[r] = "writing"

WebInit ==
    /\ pc      = [r \in Request |-> "idle"]
    /\ path    = [r \in Request |-> "status"]
    /\ items   = [r \in Request |-> 0]
    /\ ctx     = [p \in Shared |-> Boot]
    /\ openCtx = [r \in Request |-> Boot]
    /\ gone    = {}
    /\ coming  = {}
    /\ handles = {}
    /\ leaders = {}
    /\ did     = [r \in Request |-> 0]
    /\ cut     = {}
    /\ reply   = [r \in Request |-> "none"]

------------------------------------------------------------------------------
(* The connection: a request arrives; its client sends the body it         *)
(* announced, reads an answer, or hangs up.                                *)

Connect(r, paths) ==
    /\ pc[r] = "idle"
    /\ pc' = [pc EXCEPT ![r] = "entered"]
    /\ \E p \in paths :
        /\ path' = [path EXCEPT ![r] = p]
        /\ \E n \in IF p \in Shared THEN 0..MaxItem ELSE {0} :
               items' = [items EXCEPT ![r] = n]
    /\ coming' \in {coming, coming \cup {r}}
    /\ UNCHANGED <<ctx, openCtx, gone, handles, leaders, did, cut, reply>>

SendBody(r) ==
    /\ r \in coming \ gone
    /\ coming' = coming \ {r}
    /\ UNCHANGED <<pc, path, items, ctx, openCtx, gone, handles, leaders, did,
                   cut, reply>>

TakeAnswer(r) ==
    /\ pc[r] = "writing" /\ r \notin gone
    /\ pc' = [pc EXCEPT ![r] = "running"]
    /\ UNCHANGED <<path, items, ctx, openCtx, gone, coming, handles, leaders,
                   did, cut, reply>>

HangUp(r) ==
    /\ r \in Busy \ gone
    /\ gone' = gone \cup {r}
    /\ UNCHANGED <<pc, path, items, ctx, openCtx, coming, handles, leaders, did,
                   cut, reply>>

ByClient(r) == SendBody(r) \/ TakeAnswer(r) \/ HangUp(r)

------------------------------------------------------------------------------
(* Steps common to the handlers.                                           *)

Goto(r, from, to) ==
    /\ pc[r] = from
    /\ pc' = [pc EXCEPT ![r] = to]

(* Mutation of Return: the deferred db.Close() is missing.                 *)
ReturnNoClose(r, from, answer) ==
    /\ Goto(r, from, "done")
    /\ reply' = [reply EXCEPT ![r] = answer]
    /\ UNCHANGED <<path, items, ctx, openCtx, gone, coming, handles, leaders,
                   did, cut>>

(* The handler returns: its deferred db.Close() runs, its context ends.    *)
Return(r, from, answer) ==
    /\ Goto(r, from, "done")
    /\ reply' = [reply EXCEPT ![r] = answer]
    /\ handles' = handles \ {r}
    /\ UNCHANGED <<path, items, ctx, openCtx, gone, coming, leaders, did, cut>>

(* The method is checked before anything else.                             *)
Refuse(r) ==
    /\ path[r] # "status"
    /\ Return(r, "entered", "refused")

(* Mutation of Store: one variable serves both endpoints.                  *)
StoreForBoth(r) ==
    /\ path[r] \in Shared
    /\ Goto(r, "entered", "stored")
    /\ ctx' = [p \in Shared |-> r]
    /\ UNCHANGED <<path, items, openCtx, gone, coming, handles, leaders, did,
                   cut, reply>>

(* ctx = r.Context(), where ctx belongs to the closure of the endpoint.    *)
Store(r) ==
    /\ path[r] \in Shared
    /\ Goto(r, "entered", "stored")
    /\ ctx' = [ctx EXCEPT ![path[r]] = r]
    /\ UNCHANGED <<path, items, openCtx, gone, coming, handles, leaders, did,
                   cut, reply>>

(* Mutation of CallOpen: the request stores its context again afterwards.  *)
CallOpenStoring(r) ==
    /\ Goto(r, "stored", "opening")
    /\ openCtx' = [openCtx EXCEPT ![r] = ctx[path[r]]]
    /\ ctx' = [ctx EXCEPT ![path[r]] = r]
    /\ UNCHANGED <<path, items, gone, coming, handles, leaders, did, cut, reply>>

(* dq.Open(ctx, dbname) reads ctx again: a peer may have stored its own.   *)
CallOpen(r) ==
    /\ Goto(r, "stored", "opening")
    /\ openCtx' = [openCtx EXCEPT ![r] = ctx[path[r]]]
    /\ UNCHANGED <<path, items, ctx, gone, coming, handles, leaders, did, cut,
                   reply>>

Opened(r) ==
    /\ ~ Cancelled(openCtx[r])
    /\ Goto(r, "opening", "opened")
    /\ handles' = handles \cup {r}
    /\ UNCHANGED <<path, items, ctx, openCtx, gone, coming, leaders, did, cut,
                   reply>>

OpenCancelled(r) ==
    /\ Cancelled(openCtx[r])
    /\ Return(r, "opening", "unopened")

OpenFailed(r) == Return(r, "opening", "nodb")

(* The body does not decode, breaks off, or has no query for /db/query/.   *)
BadBody(r) ==
    /\ r \notin coming \/ r \in gone
    /\ Return(r, "opened", "bad")

(* requestQueries, or the decoder of /db/execute/: it reads the body, for  *)
(* as long as the client takes to send it.                                 *)
ReadBody(r) ==
    /\ r \notin coming
    /\ path[r] = "query" => items[r] > 0
    /\ Goto(r, "opened", "running")
    /\ UNCHANGED <<path, items, ctx, openCtx, gone, coming, handles, leaders,
                   did, cut, reply>>

------------------------------------------------------------------------------
(* /db/execute/: the statements go to the database as one text, which runs *)
(* them in order.  A text whose answer was not awaited may still run.      *)

Running(r, p) == pc[r] = "running" /\ path[r] = p

(* What the database does with the text, in its own time.                  *)
Apply(r) ==
    /\ path[r] = "exec" /\ did[r] < items[r]
    /\ \/ pc[r] = "running"
       \/ pc[r] = "done" /\ reply[r] \in {"lost", "cancelled"}
    /\ did' = [did EXCEPT ![r] = @ + 1]
    /\ UNCHANGED <<pc, path, items, ctx, openCtx, gone, coming, handles,
                   leaders, cut, reply>>

ExecOk(r) ==
    /\ Running(r, "exec") /\ did[r] = items[r]
    /\ Return(r, "running", "ok")

(* The database rejects a statement; the ones before it stay applied.      *)
ExecRejected(r) ==
    /\ Running(r, "exec") /\ did[r] < items[r]
    /\ Return(r, "running", "failed")

ExecLost(r) ==
    /\ Running(r, "exec")
    /\ Return(r, "running", "lost")

(* ctx2 is the request's own context.                                      *)
ExecCancelled(r) ==
    /\ Running(r, "exec") /\ Cancelled(r)
    /\ Return(r, "running", "cancelled")

------------------------------------------------------------------------------
(* /db/query/: the queries run one by one, each answered as it completes.  *)

(* Mutation of QueryAnswer: one query too many.                            *)
QueryAnswerOneMore(r) ==
    /\ path[r] = "query" /\ did[r] <= items[r]
    /\ Goto(r, "running", "writing")
    /\ did' = [did EXCEPT ![r] = @ + 1]
    /\ reply' = [reply EXCEPT ![r] = "ok"]
    /\ cut' \in {cut, cut \cup {r}}
    /\ UNCHANGED <<path, items, ctx, openCtx, gone, coming, handles, leaders>>

(* One query is answered.  rows.Next() also ends when the connection fails *)
(* halfway, and rows.Err() is not consulted: then rows are missing.        *)
QueryAnswer(r) ==
    /\ path[r] = "query" /\ did[r] < items[r]
    /\ Goto(r, "running", "writing")
    /\ did' = [did EXCEPT ![r] = @ + 1]
    /\ reply' = [reply EXCEPT ![r] = "ok"]
    /\ cut' \in {cut, cut \cup {r}}
    /\ UNCHANGED <<path, items, ctx, openCtx, gone, coming, handles, leaders>>

(* The error of Encode is dropped: the handler goes on without its client. *)
WriteFails(r) ==
    /\ r \in gone
    /\ Goto(r, "writing", "running")
    /\ UNCHANGED <<path, items, ctx, openCtx, gone, coming, handles, leaders,
                   did, cut, reply>>

(* Mutation of QueryFailed: the 500 overrides what was already sent.       *)
QueryFailedLate(r) ==
    /\ Running(r, "query") /\ did[r] < items[r]
    /\ Return(r, "running", "failed")

(* Status 500, unless an earlier answer already carried the status 200.    *)
QueryFailed(r) ==
    /\ Running(r, "query") /\ did[r] < items[r]
    /\ Return(r, "running", IF did[r] = 0 THEN "failed" ELSE reply[r])

(* strings.Fields(query)[0] of a blank query.                              *)
QueryPanics(r) ==
    /\ Running(r, "query") /\ did[r] < items[r]
    /\ Return(r, "running", "panic")

(* Mutation of QueryDone: the loop runs once too often.                    *)
QueryDoneLate(r) ==
    /\ Running(r, "query") /\ did[r] > items[r]
    /\ Return(r, "running", reply[r])

QueryDone(r) ==
    /\ Running(r, "query") /\ did[r] = items[r]
    /\ Return(r, "running", reply[r])

------------------------------------------------------------------------------
(* /status: the client of the leader is never closed.                      *)

AskLeader(r) ==
    /\ path[r] = "status"
    /\ Goto(r, "entered", "asking")
    /\ leaders' = leaders \cup {r}
    /\ UNCHANGED <<path, items, ctx, openCtx, gone, coming, handles, did, cut,
                   reply>>

NoLeader(r) ==
    /\ path[r] = "status"
    /\ Return(r, "entered", "failed")

ListNodes(r) == \E answer \in {"ok", "failed"} : Return(r, "asking", answer)

------------------------------------------------------------------------------
Open(r)  == Refuse(r) \/ Store(r) \/ CallOpen(r) \/ Opened(r)
            \/ OpenCancelled(r) \/ OpenFailed(r) \/ BadBody(r) \/ ReadBody(r)
Exec(r)  == ExecOk(r) \/ ExecRejected(r) \/ ExecLost(r) \/ ExecCancelled(r)
Query(r) == QueryAnswer(r) \/ WriteFails(r) \/ QueryFailed(r) \/ QueryPanics(r)
            \/ QueryDone(r)
Status(r) == AskLeader(r) \/ NoLeader(r) \/ ListNodes(r)

Handler(r) == Open(r) \/ Apply(r) \/ Exec(r) \/ Query(r) \/ Status(r)

WebNext == \E r \in Request :
    \/ Connect(r, Endpoint)
    \/ ByClient(r)
    \/ Handler(r)

WebSpec == WebInit /\ [][WebNext]_webVars

------------------------------------------------------------------------------
WebTypeOK ==
    /\ pc \in [Request -> Location]
    /\ path \in [Request -> Endpoint \cup {"shutdown"}]
    /\ items \in [Request -> 0..MaxItem]
    /\ ctx \in [Shared -> Request \cup {Boot}]
    /\ openCtx \in [Request -> Request \cup {Boot}]
    /\ did \in [Request -> 0..MaxItem]
    /\ reply \in [Request -> Reply]
    /\ gone \subseteq Request /\ coming \subseteq Request
    /\ handles \subseteq Request
    /\ leaders \subseteq Request /\ cut \subseteq Request

(* Although the context is shared and overwritten, a database is never     *)
(* opened under the server's own context, nor under that of a request for  *)
(* the other endpoint: what Open gets is the context of a request for the  *)
(* same endpoint that had stored it (web.go, ctx in both closures).        *)
OpensUnderPeer ==
    \A r \in Request : pc[r] \in {"opening", "opened", "running", "writing"} =>
        /\ openCtx[r] \in Request
        /\ path[openCtx[r]] = path[r]
        /\ pc[openCtx[r]] \notin {"idle", "entered"}

(* Whose contexts the requests open their databases with: a request that   *)
(* picked up the context of a peer fails with it, but never the two with   *)
(* each other.  In any group of requests that have called Open there is    *)
(* one that depends on none of the others, the last to store its context   *)
(* (web.go, ctx = r.Context() and dq.Open(ctx, dbname)).                   *)
HasCalledOpen == {r \in Request : openCtx[r] # Boot}

NoCircleOfContexts == \A group \in SUBSET HasCalledOpen : group # {} =>
    \E r \in group : openCtx[r] = r \/ openCtx[r] \notin group

(* What the reply says of the statements and queries: 200 on execute means *)
(* that all ran, a refusal that none did, and status 500 on query that no  *)
(* result was sent.                                                        *)
ReplyTellsEffect ==
    \A r \in Request :
        /\ reply[r] = "ok" /\ path[r] = "exec" => did[r] = items[r]
        /\ reply[r] \in {"refused", "unopened", "nodb", "bad"} => did[r] = 0
        /\ reply[r] = "failed" /\ path[r] = "query" => did[r] = 0

(* Each open database belongs to a handler that has yet to return, on      *)
(* every path out of the handlers.                                         *)
HandlesInFlight == \A r \in Request :
    r \in handles <=> pc[r] \in {"opened", "running", "writing"}

(* "QueryRows returns the rows of a query" (db.go:817): an answered query  *)
(* has all its rows.                                                       *)
RowsComplete == \A r \in Request : reply[r] = "ok" => r \notin cut
==============================================================================
