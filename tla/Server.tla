------------------------------- MODULE Server --------------------------------
(***************************************************************************)
(* StartServer of cluster.go: the goroutine that starts the application    *)
(* and the HTTP server, waits for one signal and stops them again, and the *)
(* /shutdown handler, composed with the handlers of module Web.            *)
(*                                                                         *)
(* The main goroutine and the /shutdown handlers meet on the channel ch,   *)
(* which has no buffer: a handler blocks until main receives, and main     *)
(* receives once.                                                          *)
(***************************************************************************)
EXTENDS Web

VARIABLES
    main,       (* where StartServer is                                     *)
    app         (* the dqlite application: "none", "open" or "closed"       *)

serverVars == <<main, app>>
vars == <<webVars, serverVars>>

MainState == {"starting", "started", "serving", "waiting", "stopping",
              "draining", "closing", "returned", "failed", "killed"}

(* The listener accepts from serving on; once it is closed, a connection   *)
(* accepted before may still send its first request until Shutdown is done.*)
Accepting == main \in {"serving", "waiting", "stopping", "draining"}

Alive == main \notin {"returned", "failed", "killed"}

Init ==
    /\ WebInit
    /\ main = "starting"
    /\ app = "none"

MainStep(from, to) ==
    /\ main = from
    /\ main' = to
    /\ UNCHANGED webVars

------------------------------------------------------------------------------
(* The main goroutine.                                                     *)

(* The directory, the certificates or the application are not available.   *)
StartFails == MainStep("starting", "failed") /\ UNCHANGED app

StartApp == MainStep("starting", "started") /\ app' = "open"

(* net.Listen fails: StartServer returns without closing the application.  *)
ListenFails == MainStep("started", "failed") /\ UNCHANGED app

(* net.Listen, and go s.Serve(listener).                                   *)
Serve == MainStep("started", "serving") /\ UNCHANGED app

(* The four calls of signal.Notify.  A signal before them kills the        *)
(* process; one that comes when main does not receive is dropped.          *)
Notify == MainStep("serving", "waiting") /\ UNCHANGED app

Signal == MainStep("waiting", "stopping") /\ UNCHANGED app

CloseListener == MainStep("stopping", "draining") /\ UNCHANGED app

(* Mutation of Drained: Shutdown does not wait.                            *)
DrainedAnyway == MainStep("draining", "closing") /\ UNCHANGED app

(* s.Shutdown(context.Background()) waits for every connection to be idle, *)
(* that is for every handler to return, without a deadline of its own.     *)
Drained ==
    /\ Busy = {}
    /\ MainStep("draining", "closing") /\ UNCHANGED app

(* Mutation of CloseApp: it waits for the clients of the leader to close.  *)
CloseAppWaits ==
    /\ leaders = {}
    /\ MainStep("closing", "returned") /\ app' = "closed"

CloseApp == MainStep("closing", "returned") /\ app' = "closed"

(* The process dies of a signal that is not handled (SIGKILL, the SIGHUP   *)
(* of scripts/start.sh, any signal before Notify).                         *)
Kill ==
    /\ Alive
    /\ main' = "killed"
    /\ UNCHANGED <<webVars, app>>

------------------------------------------------------------------------------
(* The /shutdown handler.                                                  *)

(* DELETE: the text is written, then the handler sends on ch.              *)
AnnounceShutdown(r) ==
    /\ path[r] = "shutdown"
    /\ Goto(r, "entered", "sending")
    /\ reply' = [reply EXCEPT ![r] = "ok"]
    /\ UNCHANGED <<path, items, ctx, openCtx, gone, coming, handles, leaders,
                   did, cut, serverVars>>

(* Mutation of HandOver: the handler does not wait for main to receive.    *)
HandOverUnawaited(r) ==
    /\ Return(r, "sending", "ok")
    /\ main' = IF main = "waiting" THEN "stopping" ELSE main
    /\ UNCHANGED app

(* ch <- unix.SIGQUIT meets sig := <-ch.                                   *)
HandOver(r) ==
    /\ main = "waiting"
    /\ Return(r, "sending", "ok")
    /\ main' = "stopping"
    /\ UNCHANGED app

------------------------------------------------------------------------------
Main == \/ StartFails \/ StartApp \/ ListenFails \/ Serve \/ Notify
        \/ CloseListener \/ Drained \/ CloseApp

Goroutine(r) ==
    /\ Alive
    /\ \/ Handler(r) /\ UNCHANGED serverVars
       \/ AnnounceShutdown(r)
       \/ HandOver(r)

Next ==
    \/ Main \/ Signal \/ Kill
    \/ \E r \in Request :
        \/ Goroutine(r)
        \/ Accepting /\ Connect(r, Endpoint \cup {"shutdown"}) /\ UNCHANGED serverVars
        \/ Alive /\ ByClient(r) /\ UNCHANGED serverVars

(* The goroutines run and the calls they make on the database and the      *)
(* cluster return; nobody has to send a signal or a request, and who has   *)
(* sent one need not send its body, read the answer or hang up.            *)
Fairness == WF_vars(Main) /\ \A r \in Request : WF_vars(Goroutine(r))

Spec == Init /\ [][Next]_vars /\ Fairness

------------------------------------------------------------------------------
TypeOK ==
    /\ WebTypeOK
    /\ main \in MainState
    /\ app \in {"none", "open", "closed"}

(* The application is open while any handler is at work: every database    *)
(* and every client of the leader a handler uses belongs to it.            *)
AppOutlivesHandlers == InFlight # {} => app = "open"

(* A graceful stop leaves nothing half done: when StartServer returns after *)
(* a shutdown, the application is closed and each request it accepted has  *)
(* been finished.                                                          *)
CleanReturn == main = "returned" =>
    app = "closed" /\ InFlight = {} /\ handles = {}

(* The shutdown requests that have been answered.                          *)
Answered ==
    {r \in Request : path[r] = "shutdown" /\ pc[r] = "done" /\ reply[r] = "ok"}

(* However many clients ask, one shutdown request at most is answered; the *)
(* server is then on its way down and accepts no second one.               *)
OneShutdownAnswered ==
    /\ Cardinality(Answered) <= 1
    /\ Answered # {} => main \notin {"starting", "started", "serving", "waiting"}

(* Once main is on its way down it gets there, unless a /shutdown handler  *)
(* is left blocked on ch or a client keeps its connection busy, by sending *)
(* no body or reading no answer: nothing else holds the drain up for ever. *)
StopEnds ==
    main = "stopping" ~>
        ~ Alive \/ \E r \in Request : pc[r] = "sending" \/ AwaitsClient(r)

(* A handler of the databases or of /status finishes whatever main, the    *)
(* /shutdown handlers and the other clients do, as long as the process     *)
(* lives and its own client keeps pace: it waits for nobody else.          *)
HandlersEnd == \A r \in Request :
    r \in InFlight /\ path[r] # "shutdown"
        ~> ~ Alive \/ pc[r] = "done" \/ AwaitsClient(r)

(* "shutting down" (cluster.go:353): a server that has said so stops.      *)
ShutdownStops == \A r \in Request : pc[r] = "sending" ~> ~ Alive
==============================================================================
