----------------------------- MODULE ServerProofs ----------------------------
(***************************************************************************)
(* Proofs about the handlers of Web, for any set of requests and any       *)
(* number of items, and about Server, which composes them with the main    *)
(* goroutine and the /shutdown handler.                                    *)
(*                                                                         *)
(* OpensUnderPeer is not inductive as it stands: that Open never gets the  *)
(* context of the server follows from what the closures hold whenever some *)
(* request is about to read them, which ContextStored adds.                *)
(***************************************************************************)
EXTENDS Server, FiniteSetTheorems, TLAPS

(* A context in a closure belongs to a request of that endpoint which has  *)
(* stored it; none is read before one is stored.                           *)
ContextStored ==
    /\ \A p \in Shared : ctx[p] # Boot =>
        path[ctx[p]] = p /\ pc[ctx[p]] \notin {"idle", "entered"}
    /\ \A r \in Request : pc[r] = "stored" => ctx[path[r]] # Boot

(* The endpoint of a request decides where its handler can be.             *)
PathPlace == \A r \in Request :
    /\ pc[r] \in {"stored", "opening", "opened", "running"} => path[r] \in Shared
    /\ pc[r] = "writing" => path[r] = "query"
    /\ pc[r] = "asking" => path[r] = "status"
    /\ pc[r] = "sending" => path[r] = "shutdown"

WebInv ==
    /\ WebTypeOK
    /\ ContextStored
    /\ PathPlace
    /\ OpensUnderPeer
    /\ HandlesInFlight

LEMMA WebInitInv == ASSUME WebInit PROVE WebInv
  BY WebAssumption
     DEF WebInit, WebInv, WebTypeOK, ContextStored, PathPlace, OpensUnderPeer,
         HandlesInFlight, Location, Reply, Endpoint, Shared

(* The steps that only move a request on, its handle and context untouched. *)
LEMMA ConnectInv ==
    ASSUME NEW r \in Request, WebInv,
           Connect(r, Endpoint \cup {"shutdown"}) \/ Connect(r, Endpoint)
    PROVE  WebInv'
  <1> USE DEF WebInv, Connect
  <1>1. WebTypeOK'
    <2>1. PICK p \in Endpoint \cup {"shutdown"}, n \in 0..MaxItem :
              /\ path' = [path EXCEPT ![r] = p]
              /\ items' = [items EXCEPT ![r] = n]
      BY WebAssumption
    <2>2. QED
      BY <2>1 DEF WebTypeOK, Location
  <1>2. ContextStored'
    BY DEF WebTypeOK, ContextStored
  <1>3. PathPlace' /\ OpensUnderPeer' /\ HandlesInFlight'
    BY DEF WebTypeOK, PathPlace, OpensUnderPeer, HandlesInFlight
  <1>4. QED
    BY <1>1, <1>2, <1>3

LEMMA ByClientInv ==
    ASSUME NEW r \in Request, WebInv, ByClient(r)
    PROVE  WebInv' /\ InFlight' = InFlight
  <1> USE DEF WebInv
  <1>1. CASE SendBody(r) \/ HangUp(r)
    BY <1>1 DEF SendBody, HangUp, WebTypeOK, ContextStored, PathPlace,
                OpensUnderPeer, HandlesInFlight, InFlight
  <1>2. CASE TakeAnswer(r)
    BY <1>2 DEF TakeAnswer, WebTypeOK, Location, ContextStored, PathPlace,
                OpensUnderPeer, HandlesInFlight, InFlight, Shared
  <1>3. QED
    BY <1>1, <1>2 DEF ByClient

(* A handler that returns, from wherever it is, gives up its handle.       *)
LEMMA ReturnInv ==
    ASSUME NEW r \in Request, NEW from, NEW answer \in Reply, WebInv,
           Return(r, from, answer)
    PROVE  WebInv'
  <1> USE DEF WebInv, Return, Goto
  <1>1. WebTypeOK'
    BY DEF WebTypeOK, Location
  <1>2. ContextStored'
    BY DEF WebTypeOK, ContextStored
  <1>3. PathPlace' /\ OpensUnderPeer'
    BY DEF WebTypeOK, PathPlace, OpensUnderPeer
  <1>4. HandlesInFlight'
    BY DEF WebTypeOK, HandlesInFlight
  <1>5. QED
    BY <1>1, <1>2, <1>3, <1>4

LEMMA StoreInv ==
    ASSUME NEW r \in Request, WebInv, Store(r)
    PROVE  WebInv'
  <1> USE DEF WebInv, Store, Goto
  <1>1. WebTypeOK'
    BY DEF WebTypeOK, Location, Shared
  <1>2. ContextStored'
    BY WebAssumption DEF WebTypeOK, ContextStored, PathPlace
  <1>3. PathPlace' /\ OpensUnderPeer' /\ HandlesInFlight'
    BY DEF WebTypeOK, PathPlace, OpensUnderPeer, HandlesInFlight
  <1>4. QED
    BY <1>1, <1>2, <1>3

LEMMA CallOpenInv ==
    ASSUME NEW r \in Request, WebInv, CallOpen(r)
    PROVE  WebInv'
  <1> USE DEF WebInv, CallOpen, Goto
  <1>1. path[r] \in Shared /\ ctx[path[r]] \in Request
    BY DEF WebTypeOK, ContextStored, PathPlace
  <1>2. WebTypeOK'
    BY <1>1 DEF WebTypeOK, Location
  <1>3. ContextStored'
    BY DEF WebTypeOK, ContextStored
  <1>4. OpensUnderPeer'
    BY <1>1 DEF WebTypeOK, ContextStored, OpensUnderPeer
  <1>5. PathPlace' /\ HandlesInFlight'
    BY <1>1 DEF WebTypeOK, PathPlace, HandlesInFlight
  <1>6. QED
    BY <1>2, <1>3, <1>4, <1>5

(* The steps between Open and the end of the handler.                      *)
LEMMA ProceedInv ==
    ASSUME NEW r \in Request, WebInv,
           \/ Opened(r) \/ ReadBody(r) \/ Apply(r) \/ QueryAnswer(r)
           \/ WriteFails(r) \/ AskLeader(r)
    PROVE  WebInv'
  <1> USE DEF WebInv, Goto
  <1>1. CASE Opened(r)
    BY <1>1 DEF Opened, WebTypeOK, Location, ContextStored, PathPlace,
                OpensUnderPeer, HandlesInFlight
  <1>2. CASE ReadBody(r)
    BY <1>2 DEF ReadBody, WebTypeOK, Location, ContextStored, PathPlace,
                OpensUnderPeer, HandlesInFlight
  <1>3. CASE Apply(r)
    <2>1. did[r] + 1 \in 0..MaxItem
      BY <1>3, WebAssumption DEF Apply, WebTypeOK
    <2>2. QED
      BY <1>3, <2>1 DEF Apply, WebTypeOK, ContextStored, PathPlace,
                        OpensUnderPeer, HandlesInFlight
  <1>4. CASE QueryAnswer(r)
    <2>1. did[r] + 1 \in 0..MaxItem
      BY <1>4, WebAssumption DEF QueryAnswer, WebTypeOK
    <2>2. QED
      BY <1>4, <2>1 DEF QueryAnswer, WebTypeOK, Location, Reply, ContextStored,
                        PathPlace, OpensUnderPeer, HandlesInFlight
  <1>5. CASE AskLeader(r)
    BY <1>5 DEF AskLeader, WebTypeOK, Location, ContextStored, PathPlace,
                OpensUnderPeer, HandlesInFlight
  <1>6. CASE WriteFails(r)
    BY <1>6 DEF WriteFails, WebTypeOK, Location, ContextStored, PathPlace,
                OpensUnderPeer, HandlesInFlight, Shared
  <1>7. QED
    BY <1>1, <1>2, <1>3, <1>4, <1>5, <1>6

LEMMA HandlerInv ==
    ASSUME NEW r \in Request, WebInv, Handler(r)
    PROVE  WebInv'
  <1>1. reply[r] \in Reply
    BY DEF WebInv, WebTypeOK
  <1>2. \/ Store(r) \/ CallOpen(r) \/ Opened(r) \/ ReadBody(r) \/ Apply(r)
        \/ QueryAnswer(r) \/ WriteFails(r) \/ AskLeader(r)
        \/ \E from \in Location, answer \in Reply : Return(r, from, answer)
    BY <1>1 DEF Handler, Open, Exec, Query, Status, Refuse, OpenCancelled,
                OpenFailed, BadBody, ExecOk, ExecRejected, ExecLost,
                ExecCancelled, QueryFailed, QueryPanics, QueryDone, NoLeader,
                ListNodes, Location, Reply
  <1>3. QED
    BY <1>2, StoreInv, CallOpenInv, ProceedInv, ReturnInv

LEMMA WebInvariant == WebSpec => []WebInv
  <1>1. WebInit => WebInv
    BY WebInitInv
  <1>2. WebInv /\ [WebNext]_webVars => WebInv'
    <2> SUFFICES ASSUME WebInv, [WebNext]_webVars PROVE WebInv'
      OBVIOUS
    <2>1. CASE WebNext
      BY <2>1, ConnectInv, ByClientInv, HandlerInv DEF WebNext
    <2>2. CASE UNCHANGED webVars
      BY <2>2 DEF webVars, WebInv, WebTypeOK, ContextStored, PathPlace,
                  OpensUnderPeer, HandlesInFlight
    <2>3. QED
      BY <2>1, <2>2
  <1>3. QED
    BY <1>1, <1>2, PTL DEF WebSpec

(* The state of the handlers is of the right type.                         *)
THEOREM WebTypeCorrect == WebSpec => []WebTypeOK
  <1>1. WebInv => WebTypeOK
    BY DEF WebInv
  <1>2. QED
    BY <1>1, WebInvariant, PTL

(* The context Open gets is never that of the server, nor that of a        *)
(* request for the other endpoint.                                         *)
THEOREM OpensUnderPeerAlways == WebSpec => []OpensUnderPeer
  <1>1. WebInv => OpensUnderPeer
    BY DEF WebInv
  <1>2. QED
    BY <1>1, WebInvariant, PTL

(* No path out of a handler leaves its database open.                      *)
THEOREM HandlesInFlightAlways == WebSpec => []HandlesInFlight
  <1>1. WebInv => HandlesInFlight
    BY DEF WebInv
  <1>2. QED
    BY <1>1, WebInvariant, PTL

------------------------------------------------------------------------------
(* Why no requests open under each other's contexts.  That some request of *)
(* a group depends on none of the others is inductive once we know that a  *)
(* closure never holds the context of a request that opened under another. *)

(* A request has called Open only after it stored its context; if its      *)
(* context is still held then, nobody stored one in between.               *)
HeldIsOwn ==
    /\ \A r \in Request : pc[r] \in {"idle", "entered", "stored"} => openCtx[r] = Boot
    /\ \A p \in Shared : ctx[p] \in HasCalledOpen => openCtx[ctx[p]] = ctx[p]

ContextsInv == HeldIsOwn /\ NoCircleOfContexts

LEMMA ContextsInit == ASSUME WebInit PROVE ContextsInv
  BY WebAssumption
     DEF WebInit, ContextsInv, HeldIsOwn, NoCircleOfContexts, HasCalledOpen

LEMMA ContextsKept ==
    ASSUME ContextsInv, UNCHANGED <<ctx, openCtx>>,
           \A r \in Request : pc'[r] \in {"idle", "entered", "stored"} =>
               pc[r] \in {"idle", "entered", "stored"}
    PROVE  ContextsInv'
  BY DEF ContextsInv, HeldIsOwn, NoCircleOfContexts, HasCalledOpen

(* The one who stores its context last has not called Open yet.            *)
LEMMA StoreContexts ==
    ASSUME NEW r \in Request, WebInv, ContextsInv, Store(r)
    PROVE  ContextsInv'
  <1> USE DEF WebInv, WebTypeOK, Store, Goto, ContextsInv, HasCalledOpen
  <1>1. openCtx[r] = Boot
    BY DEF HeldIsOwn
  <1>2. HeldIsOwn'
    BY <1>1 DEF HeldIsOwn
  <1>3. NoCircleOfContexts'
    BY DEF NoCircleOfContexts
  <1>4. QED
    BY <1>2, <1>3

(* A group that r joins by calling Open: r opens under c.  If c is of the  *)
(* group, it has called Open while it held the context, so under its own.  *)
LEMMA CallOpenContexts ==
    ASSUME NEW r \in Request, WebInv, ContextsInv, CallOpen(r)
    PROVE  ContextsInv'
  <1> USE DEF WebInv, CallOpen, Goto, ContextsInv
  <1> DEFINE c == ctx[path[r]]
  <1>1. path[r] \in Shared /\ c \in Request /\ path[c] = path[r]
    BY DEF WebTypeOK, ContextStored, PathPlace
  <1>2. /\ openCtx' = [openCtx EXCEPT ![r] = c] /\ ctx' = ctx
        /\ openCtx \in [Request -> Request \cup {Boot}] /\ openCtx'[r] = c
    BY <1>1 DEF WebTypeOK
  <1>3. HasCalledOpen' = HasCalledOpen \cup {r} /\ r \notin HasCalledOpen
    BY <1>1, <1>2, WebAssumption DEF HasCalledOpen, HeldIsOwn
  <1>4. HeldIsOwn'
    <2>1. \A q \in Request : pc'[q] \in {"idle", "entered", "stored"} =>
              openCtx'[q] = Boot
      BY <1>2 DEF HeldIsOwn, WebTypeOK
    <2>2. ASSUME NEW p \in Shared, ctx'[p] \in HasCalledOpen'
          PROVE  openCtx'[ctx'[p]] = ctx'[p]
      <3>1. CASE ctx[p] = r
        <4>1. path[r] = p
          BY <3>1, WebAssumption DEF ContextStored
        <4>2. QED
          BY <1>2, <3>1, <4>1
      <3>2. CASE ctx[p] # r
        <4>1. ctx[p] \in HasCalledOpen
          BY <1>2, <1>3, <2>2, <3>2
        <4>2. QED
          BY <1>2, <3>2, <4>1 DEF HeldIsOwn, HasCalledOpen
      <3>3. QED
        BY <3>1, <3>2
    <2>3. QED
      BY <2>1, <2>2 DEF HeldIsOwn
  <1>5. NoCircleOfContexts'
    <2> SUFFICES ASSUME NEW group \in SUBSET HasCalledOpen', group # {}
                 PROVE  \E q \in group : openCtx'[q] = q \/ openCtx'[q] \notin group
      BY DEF NoCircleOfContexts
    <2>1. CASE r \notin group
      <3>1. group \in SUBSET HasCalledOpen
        BY <1>3, <2>1
      <3>2. PICK q \in group : openCtx[q] = q \/ openCtx[q] \notin group
        BY <3>1 DEF NoCircleOfContexts
      <3>3. q # r /\ q \in Request
        BY <2>1, <3>1 DEF HasCalledOpen
      <3>4. QED
        BY <1>2, <3>2, <3>3
    <2>2. CASE r \in group /\ (c = r \/ c \notin group)
      BY <1>2, <2>2
    <2>3. CASE r \in group /\ c # r /\ c \in group
      <3>1. c \in HasCalledOpen
        BY <1>3, <2>3
      <3>2. openCtx[c] = c
        BY <1>1, <3>1 DEF HeldIsOwn
      <3>3. QED
        BY <1>1, <1>2, <2>3, <3>2
    <2>4. QED
      BY <2>1, <2>2, <2>3
  <1>6. QED
    BY <1>4, <1>5

LEMMA HandlerContexts ==
    ASSUME NEW r \in Request, WebInv, ContextsInv,
           \/ Handler(r) \/ ByClient(r)
           \/ Connect(r, Endpoint \cup {"shutdown"}) \/ Connect(r, Endpoint)
    PROVE  ContextsInv'
  <1>1. pc \in [Request -> Location]
    BY DEF WebInv, WebTypeOK
  <1>2. \/ Store(r) \/ CallOpen(r)
        \/ /\ UNCHANGED <<ctx, openCtx>>
           /\ \/ pc' = pc
              \/ \E to \in Location \ {"idle", "entered", "stored"} :
                    pc' = [pc EXCEPT ![r] = to]
              \/ pc[r] = "idle" /\ pc' = [pc EXCEPT ![r] = "entered"]
    BY DEF Handler, Open, Exec, Query, Status, Refuse, OpenCancelled,
           OpenFailed, BadBody, ExecOk, ExecRejected, ExecLost, ExecCancelled,
           QueryFailed, QueryPanics, QueryDone, NoLeader, ListNodes, Opened,
           ReadBody, Apply, QueryAnswer, WriteFails, AskLeader, Return, Goto,
           ByClient, SendBody, TakeAnswer, HangUp, Connect, Location
  <1>3. CASE UNCHANGED <<ctx, openCtx>> /\ ~ (Store(r) \/ CallOpen(r))
    <2>1. \A q \in Request : pc'[q] \in {"idle", "entered", "stored"} =>
              pc[q] \in {"idle", "entered", "stored"}
      BY <1>1, <1>2, <1>3
    <2>2. QED
      BY <1>3, <2>1, ContextsKept
  <1>4. QED
    BY <1>2, <1>3, StoreContexts, CallOpenContexts

------------------------------------------------------------------------------
(* What a handler has written and done follows from where it is.           *)
ReplyPlace == \A r \in Request :
    /\ pc[r] \notin {"running", "writing", "sending", "done"} =>
           did[r] = 0 /\ reply[r] = "none"
    /\ pc[r] = "writing" => did[r] > 0 /\ reply[r] = "ok"
    /\ Running(r, "exec") => reply[r] = "none"
    /\ Running(r, "query") => reply[r] = IF did[r] = 0 THEN "none" ELSE "ok"
    /\ reply[r] \notin {"none", "ok"} => pc[r] = "done"

ReplyInv ==
    /\ WebInv
    /\ ReplyPlace
    /\ ReplyTellsEffect
    /\ ContextsInv

LEMMA ReplyInit == ASSUME WebInit PROVE ReplyInv
  BY WebInitInv, ContextsInit
     DEF WebInit, ReplyInv, ReplyPlace, Running, ReplyTellsEffect

(* The steps that neither write nor do anything.                           *)
LEMMA QuietReply ==
    ASSUME NEW r \in Request, ReplyInv,
           \/ Connect(r, Endpoint \cup {"shutdown"}) \/ Connect(r, Endpoint)
           \/ ByClient(r) \/ Store(r) \/ CallOpen(r) \/ Opened(r)
           \/ ReadBody(r) \/ WriteFails(r) \/ AskLeader(r)
    PROVE  (ReplyPlace /\ ReplyTellsEffect)'
  <1> USE DEF ReplyInv, WebInv, WebTypeOK, Goto
  <1>1. CASE Connect(r, Endpoint \cup {"shutdown"}) \/ Connect(r, Endpoint)
    <2>1. /\ pc[r] = "idle" /\ pc' = [pc EXCEPT ![r] = "entered"]
          /\ \A q \in Request \ {r} : path'[q] = path[q] /\ items'[q] = items[q]
          /\ UNCHANGED <<ctx, openCtx, gone, handles, leaders, did, cut, reply>>
      BY <1>1 DEF Connect
    <2>2. QED
      BY <2>1 DEF ReplyPlace, Running, ReplyTellsEffect
  <1>2. CASE ByClient(r) \/ WriteFails(r)
    <2>1. /\ \/ pc' = pc
             \/ pc[r] = "writing" /\ pc' = [pc EXCEPT ![r] = "running"]
          /\ UNCHANGED <<path, items, did, reply>>
      BY <1>2 DEF ByClient, SendBody, TakeAnswer, HangUp, WriteFails
    <2>2. pc[r] = "writing" => path[r] = "query" /\ did[r] > 0 /\ reply[r] = "ok"
      BY DEF PathPlace, ReplyPlace
    <2>3. QED
      BY <2>1, <2>2 DEF ReplyPlace, Running, ReplyTellsEffect
  <1>3. CASE Store(r) \/ CallOpen(r) \/ Opened(r) \/ ReadBody(r) \/ AskLeader(r)
    BY <1>3 DEF Store, CallOpen, Opened, ReadBody, AskLeader, ReplyPlace,
                Running, ReplyTellsEffect
  <1>4. QED
    BY <1>1, <1>2, <1>3

(* The steps that apply a statement or answer a query.                     *)
LEMMA EffectReply ==
    ASSUME NEW r \in Request, ReplyInv, Apply(r) \/ QueryAnswer(r)
    PROVE  (ReplyPlace /\ ReplyTellsEffect)'
  <1> USE DEF ReplyInv, WebInv, WebTypeOK, Running
  <1>1. CASE Apply(r)
    BY <1>1 DEF Apply, ReplyPlace, ReplyTellsEffect
  <1>2. CASE QueryAnswer(r)
    BY <1>2 DEF QueryAnswer, Goto, ReplyPlace, ReplyTellsEffect
  <1>3. QED
    BY <1>1, <1>2

(* A handler may return what is true of its request.                       *)
LEMMA ReturnReply ==
    ASSUME NEW r \in Request, NEW from \in Location \ {"idle", "done"},
           NEW answer \in Reply,
           ReplyInv, Return(r, from, answer),
           answer = "ok" /\ path[r] = "exec" => did[r] = items[r],
           answer \in {"refused", "unopened", "nodb", "bad"} => did[r] = 0,
           answer = "failed" /\ path[r] = "query" => did[r] = 0
    PROVE  (ReplyPlace /\ ReplyTellsEffect)'
  <1> USE DEF ReplyInv, WebInv, WebTypeOK, Return, Goto
  <1>1. ReplyPlace'
    BY DEF ReplyPlace, Running
  <1>2. ReplyTellsEffect'
    BY DEF ReplyTellsEffect
  <1>3. QED
    BY <1>1, <1>2

LEMMA HandlerReply ==
    ASSUME NEW r \in Request, ReplyInv, Handler(r)
    PROVE  ReplyInv'
  <1> USE DEF ReplyInv
  <1>1. WebInv' /\ ContextsInv'
    BY HandlerInv, HandlerContexts
  <1>2. CASE Open(r)
    <2>1. pc[r] \in {"entered", "opening", "opened"} => did[r] = 0
      BY DEF ReplyPlace
    <2>2. CASE Refuse(r) \/ OpenCancelled(r) \/ OpenFailed(r) \/ BadBody(r)
      BY <1>1, <2>1, <2>2, ReturnReply
         DEF Refuse, OpenCancelled, OpenFailed, BadBody, Return, Goto,
             Location, Reply
    <2>3. QED
      BY <1>1, <1>2, <2>2, QuietReply DEF Open
  <1>3. CASE Apply(r)
    BY <1>1, <1>3, EffectReply
  <1>4. CASE Exec(r)
    BY <1>1, <1>4, ReturnReply
       DEF Exec, ExecOk, ExecRejected, ExecLost, ExecCancelled, Running,
           Location, Reply
  <1>5. CASE Query(r)
    <2>1. reply[r] \in Reply
      BY DEF WebInv, WebTypeOK
    <2>2. CASE QueryFailed(r) \/ QueryPanics(r) \/ QueryDone(r)
      <3>1. Running(r, "query") /\ reply[r] \in {"none", "ok"}
        BY <2>2 DEF QueryFailed, QueryPanics, QueryDone, ReplyPlace
      <3>2. QED
        BY <1>1, <2>1, <2>2, <3>1, ReturnReply
           DEF QueryFailed, QueryPanics, QueryDone, Running, Location, Reply
    <2>3. QED
      BY <1>1, <1>5, <2>2, EffectReply, QuietReply DEF Query
  <1>6. CASE Status(r)
    <2>1. CASE AskLeader(r)
      BY <1>1, <2>1, QuietReply
    <2>2. CASE NoLeader(r)
      BY <1>1, <2>2, ReturnReply DEF NoLeader, Location, Reply
    <2>3. CASE ListNodes(r)
      <3>1. path[r] = "status"
        BY <2>3 DEF ListNodes, Return, Goto, WebInv, PathPlace
      <3>2. QED
        BY <1>1, <2>3, <3>1, ReturnReply DEF ListNodes, Location, Reply
    <2>4. QED
      BY <1>6, <2>1, <2>2, <2>3 DEF Status
  <1>7. QED
    BY <1>2, <1>3, <1>4, <1>5, <1>6 DEF Handler

LEMMA ReplyInvariant == WebSpec => []ReplyInv
  <1>1. WebInit => ReplyInv
    BY ReplyInit
  <1>2. ReplyInv /\ [WebNext]_webVars => ReplyInv'
    <2> SUFFICES ASSUME ReplyInv, [WebNext]_webVars PROVE ReplyInv'
      OBVIOUS
    <2>1. ASSUME NEW r \in Request, Connect(r, Endpoint) \/ ByClient(r)
          PROVE  ReplyInv'
      BY <2>1, ConnectInv, ByClientInv, HandlerContexts, QuietReply DEF ReplyInv
    <2>2. CASE UNCHANGED webVars
      BY <2>2 DEF webVars, ReplyInv, WebInv, WebTypeOK, ContextStored,
                  PathPlace, OpensUnderPeer, HandlesInFlight, ReplyPlace,
                  Running, ReplyTellsEffect, ContextsInv, HeldIsOwn,
                  NoCircleOfContexts, HasCalledOpen
    <2>3. QED
      BY <2>1, <2>2, HandlerReply DEF WebNext
  <1>3. QED
    BY <1>1, <1>2, PTL DEF WebSpec

(* What a reply says about the statements and queries of its request holds *)
(* from then on.                                                           *)
THEOREM ReplyTellsEffectAlways == WebSpec => []ReplyTellsEffect
  <1>1. ReplyInv => ReplyTellsEffect
    BY DEF ReplyInv
  <1>2. QED
    BY <1>1, ReplyInvariant, PTL

(* Among any requests, however many and in whatever order they store their *)
(* contexts and call Open, one depends on none of the others.              *)
THEOREM NoCircleOfContextsAlways == WebSpec => []NoCircleOfContexts
  <1>1. ReplyInv => NoCircleOfContexts
    BY DEF ReplyInv, ContextsInv
  <1>2. QED
    BY <1>1, ReplyInvariant, PTL

------------------------------------------------------------------------------
(* The composition: the state is well typed, the application outlives the  *)
(* handlers, and a graceful stop leaves no handler and no open database    *)
(* behind.                                                                 *)

(* No request is in flight before the server accepts connections, nor once *)
(* Shutdown has seen the last handler return.  From the start of the       *)
(* application to the end of the drain, the application is open.           *)
ServerInv ==
    /\ main \in {"starting", "started", "closing", "returned", "failed"}
           => InFlight = {}
    /\ Accepting \/ main \in {"started", "closing"} => app = "open"
    /\ main = "returned" => app = "closed"
    /\ AppOutlivesHandlers

Inv == WebInv /\ main \in MainState /\ app \in {"none", "open", "closed"} /\ ServerInv

LEMMA InitInv == Init => Inv
  <1> SUFFICES ASSUME Init PROVE Inv
    OBVIOUS
  <1>1. WebInv
    BY WebInitInv DEF Init
  <1>2. InFlight = {}
    BY DEF Init, WebInit, InFlight
  <1>3. QED
    BY <1>1, <1>2 DEF Init, Inv, ServerInv, MainState, Accepting,
                      AppOutlivesHandlers

(* Handlers start nothing: at most one request leaves the set in flight.   *)
LEMMA HandlerInFlight ==
    ASSUME NEW r \in Request, WebInv, Handler(r)
    PROVE  InFlight' \subseteq InFlight
  <1>1. pc \in [Request -> Location]
    BY DEF WebInv, WebTypeOK
  <1>2. \/ pc' = pc
        \/ \E to : pc[r] \notin {"idle", "done"} /\ pc' = [pc EXCEPT ![r] = to]
    BY DEF Handler, Open, Exec, Query, Status, Refuse, OpenCancelled,
           OpenFailed, BadBody, ExecOk, ExecRejected, ExecLost, ExecCancelled,
           QueryFailed, QueryPanics, QueryDone, NoLeader, ListNodes, Store,
           CallOpen, Opened, ReadBody, Apply, QueryAnswer, WriteFails,
           AskLeader, Return, Goto
  <1>3. QED
    BY <1>1, <1>2 DEF InFlight

(* The steps of the /shutdown handler keep what holds of all handlers.     *)
LEMMA ShutdownHandlerInv ==
    ASSUME NEW r \in Request, WebInv, AnnounceShutdown(r) \/ HandOver(r)
    PROVE  WebInv' /\ InFlight' \subseteq InFlight
  <1>1. CASE AnnounceShutdown(r)
    <2> USE <1>1 DEF WebInv, AnnounceShutdown, Goto
    <2>1. WebTypeOK'
      BY DEF WebTypeOK, Location, Reply
    <2>2. ContextStored' /\ PathPlace' /\ OpensUnderPeer' /\ HandlesInFlight'
      BY DEF WebTypeOK, ContextStored, PathPlace, OpensUnderPeer,
             HandlesInFlight
    <2>3. InFlight' \subseteq InFlight
      BY DEF WebTypeOK, InFlight
    <2>4. QED
      BY <2>1, <2>2, <2>3
  <1>2. CASE HandOver(r)
    <2>1. Return(r, "sending", "ok")
      BY <1>2 DEF HandOver
    <2>2. WebInv'
      BY <2>1, ReturnInv DEF Reply
    <2>3. InFlight' \subseteq InFlight
      BY <2>1 DEF Return, Goto, InFlight, WebInv, WebTypeOK
    <2>4. QED
      BY <2>2, <2>3
  <1>3. QED
    BY <1>1, <1>2

LEMMA NextInv == Inv /\ [Next]_vars => Inv'
  <1> SUFFICES ASSUME Inv, [Next]_vars PROVE Inv'
    OBVIOUS
  <1> USE DEF Inv
  <1>1. ASSUME UNCHANGED webVars
        PROVE  WebInv' /\ InFlight' = InFlight
    BY <1>1 DEF webVars, WebInv, WebTypeOK, ContextStored, PathPlace,
                OpensUnderPeer, HandlesInFlight, InFlight
  <1>2. CASE Main \/ Signal \/ Kill
    <2>1. UNCHANGED webVars
      BY <1>2 DEF Main, Signal, Kill, StartFails, StartApp, ListenFails, Serve,
                  Notify, CloseListener, Drained, CloseApp, MainStep
    <2>2. (main \in MainState /\ app \in {"none", "open", "closed"})' /\ ServerInv'
      BY <1>1, <1>2, <2>1
         DEF Main, Signal, Kill, StartFails, StartApp, ListenFails, Serve,
             Notify, CloseListener, Drained, CloseApp, MainStep, ServerInv,
             Accepting, AppOutlivesHandlers, MainState, Alive, Busy
    <2>3. QED
      BY <1>1, <2>1, <2>2
  <1>3. ASSUME NEW r \in Request, Goroutine(r)
        PROVE  Inv'
    <2>1. WebInv' /\ InFlight' \subseteq InFlight
      BY <1>3, HandlerInv, HandlerInFlight, ShutdownHandlerInv DEF Goroutine
    <2>2. app' = app /\ (main' = main \/ (main = "waiting" /\ main' = "stopping"))
      BY <1>3 DEF Goroutine, AnnounceShutdown, HandOver, serverVars
    <2>3. QED
      BY <2>1, <2>2 DEF ServerInv, Accepting, AppOutlivesHandlers, MainState
  <1>4. ASSUME NEW r \in Request, Accepting, UNCHANGED serverVars,
               Connect(r, Endpoint \cup {"shutdown"})
        PROVE  Inv'
    <2>1. WebInv'
      BY <1>4, ConnectInv
    <2>2. QED
      BY <1>4, <2>1 DEF serverVars, ServerInv, Accepting, AppOutlivesHandlers
  <1>5. ASSUME NEW r \in Request, UNCHANGED serverVars, ByClient(r)
        PROVE  Inv'
    <2>1. WebInv' /\ InFlight' = InFlight
      BY <1>5, ByClientInv
    <2>2. QED
      BY <1>5, <2>1 DEF serverVars, ServerInv, Accepting, AppOutlivesHandlers
  <1>6. CASE UNCHANGED vars
    BY <1>1, <1>6 DEF vars, serverVars, ServerInv, Accepting, AppOutlivesHandlers
  <1>7. QED
    BY <1>2, <1>3, <1>4, <1>5, <1>6 DEF Next

LEMMA Invariant == Spec => []Inv
  BY InitInv, NextInv, PTL DEF Spec

(* The server's state is of the right type.                                *)
THEOREM TypeCorrect == Spec => []TypeOK
  <1>1. Inv => TypeOK
    BY DEF Inv, WebInv, TypeOK
  <1>2. QED
    BY <1>1, Invariant, PTL

(* The application is closed only when no handler uses it any more.        *)
THEOREM AppOutlivesHandlersAlways == Spec => []AppOutlivesHandlers
  <1>1. Inv => AppOutlivesHandlers
    BY DEF Inv, ServerInv
  <1>2. QED
    BY <1>1, Invariant, PTL

(* After a graceful stop nothing of any request is left.                   *)
THEOREM CleanReturnAlways == Spec => []CleanReturn
  <1>1. Inv => CleanReturn
    <2> SUFFICES ASSUME Inv, main = "returned"
                 PROVE  app = "closed" /\ InFlight = {} /\ handles = {}
      BY DEF CleanReturn
    <2>1. app = "closed" /\ InFlight = {}
      BY DEF Inv, ServerInv
    <2>2. handles = {}
      BY <2>1 DEF Inv, WebInv, WebTypeOK, HandlesInFlight, InFlight
    <2>3. QED
      BY <2>1, <2>2
  <1>2. QED
    BY <1>1, Invariant, PTL

------------------------------------------------------------------------------
(* At most one shutdown is answered, and only by a main that then leaves   *)
(* the receive for good.                                                   *)
AnsweredInv ==
    /\ \A r, q \in Answered : r = q
    /\ Answered # {} => main \notin {"starting", "started", "serving", "waiting"}

(* Only HandOver answers a shutdown: Handler can but refuse it.            *)
LEMMA HandlerAnswered ==
    ASSUME NEW r \in Request, WebInv, Handler(r)
    PROVE  Answered' \subseteq Answered
  <1> USE DEF WebInv, WebTypeOK
  <1>1. /\ path' = path
        /\ \A q \in Request \ {r} : pc'[q] = pc[q] /\ reply'[q] = reply[q]
    BY DEF Handler, Open, Exec, Query, Status, Refuse, OpenCancelled,
           OpenFailed, BadBody, ExecOk, ExecRejected, ExecLost, ExecCancelled,
           QueryFailed, QueryPanics, QueryDone, NoLeader, ListNodes, Store,
           CallOpen, Opened, ReadBody, Apply, QueryAnswer, WriteFails,
           AskLeader, Return, Goto
  <1>2. path[r] = "shutdown" => Refuse(r)
    BY DEF Handler, Open, Exec, Query, Status, OpenCancelled, OpenFailed,
           BadBody, ExecOk, ExecRejected, ExecLost, ExecCancelled, QueryFailed,
           QueryPanics, QueryDone, NoLeader, ListNodes, Store, CallOpen, Opened,
           ReadBody, Apply, QueryAnswer, WriteFails, AskLeader, Return, Goto,
           Running, Shared, PathPlace
  <1>3. Refuse(r) => reply'[r] = "refused"
    BY DEF Refuse, Return
  <1>4. QED
    BY <1>1, <1>2, <1>3 DEF Answered

LEMMA AnsweredNext == Inv /\ AnsweredInv /\ [Next]_vars => AnsweredInv'
  <1> SUFFICES ASSUME Inv, AnsweredInv, [Next]_vars PROVE AnsweredInv'
    OBVIOUS
  <1> USE DEF AnsweredInv
  <1>1. ASSUME UNCHANGED webVars
        PROVE  Answered' = Answered
    BY <1>1 DEF webVars, Answered
  <1>2. CASE Main \/ Signal \/ Kill
    BY <1>1, <1>2
       DEF Main, Signal, Kill, StartFails, StartApp, ListenFails, Serve, Notify,
           CloseListener, Drained, CloseApp, MainStep
  <1>3. ASSUME NEW r \in Request, Handler(r), UNCHANGED serverVars
        PROVE  AnsweredInv'
    BY <1>3, HandlerAnswered DEF Inv, serverVars
  <1>4. ASSUME NEW r \in Request, AnnounceShutdown(r)
        PROVE  AnsweredInv'
    <2>1. Answered' \subseteq Answered
      BY <1>4 DEF AnnounceShutdown, Goto, Answered, Inv, WebInv, WebTypeOK
    <2>2. QED
      BY <1>4, <2>1 DEF AnnounceShutdown, serverVars
  <1>5. ASSUME NEW r \in Request, HandOver(r)
        PROVE  AnsweredInv'
    <2>1. Answered = {} /\ main' = "stopping"
      BY <1>5 DEF HandOver
    <2>2. Answered' \subseteq {r}
      BY <1>5, <2>1 DEF HandOver, Return, Goto, Answered, Inv, WebInv, WebTypeOK
    <2>3. QED
      BY <2>1, <2>2
  <1>6. ASSUME NEW r \in Request, UNCHANGED serverVars,
               Connect(r, Endpoint \cup {"shutdown"}) \/ ByClient(r)
        PROVE  AnsweredInv'
    <2>1. Answered' \subseteq Answered
      BY <1>6 DEF Connect, ByClient, SendBody, TakeAnswer, HangUp, Answered,
                  Inv, WebInv, WebTypeOK
    <2>2. QED
      BY <1>6, <2>1 DEF serverVars
  <1>7. CASE UNCHANGED vars
    BY <1>1, <1>7 DEF vars, serverVars
  <1>8. QED
    BY <1>2, <1>3, <1>4, <1>5, <1>6, <1>7 DEF Next, Goroutine

(* However many requests to shut down arrive, one at most is answered.     *)
THEOREM OneShutdownAnsweredAlways == Spec => []OneShutdownAnswered
  <1>1. Init => AnsweredInv
    BY DEF Init, WebInit, AnsweredInv, Answered
  <1>2. AnsweredInv => OneShutdownAnswered
    <2> SUFFICES ASSUME AnsweredInv PROVE Cardinality(Answered) <= 1
      BY DEF AnsweredInv, OneShutdownAnswered
    <2>1. CASE Answered = {}
      BY <2>1, FS_EmptySet
    <2>2. CASE Answered # {}
      <3>1. PICK r \in Answered : TRUE
        BY <2>2
      <3>2. Answered = {r}
        BY <3>1 DEF AnsweredInv
      <3>3. Cardinality({r}) = 1
        BY FS_Singleton
      <3>4. QED
        BY <3>2, <3>3
    <2>3. QED
      BY <2>1, <2>2
  <1>3. QED
    BY <1>1, <1>2, AnsweredNext, Invariant, PTL DEF Spec

------------------------------------------------------------------------------
(* What the handlers promise in Web they promise in the server too.        *)

LEMMA ShutdownHandlerReply ==
    ASSUME NEW r \in Request, ReplyInv, AnnounceShutdown(r) \/ HandOver(r)
    PROVE  ReplyInv'
  <1>1. WebInv'
    BY ShutdownHandlerInv DEF ReplyInv
  <1>2. CASE AnnounceShutdown(r)
    <2> USE DEF ReplyInv, WebInv, WebTypeOK
    <2>1. /\ path[r] = "shutdown" /\ pc[r] = "entered"
          /\ pc' = [pc EXCEPT ![r] = "sending"]
          /\ reply' = [reply EXCEPT ![r] = "ok"]
          /\ UNCHANGED <<path, items, ctx, openCtx, did>>
      BY <1>2 DEF AnnounceShutdown, Goto
    <2>2. ReplyPlace'
      BY <2>1 DEF ReplyPlace, Running
    <2>3. ReplyTellsEffect' /\ ContextsInv'
      BY <2>1, ContextsKept DEF ReplyPlace, ReplyTellsEffect
    <2>4. QED
      BY <1>1, <2>2, <2>3
  <1>3. CASE HandOver(r)
    <2>1. Return(r, "sending", "ok") /\ pc[r] = "sending"
      BY <1>3 DEF HandOver, Return, Goto
    <2>2. path[r] = "shutdown"
      BY <2>1 DEF ReplyInv, WebInv, PathPlace
    <2>3. "sending" \in Location \ {"idle", "done"} /\ "ok" \in Reply
      BY DEF Location, Reply
    <2>4. ContextsInv'
      BY <2>1, ContextsKept DEF Return, Goto, ReplyInv, WebInv, WebTypeOK
    <2>5. QED
      BY <1>1, <2>1, <2>2, <2>3, <2>4, ReturnReply DEF ReplyInv
  <1>4. QED
    BY <1>2, <1>3

LEMMA ServerReply == Spec => []ReplyInv
  <1>1. Init => ReplyInv
    BY ReplyInit DEF Init
  <1>2. ReplyInv /\ [Next]_vars => ReplyInv'
    <2> SUFFICES ASSUME ReplyInv, [Next]_vars PROVE ReplyInv'
      OBVIOUS
    <2>1. ASSUME UNCHANGED webVars
          PROVE  ReplyInv'
      BY <2>1 DEF webVars, ReplyInv, WebInv, WebTypeOK, ContextStored,
                  PathPlace, OpensUnderPeer, HandlesInFlight, ReplyPlace,
                  Running, ReplyTellsEffect, ContextsInv, HeldIsOwn,
                  NoCircleOfContexts, HasCalledOpen
    <2>2. CASE Main \/ Signal \/ Kill
      BY <2>1, <2>2
         DEF Main, Signal, Kill, StartFails, StartApp, ListenFails, Serve,
             Notify, CloseListener, Drained, CloseApp, MainStep
    <2>3. ASSUME NEW r \in Request, Goroutine(r)
          PROVE  ReplyInv'
      BY <2>3, HandlerReply, ShutdownHandlerReply DEF Goroutine
    <2>4. ASSUME NEW r \in Request,
                 Connect(r, Endpoint \cup {"shutdown"}) \/ ByClient(r)
          PROVE  ReplyInv'
      BY <2>4, ConnectInv, ByClientInv, HandlerContexts, QuietReply DEF ReplyInv
    <2>5. CASE UNCHANGED vars
      BY <2>1, <2>5 DEF vars
    <2>6. QED
      BY <2>2, <2>3, <2>4, <2>5 DEF Next
  <1>3. QED
    BY <1>1, <1>2, PTL DEF Spec

(* What is true of the handlers by themselves is true of them in a server  *)
(* that may be shut down or killed at any time, whose listener and         *)
(* application close under them; and a database a handler holds belongs to *)
(* an application that is open.                                            *)
THEOREM ServerKeepsWeb ==
    Spec => /\ [](OpensUnderPeer /\ NoCircleOfContexts)
            /\ [](ReplyTellsEffect /\ HandlesInFlight)
            /\ [](handles # {} => app = "open")
  <1> DEFINE HeldOpen == handles # {} => app = "open"
  <1>1. ReplyInv => OpensUnderPeer /\ NoCircleOfContexts /\ ReplyTellsEffect
                    /\ HandlesInFlight
    BY DEF ReplyInv, WebInv, ContextsInv
  <1>2. Inv => HeldOpen
    BY DEF Inv, WebInv, WebTypeOK, ServerInv, HandlesInFlight, InFlight,
           AppOutlivesHandlers
  <1>3. QED
    BY <1>1, <1>2, ServerReply, Invariant, PTL

------------------------------------------------------------------------------
(* How many steps a handler has left, those included that the database may *)
(* take when its answer is not awaited; and how far main has to go.  With  *)
(* fairness, this is what HandlersEnd and StopEnds rest on.                *)
HandlerSteps(r) ==
    CASE pc[r] = "idle"    -> 2 * MaxItem + 7
      [] pc[r] = "entered" -> 2 * items[r] + 6
      [] pc[r] = "stored"  -> 2 * items[r] + 5
      [] pc[r] = "opening" -> 2 * items[r] + 4
      [] pc[r] = "opened"  -> 2 * items[r] + 3
      [] pc[r] = "writing" -> 2 * (items[r] - did[r]) + 3
      [] pc[r] = "running" -> 2 * (items[r] - did[r]) + 2
      [] pc[r] = "done"    -> 2 * (items[r] - did[r])
      [] OTHER             -> 2 * (items[r] - did[r]) + 1

MainSteps ==
    CASE main = "starting" -> 7
      [] main = "started"  -> 6
      [] main = "serving"  -> 5
      [] main = "waiting"  -> 4
      [] main = "stopping" -> 3
      [] main = "draining" -> 2
      [] main = "closing"  -> 1
      [] OTHER             -> 0

StepsFall ==
    /\ main' # main => MainSteps' < MainSteps
    /\ \A r \in Request :
         \/ (HandlerSteps(r))' < HandlerSteps(r)
         \/ UNCHANGED <<pc[r], did[r], items[r]>>

NoneTooMany == \A r \in Request : did[r] <= items[r]

StepsInv == Inv /\ ReplyInv /\ NoneTooMany

(* A step of the handler of r is one of r alone, brings r nearer to its    *)
(* end, and does no more than what the request asks for.                   *)
LEMMA HandlerFalls ==
    ASSUME NEW r \in Request, StepsInv,
           \/ Handler(r) \/ AnnounceShutdown(r) \/ HandOver(r)
           \/ Connect(r, Endpoint \cup {"shutdown"}) \/ TakeAnswer(r)
    PROVE  /\ \A q \in Request \ {r} :
                pc'[q] = pc[q] /\ did'[q] = did[q] /\ items'[q] = items[q]
           /\ did'[r] <= items'[r]
           /\ (HandlerSteps(r))' < HandlerSteps(r)
  <1>1. /\ pc \in [Request -> Location] /\ did \in [Request -> 0..MaxItem]
        /\ items \in [Request -> 0..MaxItem] /\ MaxItem \in Nat
        /\ did[r] \in Nat /\ items[r] \in Nat /\ did[r] <= items[r]
    BY WebAssumption DEF StepsInv, ReplyInv, WebInv, WebTypeOK, NoneTooMany
  <1>2. pc[r] \notin {"running", "writing", "sending", "done"} => did[r] = 0
    BY DEF StepsInv, ReplyInv, ReplyPlace
  <1>3. CASE Connect(r, Endpoint \cup {"shutdown"})
    <2>1. PICK p \in Endpoint \cup {"shutdown"}, n \in 0..MaxItem :
              /\ path' = [path EXCEPT ![r] = p]
              /\ items' = [items EXCEPT ![r] = n]
      <3>1. PICK p \in Endpoint \cup {"shutdown"} :
              /\ path' = [path EXCEPT ![r] = p]
              /\ \E n \in IF p \in Shared THEN 0..MaxItem ELSE {0} :
                    items' = [items EXCEPT ![r] = n]
        BY <1>3 DEF Connect
      <3>2. (IF p \in Shared THEN 0..MaxItem ELSE {0}) \subseteq 0..MaxItem
        BY <1>1
      <3>3. QED
        BY <3>1, <3>2
    <2>2. pc[r] = "idle" /\ pc' = [pc EXCEPT ![r] = "entered"] /\ did' = did
      BY <1>3 DEF Connect
    <2>3. QED
      BY <1>1, <1>2, <2>1, <2>2 DEF HandlerSteps
  <1>4. CASE Apply(r) \/ QueryAnswer(r)
    <2>1. /\ did' = [did EXCEPT ![r] = @ + 1] /\ did[r] < items[r]
          /\ items' = items
          /\ \/ pc' = pc /\ pc[r] \in {"running", "done"}
             \/ pc[r] = "running" /\ pc' = [pc EXCEPT ![r] = "writing"]
      BY <1>4 DEF Apply, QueryAnswer, Goto
    <2>2. QED
      BY <1>1, <2>1 DEF HandlerSteps
  <1>5. CASE \/ Open(r) \/ Exec(r) \/ Status(r) \/ AnnounceShutdown(r) \/ HandOver(r)
             \/ QueryFailed(r) \/ QueryPanics(r) \/ QueryDone(r)
             \/ WriteFails(r) \/ TakeAnswer(r)
    <2>1. did' = did /\ items' = items
      BY <1>5 DEF Open, Exec, Status, Refuse, OpenCancelled, OpenFailed, BadBody,
                  ExecOk, ExecRejected, ExecLost, ExecCancelled, QueryFailed,
                  QueryPanics, QueryDone, NoLeader, ListNodes, Store, CallOpen,
                  Opened, ReadBody, WriteFails, TakeAnswer, AskLeader, Return,
                  AnnounceShutdown, HandOver
    <2>2. \E to \in Location :
            /\ pc' = [pc EXCEPT ![r] = to]
            /\ \/ to = "done" /\ pc[r] \notin {"idle", "done"}
               \/ pc[r] = "entered" /\ to \in {"stored", "asking", "sending"}
               \/ pc[r] = "stored" /\ to = "opening"
               \/ pc[r] = "opening" /\ to = "opened"
               \/ pc[r] \in {"opened", "writing"} /\ to = "running"
      BY <1>5 DEF Open, Exec, Status, Refuse, OpenCancelled, OpenFailed, BadBody,
                  ExecOk, ExecRejected, ExecLost, ExecCancelled, QueryFailed,
                  QueryPanics, QueryDone, NoLeader, ListNodes, Store, CallOpen,
                  Opened, ReadBody, WriteFails, TakeAnswer, AskLeader, Return,
                  AnnounceShutdown, HandOver, Goto, Location
    <2>3. QED
      BY <1>1, <1>2, <2>1, <2>2 DEF HandlerSteps
  <1>6. QED
    BY <1>3, <1>4, <1>5 DEF Handler, Query

LEMMA StepsNext == StepsInv /\ [Next]_vars => [StepsFall]_vars /\ NoneTooMany'
  <1> SUFFICES ASSUME StepsInv, [Next]_vars
               PROVE  (StepsFall \/ UNCHANGED vars) /\ NoneTooMany'
    OBVIOUS
  <1>1. ASSUME UNCHANGED webVars, \/ UNCHANGED main \/ MainSteps' < MainSteps
        PROVE  StepsFall /\ NoneTooMany'
    BY <1>1 DEF webVars, StepsInv, StepsFall, NoneTooMany
  <1>2. CASE Main \/ Signal \/ Kill
    <2>1. UNCHANGED webVars
      BY <1>2 DEF Main, Signal, Kill, StartFails, StartApp, ListenFails, Serve,
                  Notify, CloseListener, Drained, CloseApp, MainStep
    <2>2. main \in MainState
      BY DEF StepsInv, Inv
    <2>3. MainSteps' < MainSteps
      BY <1>2, <2>2
         DEF Main, Signal, Kill, StartFails, StartApp, ListenFails, Serve, Notify,
             CloseListener, Drained, CloseApp, MainStep, MainSteps, MainState, Alive
    <2>4. QED
      BY <1>1, <2>1, <2>3
  <1>3. ASSUME NEW r \in Request, Goroutine(r)
        PROVE  StepsFall /\ NoneTooMany'
    <2>1. /\ \A q \in Request \ {r} :
               pc'[q] = pc[q] /\ did'[q] = did[q] /\ items'[q] = items[q]
          /\ did'[r] <= items'[r]
          /\ (HandlerSteps(r))' < HandlerSteps(r)
      BY <1>3, HandlerFalls DEF Goroutine
    <2>2. main' # main => MainSteps' < MainSteps
      BY <1>3 DEF Goroutine, AnnounceShutdown, HandOver, serverVars, MainSteps
    <2>3. QED
      BY <2>1, <2>2 DEF StepsInv, StepsFall, NoneTooMany
  <1>4. ASSUME NEW r \in Request, UNCHANGED serverVars,
               Connect(r, Endpoint \cup {"shutdown"}) \/ TakeAnswer(r)
        PROVE  StepsFall /\ NoneTooMany'
    <2>1. /\ \A q \in Request \ {r} :
               pc'[q] = pc[q] /\ did'[q] = did[q] /\ items'[q] = items[q]
          /\ did'[r] <= items'[r]
          /\ (HandlerSteps(r))' < HandlerSteps(r)
      BY <1>4, HandlerFalls
    <2>2. QED
      BY <1>4, <2>1 DEF serverVars, StepsInv, StepsFall, NoneTooMany
  <1>5. ASSUME NEW r \in Request, UNCHANGED serverVars, SendBody(r) \/ HangUp(r)
        PROVE  StepsFall /\ NoneTooMany'
    BY <1>5 DEF SendBody, HangUp, serverVars, StepsInv, StepsFall, NoneTooMany
  <1>6. CASE UNCHANGED vars
    BY <1>6 DEF vars, webVars, StepsInv, NoneTooMany
  <1>7. QED
    BY <1>2, <1>3, <1>4, <1>5, <1>6 DEF Next, ByClient

(* Every step of a handler brings it nearer to its end and leaves the      *)
(* others alone, and every step of main brings it nearer to its own; no    *)
(* request has more effects than it asks for.  This is what HandlersEnd    *)
(* and StopEnds owe to the code of web.go; the rest is fairness, and       *)
(* clients that keep pace.                                                 *)
THEOREM ServerStepsRunOut ==
    Spec => /\ [](\A r \in Request : HandlerSteps(r) \in 0..(2 * MaxItem + 7))
            /\ [](MainSteps \in 0..7)
            /\ [][StepsFall]_vars
            /\ []NoneTooMany
  <1>1. Init => NoneTooMany
    BY DEF Init, WebInit, NoneTooMany
  <1>2. NoneTooMany /\ Inv /\ ReplyInv => StepsInv
    BY DEF StepsInv
  <1>3. StepsInv => \A r \in Request : HandlerSteps(r) \in 0..(2 * MaxItem + 7)
    <2> SUFFICES ASSUME StepsInv, NEW r \in Request
                 PROVE  HandlerSteps(r) \in 0..(2 * MaxItem + 7)
      OBVIOUS
    <2>1. /\ MaxItem \in Nat /\ did[r] \in Nat /\ items[r] \in Nat
          /\ did[r] <= items[r] /\ items[r] <= MaxItem
      BY WebAssumption DEF StepsInv, ReplyInv, WebInv, WebTypeOK, NoneTooMany
    <2>2. QED
      BY <2>1 DEF HandlerSteps
  <1>4. MainSteps \in 0..7
    BY DEF MainSteps
  <1>5. QED
    BY <1>1, <1>2, <1>3, <1>4, StepsNext, ServerReply, Invariant, PTL DEF Spec
==============================================================================
