---------------------------- MODULE ProxySession ----------------------------
(***************************************************************************)
(* The proxy of one sandbox at work: several connections of the guest,     *)
(* changes of the policy meanwhile, callbacks in the SDK process, servers  *)
(* that close connections, secrets that are rotated.                       *)
(***************************************************************************)
EXTENDS HTTPProxy

\* A change of the policy, and what it allows from now on.
ApplyUpdate(w) ==
    /\ UpdateApplies(w)
    /\ okay' = [c \in Conns |->
          [host |-> okay[c].host \/ (/\ conn[c].host # None
                                     /\ IsHostAllowed(policy', conn[c].host)),
           path |-> okay[c].path \/ (/\ conn[c].req # None
                                     /\ pathAllowed(policy', conn[c].host, conn[c].req.path))]]
    /\ UNCHANGED <<conn, pool, proxy>>

PolicyStep(w) == \/ ApplyUpdate(w)
                 \/ (UpdateLocks(w) \/ UpdateReplies(w)) /\ UNCHANGED proxyVars

\* The steps of a handler in a call of the engine, with the answer of the
\* callback the engine waits for.
EngineCall(c) ==
    \/ CheckOnce(c) \/ CheckHost(c) \/ OnRequest(c) \/ BeforeRule(c) \/ InjectSecrets(c)
    \/ OnResponse(c) \/ AfterRule(c) \/ RewriteBody(c) \/ HookTimesOut(c) \/ HookAnswers(c)

\* The steps that wait for the guest or the server.
Serve(c) ==
    \/ Connect(c) \/ get(c) \/ SendRequest(c) \/ ReadResponse(c) \/ ResponseFails(c)
    \/ WriteResponse(c) \/ WriteEnds(c)

Environment ==
    \/ AdminCalls /\ UNCHANGED proxyVars
    \/ CloseProxy \/ reapLoop
    \/ \E n \in DOMAIN secret : (FileChanges(n) \/ EntryExpires(n)) /\ UNCHANGED proxyVars
    \/ \E h \in DOMAIN pool : IdleTooLong(h) \/ \E i \in DOMAIN pool[h] : ServerClosesIdle(h, i)
    \/ \E c \in Conns : \/ Accept(c) \/ ReadRequest(c) \/ GuestCloses(c) \/ CopyEnds(c)
                        \/ ServerCloses(c) \/ HookUpdates(c)

ProxyInit ==
    /\ EngineInit
    /\ conn = [c \in Conns |-> Idle]
    /\ pool = [h \in {r.host : r \in Config[sc].requests} |-> <<>>]
    /\ proxy = "open"
    /\ okay = [c \in Conns |-> [host |-> FALSE, path |-> FALSE]]

ProxyNext ==
    \/ Environment
    \/ \E w \in Updaters : PolicyStep(w)
    \/ \E c \in Conns : EngineCall(c) \/ Serve(c)

\* Goroutines run; a callback returns unless it waits for a change of the
\* policy; a server sends the rest of a body that the engine rewrites, or
\* closes.  Guests, administrators and otherwise servers owe nothing: a handler
\* may wait for them for ever.
ProxySpec ==
    /\ ProxyInit /\ [][ProxyNext]_netVars
    /\ \A w \in Updaters : WF_netVars(PolicyStep(w))
    /\ \A c \in Conns : WF_netVars(EngineCall(c))

-----------------------------------------------------------------------------
\* The secrets a request carries, and the placeholders, are allowed for its host.
InScope(req) ==
    /\ \A x \in req.subst : isSecretAllowedForHost(x.sec, req.host) /\ x.value # ""
    /\ \A x \in req.ph : x[2] # "body" => isSecretAllowedForHost(x[1], req.host)

\* The steps of a request, from the first check to the answer.
Requesting == {"host", "onreq", "before", "hook", "dial", "send", "sent", "onresp", "after", "write"}
PCs == Requesting \cup {"new", "read", "check", "connect", "copy", "closed"}

InEngine == {c \in Conns : conn[c].pc \in {"before", "hook", "after"}}

(***************************************************************************)
(* Types; the handlers inside OnRequest and OnResponse are exactly the     *)
(* readers of the engine's lock (engine.go:320), so no return path leaves  *)
(* it held; no host has more idle connections than the pool allows         *)
(* (connpool.go:68).                                                       *)
(***************************************************************************)
ProxyTypeOK ==
    /\ lock.pending \in Updaters \cup {None}
    /\ lock.readers = InEngine
    /\ \A c \in Conns : conn[c].pc \in PCs
    /\ \A h \in DOMAIN pool : Len(pool[h]) <= MaxIdle

(***************************************************************************)
(* A request leaves only if, at some moment since it was read, its path    *)
(* and (HTTP) its host were allowed by the policy of that moment; a TCP or *)
(* TLS connection's host was allowed since it was accepted.  The policy    *)
(* may change at any step (http.go:51, engine.go:325).                     *)
(***************************************************************************)
ForwardedWasAllowed ==
    \A c \in Conns :
        /\ conn[c].pc \in {"sent", "copy"} => okay[c].host
        /\ conn[c].pc = "sent" => okay[c].path

(***************************************************************************)
(* What a request carries when it is sent, whatever rules and callbacks    *)
(* put into it and whatever became of the secret's file: it goes to the    *)
(* server it is for, values of a secret only to the secret's hosts and     *)
(* never empty, and no placeholder in header or URL to any other host      *)
(* (engine.go:333-347).                                                    *)
(***************************************************************************)
SecretsInScope ==
    \A c \in Conns : conn[c].pc = "sent" =>
        conn[c].up.host = conn[c].req.host /\ InScope(conn[c].req)

(***************************************************************************)
(* A connection is put back for another request (into the pool, or kept by *)
(* its HTTPS handler) only with the body of the answer that was taken read *)
(* to its end (http.go:121-128, network_hooks.go:505), except that a body  *)
(* a callback replaced stays unread.  That the answer taken is the final   *)
(* one, the code does not see to (NoAnswerIsOwed).                         *)
(***************************************************************************)
ReusedAfterWholeAnswer ==
    /\ \A h \in DOMAIN pool : \A i \in DOMAIN pool[h] :
          pool[h][i].left => pool[h][i].swapped
    /\ \A c \in Conns : conn[c].pc = "read" /\ conn[c].up # None /\ conn[c].up.left
                           => conn[c].up.swapped

(***************************************************************************)
(* A connection that is put back has no answer still to come.  The code    *)
(* does not meet this: it takes an interim (1xx) answer for the final one, *)
(* and the next request on the connection gets the answer that was left    *)
(* (README, Deviations).                                                   *)
(***************************************************************************)
NoAnswerIsOwed ==
    /\ \A h \in DOMAIN pool : \A i \in DOMAIN pool[h] : ~pool[h][i].owed
    /\ \A c \in Conns : conn[c].pc = "read" /\ conn[c].up # None => ~conn[c].up.owed

(***************************************************************************)
(* No call of the engine waits for ever: a handler that checks a request   *)
(* or an answer gets the lock and leaves OnRequest or OnResponse again,    *)
(* and a change of the policy returns, although the lock is held over      *)
(* callbacks and a callback may itself change the policy (engine.go:320,   *)
(* network_hooks.go:392); such a callback needs timeout_ms.  What guests   *)
(* and servers do between the calls does not matter.                       *)
(***************************************************************************)
EngineCalls == {"check", "host", "onreq", "before", "hook", "onresp", "after"}

PolicyCallsReturn ==
    /\ \A c \in Conns : conn[c].pc \in EngineCalls ~> conn[c].pc \notin EngineCalls
    /\ \A w \in Updaters : upd[w].st = "want" ~> upd[w].st = "idle"

-----------------------------------------------------------------------------
(* The inductive invariant behind the four (proofs in ProxySessionProofs). *)

Handlers ==
    [pc : PCs, mode : {"http", "https", "tcp", None}, host : Names \cup {None},
     req : Requests(sc) \cup {None}, rule : Nat,
     resp : [kind : {"sized", "chunked", "sse", None}, close : BOOLEAN, set : BOOLEAN,
             replace : BOOLEAN],
     up : Upstreams \cup {None}]

\* A secret is taken from the cache only when it has a value.
EngineInv ==
    /\ sc \in DOMAIN Config /\ env \in Envs
    /\ lock \in [readers : SUBSET Conns, pending : Updaters \cup {None}]
    /\ secret \in [SecretNames(sc) ->
                     [text : STRING, cache : [value : STRING, ok : BOOLEAN, fresh : BOOLEAN]]]
    /\ \A n \in DOMAIN secret : secret[n].cache.ok => secret[n].cache.value # ""

PoolInv ==
    /\ pool \in [{r.host : r \in Config[sc].requests} -> Seq(Upstreams)]
    /\ \A h \in DOMAIN pool :
          /\ Len(pool[h]) <= MaxIdle
          /\ \A i \in DOMAIN pool[h] : /\ pool[h][i].host = h
                                       /\ pool[h][i].left => pool[h][i].swapped

\* The answer's first byte is read, so its rest may be unread.
Answering(c) == \/ conn[c].pc \in {"onresp", "after", "write"}
                \/ conn[c].pc = "hook" /\ Phase(c) = "after"

\* A handler's host: an HTTPS or TCP one has the host it was accepted for, a
\* request the host it names.
HostInv(c) ==
    LET x == conn[c]
    IN  /\ x.pc \in {"check", "connect"} => x.host \in Names /\ x.mode \in {"https", "tcp"}
        /\ x.pc \in Requesting \cup {"read"} => x.mode \in {"http", "https"}
        /\ x.pc \in Requesting \cup {"read"} /\ x.mode = "https" =>
              x.up # None /\ x.up.host = x.host /\ x.host \in Names
        /\ x.pc \in Requesting => x.req # None /\ x.req.host = x.host /\ x.host \in Names
        /\ x.pc \in Requesting /\ x.mode = "http" => x.host \in DOMAIN pool
        /\ x.pc = "dial" => x.mode = "http"
        /\ Answering(c) \/ x.pc \in {"send", "sent"} => x.up # None /\ x.up.host = x.host
        /\ x.pc \in {"before", "hook", "after"} => x.rule # 0
        /\ x.pc = "hook" => Phase(c) \in {"before", "after"}

\* What has been allowed so far, and what would be by the policy in force.
AllowedInv(c) ==
    LET x == conn[c]
    IN  /\ x.pc \in {"check", "host"} /\ IsHostAllowed(policy, x.host) => okay[c].host
        /\ x.pc \in (Requesting \ {"host"}) \cup {"connect", "copy"} => okay[c].host
        /\ x.pc \in Requesting \cup {"read"} /\ x.mode = "https" => okay[c].host
        /\ x.pc \in {"host", "onreq"} /\ pathAllowed(policy, x.host, x.req.path)
              => okay[c].path
        /\ x.pc \in Requesting \ {"host", "onreq"} => okay[c].path

\* What is unread of the last answer and what the request carries.
CarriedInv(c) ==
    LET x == conn[c]
    IN  /\ x.pc \in {"dial", "send", "sent"} => InScope(x.req)
        /\ x.pc \in Requesting \cup {"read"} /\ ~Answering(c) /\ x.up # None /\ x.up.left
              => x.up.swapped
        /\ x.pc = "write" /\ x.resp.kind = "sized" /\ x.up.left
              /\ (x.resp.set \/ x.resp.replace) => x.up.swapped

ProxyInv ==
    /\ EngineInv /\ PoolInv
    /\ conn \in [Conns -> Handlers]
    /\ okay \in [Conns -> [host : BOOLEAN, path : BOOLEAN]]
    /\ lock.readers = InEngine
    /\ \A c \in Conns : HostInv(c) /\ AllowedInv(c) /\ CarriedInv(c)
=============================================================================
