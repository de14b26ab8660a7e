------------------------------ MODULE HTTPProxy ------------------------------
(***************************************************************************)
(* TransparentProxy and HTTPInterceptor: one handler per connection the    *)
(* guest opens, each in a loop of read, check, forward, answer; the pool   *)
(* of idle upstream connections the HTTP handlers share; and the SDK       *)
(* callbacks that rules may call.  Upstream servers and the guest are      *)
(* environment: they answer, send and close when they like.                *)
(***************************************************************************)
EXTENDS PolicyEngine

CONSTANT MaxIdle  \* maxIdleConnsPerHost

ASSUME ProxyBounds ==
    /\ MaxIdle \in Nat \ {0}
    /\ \A s \in DOMAIN Config : ValidHooks(Config[s].rules)

\* An upstream connection: left says that bytes of an answer's body are unread,
\* swapped that an answer's body was replaced unread by a callback, owed that an
\* interim answer was taken for the final one, which is still to come.
Upstreams == [host : Names, open : BOOLEAN, left : BOOLEAN, swapped : BOOLEAN,
              owed : BOOLEAN, old : BOOLEAN]

ASSUME UpstreamsAssumption == None \notin Upstreams

VARIABLES conn,   \* the handlers
          pool,   \* idle upstream connections by host, oldest first
          proxy,  \* "open" or "closed"
          okay    \* since its request was read (tcp and https: since it was
                  \* accepted), was the handler's host, and its path, allowed?

engineVars == <<sc, env, policy, lock, secret, upd>>
proxyVars == <<conn, pool, proxy, okay>>
netVars == <<engineVars, proxyVars>>

NoResp == [kind |-> None, close |-> FALSE, set |-> FALSE, replace |-> FALSE]

Fresh(host) == [host |-> host, open |-> TRUE, left |-> FALSE, swapped |-> FALSE,
                owed |-> FALSE, old |-> FALSE]

Idle == [pc |-> "new", mode |-> None, host |-> None, req |-> None,
         rule |-> 0, resp |-> NoResp, up |-> None]

IsAt(c, pc) == conn[c].pc = pc
Goto(c, pc) == conn' = [conn EXCEPT ![c].pc = pc]
EndConn(c) == conn' = [conn EXCEPT ![c] = [Idle EXCEPT !.pc = "closed"]]
Forget(c) == okay' = [okay EXCEPT ![c] = [host |-> FALSE, path |-> FALSE]]

\* The error page or an unanswered close: the handler returns either way.
GiveUp(c) == EndConn(c) /\ Forget(c) /\ UNCHANGED <<pool, proxy>>

RuleOf(c) == Rules[conn[c].rule]
Applies(c, phase) == RuleOf(c).phase = phase /\ matches(RuleOf(c), conn[c].req)

-----------------------------------------------------------------------------
(* The listeners.                                                          *)

\* HTTPS and other TCP ports are checked once, on the SNI name or address.
Accept(c) ==
    /\ proxy = "open" /\ IsAt(c, "new")
    /\ \E m \in Config[sc].modes[c], h \in Config[sc].dests :
         /\ conn' = [conn EXCEPT ![c] = [Idle EXCEPT !.mode = m,
                         !.host = IF m = "http" THEN None ELSE h,
                         !.pc = IF m = "http" THEN "read" ELSE "check"]]
         /\ okay' = [okay EXCEPT ![c].host = m # "http" /\ IsHostAllowed(policy, h)]
    /\ UNCHANGED <<pool, proxy, engineVars>>

\* Close waits for the accept loops, not for the handlers.
CloseProxy ==
    /\ proxy = "open" /\ Config[sc].closes
    /\ proxy' = "closed"
    /\ UNCHANGED <<conn, pool, okay, engineVars>>

CheckOnce(c) ==
    /\ IsAt(c, "check") /\ CanRead
    /\ IF IsHostAllowed(policy, conn[c].host)
       THEN Goto(c, "connect") /\ UNCHANGED <<pool, proxy, okay>>
       ELSE GiveUp(c)
    /\ UNCHANGED engineVars

Connect(c) ==
    /\ IsAt(c, "connect")
    /\ \/ /\ conn' = [conn EXCEPT ![c].up = Fresh(conn[c].host),
                        ![c].pc = IF conn[c].mode = "tcp" THEN "copy" ELSE "read"]
          /\ UNCHANGED <<pool, proxy, okay>>
       \/ GiveUp(c)
    /\ UNCHANGED engineVars

\* Either direction ending ends both.
CopyEnds(c) == IsAt(c, "copy") /\ GiveUp(c) /\ UNCHANGED engineVars

-----------------------------------------------------------------------------
(* The request loop of HandleHTTP and HandleHTTPS.                         *)

\* The request line and the headers; the body is read as it is sent.  Over
\* HTTPS the request is for the SNI name, whatever its Host header says.
ReadRequest(c) ==
    /\ IsAt(c, "read") /\ env.left > 0
    /\ \E r \in Config[sc].requests :
         LET h == IF conn[c].mode = "http" THEN r.host ELSE conn[c].host
         IN  /\ conn' = [conn EXCEPT ![c].req = [r EXCEPT !.host = h, !.subst = {}], ![c].host = h,
                            ![c].pc = IF conn[c].mode = "http" THEN "host" ELSE "onreq"]
             /\ okay' = [okay EXCEPT ![c] =
                    [host |-> IF conn[c].mode = "http" THEN IsHostAllowed(policy, h) ELSE @.host,
                     path |-> pathAllowed(policy, h, r.path)]]
    /\ env' = [env EXCEPT !.left = @ - 1]
    /\ UNCHANGED <<sc, pool, proxy, policy, lock, secret, upd>>

GuestCloses(c) == IsAt(c, "read") /\ GiveUp(c) /\ UNCHANGED engineVars

CheckHost(c) ==
    /\ IsAt(c, "host") /\ CanRead
    /\ IF IsHostAllowed(policy, conn[c].host)
       THEN Goto(c, "onreq") /\ UNCHANGED <<pool, proxy, okay>>
       ELSE GiveUp(c)
    /\ UNCHANGED engineVars

\* Mutant of OnRequest: the path is not checked.
OnRequestAnyPath(c) ==
    /\ IsAt(c, "onreq") /\ CanRead
    /\ lock' = RLock(c)
    /\ conn' = [conn EXCEPT ![c].pc = "before", ![c].rule = 1]
    /\ UNCHANGED <<pool, proxy, okay, sc, env, policy, secret, upd>>

\* OnRequest: from here to Secrets or a block, c holds the read lock.
OnRequest(c) ==
    /\ IsAt(c, "onreq") /\ CanRead
    /\ IF pathAllowed(policy, conn[c].host, conn[c].req.path)
       THEN /\ lock' = RLock(c)
            /\ conn' = [conn EXCEPT ![c].pc = "before", ![c].rule = 1]
            /\ UNCHANGED <<pool, proxy, okay>>
       ELSE UNCHANGED lock /\ GiveUp(c)
    /\ UNCHANGED <<sc, env, policy, secret, upd>>

Blocked(c) == GiveUp(c) /\ lock' = RUnlock(c) /\ UNCHANGED <<sc, env, policy, secret, upd>>

NextRule(n) == [n EXCEPT !.rule = @ + 1]
Replace(c, n) == /\ conn' = [conn EXCEPT ![c] = n]
                 /\ UNCHANGED <<pool, proxy, okay, engineVars>>

BeforeRule(c) ==
    /\ IsAt(c, "before") /\ conn[c].rule <= Len(Rules)
    /\ IF ~Applies(c, "before") THEN Replace(c, NextRule(conn[c]))
       ELSE IF RuleOf(c).action = "block" THEN Blocked(c)
       ELSE LET edited == [conn[c] EXCEPT !.req = applyMutations(@, RuleOf(c).edit)]
            IN  Replace(c, IF RuleOf(c).callback THEN [edited EXCEPT !.pc = "hook"]
                           ELSE NextRule(edited))

\* The end of OnRequest: secrets are checked and put in after every rule.
InjectSecrets(c) ==
    /\ IsAt(c, "before") /\ conn[c].rule > Len(Rules)
    /\ LET req == conn[c].req IN
         IF Leaks(req)
         THEN GiveUp(c) /\ secret' \in {secret, CachedAfter(req)}
         ELSE /\ conn' = [conn EXCEPT ![c].req = replaceInRequest(req),
                             ![c].pc = IF conn[c].mode = "http" THEN "dial" ELSE "send"]
              /\ secret' = CachedAfter(req)
              /\ UNCHANGED <<pool, proxy, okay>>
    /\ lock' = RUnlock(c)
    /\ UNCHANGED <<sc, env, policy, upd>>

\* get pops the youngest; when that one is too old, so are all under it.
get(c) ==
    LET h == conn[c].host
        idle == pool[h]
    IN  /\ IsAt(c, "dial")
        /\ IF idle # <<>> /\ ~idle[Len(idle)].old
           THEN /\ pool' = [pool EXCEPT ![h] = SubSeq(idle, 1, Len(idle) - 1)]
                /\ conn' = [conn EXCEPT ![c].up = idle[Len(idle)], ![c].pc = "send"]
                /\ UNCHANGED okay
           ELSE /\ pool' = [pool EXCEPT ![h] = <<>>]
                /\ \/ /\ conn' = [conn EXCEPT ![c].up = Fresh(h), ![c].pc = "send"]
                      /\ UNCHANGED okay
                   \/ EndConn(c) /\ Forget(c)
        /\ UNCHANGED <<proxy, engineVars>>

\* Write copies the body from the guest: either side may end it, or let it wait.
\* A write to a connection the server has closed may still succeed.
SendRequest(c) ==
    /\ IsAt(c, "send")
    /\ \/ Goto(c, "sent") /\ UNCHANGED <<pool, proxy, okay>>
       \/ GiveUp(c)
    /\ UNCHANGED engineVars

\* An answer parses only when the reader stands at its first byte.  An interim
\* one (1xx) is taken like any other: it has no body, and the final answer stays
\* behind it.
ReadResponse(c) ==
    /\ IsAt(c, "sent") /\ conn[c].up.open /\ ~conn[c].up.left
    /\ \E r \in Config[sc].responses :
         LET interim == r.kind = "interim"
         IN  conn' = [conn EXCEPT ![c].resp = [NoResp EXCEPT !.kind = IF interim THEN "sized" ELSE r.kind,
                                                             !.close = r.close],
                                  ![c].up = [conn[c].up EXCEPT !.left = ~interim, !.owed = @ \/ interim],
                                  ![c].pc = "onresp"]
    /\ UNCHANGED <<pool, proxy, okay, engineVars>>

ResponseFails(c) ==
    /\ IsAt(c, "sent") /\ (~conn[c].up.open \/ conn[c].up.left)
    /\ GiveUp(c) /\ UNCHANGED engineVars

OnResponse(c) ==
    /\ IsAt(c, "onresp") /\ CanRead
    /\ lock' = RLock(c)
    /\ conn' = [conn EXCEPT ![c].pc = "after", ![c].rule = 1]
    /\ UNCHANGED <<pool, proxy, okay, sc, env, policy, secret, upd>>

AfterRule(c) ==
    /\ IsAt(c, "after") /\ conn[c].rule <= Len(Rules)
    /\ IF ~Applies(c, "after") THEN Replace(c, NextRule(conn[c]))
       ELSE IF RuleOf(c).action = "block" THEN Blocked(c)
       ELSE LET edited == [conn[c] EXCEPT !.resp.replace = @ \/ RuleOf(c).replace]
            IN  Replace(c, IF RuleOf(c).callback THEN [edited EXCEPT !.pc = "hook"]
                           ELSE NextRule(edited))

\* Mutant of RewriteBody: replacements are applied to the first part of the
\* body that happens to be there.
RewriteFirstPart(c) ==
    /\ IsAt(c, "after") /\ conn[c].rule > Len(Rules)
    /\ LET r == conn[c].resp
           whole == r.replace /\ ~r.set /\ r.kind # "sse"
           kind == IF r.kind = "chunked" /\ (r.set \/ whole) THEN "sized" ELSE r.kind
       IN  conn' = [conn EXCEPT ![c].pc = "write", ![c].resp.kind = kind,
                                ![c].up.swapped = @ \/ r.set]
    /\ lock' = RUnlock(c)
    /\ UNCHANGED <<pool, proxy, okay, sc, env, policy, secret, upd>>

\* The end of OnResponse.  A new body leaves the old one unread; replacements
\* read it to its end, except that an event stream is rewritten line by line.
RewriteBody(c) ==
    /\ IsAt(c, "after") /\ conn[c].rule > Len(Rules)
    /\ LET r == conn[c].resp
           whole == r.replace /\ ~r.set /\ r.kind # "sse"
           kind == IF r.kind = "chunked" /\ (r.set \/ whole) THEN "sized" ELSE r.kind
           up == [conn[c].up EXCEPT !.left = @ /\ ~whole, !.swapped = @ \/ r.set]
       IN  \/ /\ conn' = [conn EXCEPT ![c].pc = "write", ![c].resp = [r EXCEPT !.kind = kind],
                                      ![c].up = up]
              /\ UNCHANGED <<pool, proxy, okay>>
           \/ whole /\ ~conn[c].up.open /\ GiveUp(c)
    /\ lock' = RUnlock(c)
    /\ UNCHANGED <<sc, env, policy, secret, upd>>

\* Mutant of put: one connection too many.
putOneMore(u) == IF Len(pool[u.host]) > MaxIdle THEN pool
                 ELSE [pool EXCEPT ![u.host] = Append(@, [u EXCEPT !.old = FALSE])]

\* put keeps at most MaxIdle connections of a host.
put(u) == IF Len(pool[u.host]) >= MaxIdle THEN pool
          ELSE [pool EXCEPT ![u.host] = Append(@, [u EXCEPT !.old = FALSE])]

\* Closing the body reads what is left of it, unless the body is a new one.
AfterWrite(c) == [conn[c].up EXCEPT !.left = @ /\ (conn[c].resp.set \/ conn[c].resp.replace)]

WriteResponse(c) ==
    /\ IsAt(c, "write") /\ conn[c].resp.kind = "sized"
    /\ IF conn[c].req.close \/ conn[c].resp.close
       THEN GiveUp(c)
       ELSE /\ conn' = [conn EXCEPT ![c].pc = "read", ![c].req = None, ![c].rule = 0,
                           ![c].resp = NoResp,
                           ![c].host = IF conn[c].mode = "http" THEN None ELSE @,
                           ![c].up = IF conn[c].mode = "http" THEN None ELSE AfterWrite(c)]
            /\ pool' = IF conn[c].mode = "http" THEN put(AfterWrite(c)) ELSE pool
            /\ okay' = [okay EXCEPT ![c] = [host |-> @.host /\ conn[c].mode = "https",
                                            path |-> FALSE]]
            /\ UNCHANGED proxy
    /\ UNCHANGED engineVars

\* A streamed answer ends both connections; so does a failed write or read.
WriteEnds(c) == IsAt(c, "write") /\ GiveUp(c) /\ UNCHANGED engineVars

-----------------------------------------------------------------------------
(* SDK callbacks: unixNetworkHookInvoker and serveNetworkHookConn.         *)

Phase(c) == RuleOf(c).phase

HookReturns(c, n) == Replace(c, [n EXCEPT !.pc = Phase(c), !.rule = @ + 1])

\* What the callback answers; an error of any kind is no answer.
HookAnswers(c) ==
    /\ IsAt(c, "hook") /\ env.owner # c
    /\ \E res \in Config[sc].results :
         IF callbackAction(res, Phase(c)) = "block" THEN Blocked(c)
         ELSE IF res.action = "error" \/ ~HasMutation(res, Phase(c)) THEN HookReturns(c, conn[c])
         ELSE HookReturns(c, IF Phase(c) = "before"
                             THEN [conn[c] EXCEPT !.req = applyMutations(@, res.edit)]
                             ELSE [conn[c] EXCEPT !.resp.set = @ \/ res.set,
                                                  !.resp.replace = @ \/ res.replace])

\* The callback itself changes the allow list and waits for the answer, which
\* cannot come while c reads under the lock: only the timeout ends the wait.
HookUpdates(c) ==
    /\ IsAt(c, "hook") /\ env.hookOp # None /\ upd["callback"].st = "idle"
    /\ upd' = [upd EXCEPT !["callback"] = [st |-> "want", op |-> env.hookOp]]
    /\ env' = [env EXCEPT !.owner = c, !.hookOp = None]
    /\ UNCHANGED <<sc, policy, lock, secret, proxyVars>>

\* Mutant of HookTimesOut: the deadline is not put on the connection.
HookTimesOutNever(c) == IsAt(c, "hook") /\ FALSE /\ UNCHANGED netVars

\* timeout_ms: the invoker stops waiting, the callback goes on.
HookTimesOut(c) ==
    /\ IsAt(c, "hook") /\ RuleOf(c).timeout
    /\ conn' = [conn EXCEPT ![c].pc = Phase(c), ![c].rule = @ + 1]
    /\ env' = [env EXCEPT !.owner = IF @ = c THEN None ELSE @]
    /\ UNCHANGED <<sc, pool, proxy, okay, policy, lock, secret, upd>>

-----------------------------------------------------------------------------
(* Servers close connections; idle ones grow old and are reaped.           *)

ServerCloses(c) ==
    /\ conn[c].up # None /\ conn[c].up.open /\ env.drops > 0
    /\ conn' = [conn EXCEPT ![c].up.open = FALSE]
    /\ env' = [env EXCEPT !.drops = @ - 1]
    /\ UNCHANGED <<sc, pool, proxy, okay, policy, lock, secret, upd>>

ServerClosesIdle(h, i) ==
    /\ i \in DOMAIN pool[h] /\ pool[h][i].open /\ env.drops > 0
    /\ pool' = [pool EXCEPT ![h][i].open = FALSE]
    /\ env' = [env EXCEPT !.drops = @ - 1]
    /\ UNCHANGED <<sc, conn, proxy, okay, policy, lock, secret, upd>>

IdleTooLong(h) ==
    /\ \E i \in DOMAIN pool[h] :
         /\ ~pool[h][i].old /\ \A j \in 1..i - 1 : pool[h][j].old
         /\ pool' = [pool EXCEPT ![h][i].old = TRUE]
    /\ UNCHANGED <<conn, proxy, okay, engineVars>>

\* Idle times ascend, so the connections that are too old come first.
Alive(idle) == SubSeq(idle, 1 + Cardinality({i \in DOMAIN idle : idle[i].old}), Len(idle))

reapLoop ==
    /\ \E h \in DOMAIN pool : \E i \in DOMAIN pool[h] : pool[h][i].old
    /\ pool' = [h \in DOMAIN pool |-> Alive(pool[h])]
    /\ UNCHANGED <<conn, proxy, okay, engineVars>>
=============================================================================
