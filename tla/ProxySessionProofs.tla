------------------------- MODULE ProxySessionProofs -------------------------
(* The properties of ProxySession for any number of connections, any         *)
(* configuration and any limit of the pool: ProxyInv is inductive.           *)
EXTENDS ProxySession, FiniteSetTheorems, SequenceTheorems, TLAPS

-----------------------------------------------------------------------------
(* What the invariant says of one handler.                                   *)
LEMMA AboutC ==
  ASSUME ProxyInv, NEW c \in Conns
  PROVE  /\ conn[c] \in Handlers /\ okay[c] \in [host : BOOLEAN, path : BOOLEAN]
         /\ HostInv(c) /\ AllowedInv(c) /\ CarriedInv(c) /\ EngineInv /\ PoolInv
         /\ c \in lock.readers <=> conn[c].pc \in {"before", "hook", "after"}
         /\ lock.readers \subseteq Conns
BY DEF ProxyInv, InEngine

(* The hosts of requests are names.                                          *)
LEMMA HostsAreNames ==
  ASSUME EngineInv, PoolInv
  PROVE  DOMAIN pool \subseteq Names /\ None \notin Names
<1>1. DOMAIN pool = {r.host : r \in Config[sc].requests} /\ sc \in DOMAIN Config
  BY DEF EngineInv, PoolInv
<1>2. Config[sc].requests \subseteq Requests(sc) /\ None \notin Names
  BY <1>1, ConfigAssumption
<1>3. \A r \in Requests(sc) : r.host \in Names
  BY DEF Requests
<1> QED
  BY <1>1, <1>2, <1>3

(* A step of handler c: it is enough to look at c.                           *)
LEMMA HandlerStep ==
  ASSUME ProxyInv, NEW c \in Conns, NEW STATE n, n \in Handlers,
         conn' = [conn EXCEPT ![c] = n],
         NEW STATE o, o \in [host : BOOLEAN, path : BOOLEAN], okay' = [okay EXCEPT ![c] = o],
         UNCHANGED <<sc, policy>>, EngineInv', PoolInv',
         n.pc \in {"before", "hook", "after"} => lock'.readers = lock.readers \cup {c},
         n.pc \notin {"before", "hook", "after"} => lock'.readers = lock.readers \ {c},
         conn'[c] = n /\ okay'[c] = o /\ DOMAIN pool' = DOMAIN pool
            => HostInv(c)' /\ AllowedInv(c)' /\ CarriedInv(c)'
  PROVE  ProxyInv'
<1>0. conn \in [Conns -> Handlers] /\ okay \in [Conns -> [host : BOOLEAN, path : BOOLEAN]]
  BY DEF ProxyInv
<1>1. /\ Handlers' = Handlers /\ DOMAIN pool' = DOMAIN pool
  BY DEF Handlers, ProxyInv, PoolInv
<1>2. /\ conn' \in [Conns -> Handlers] /\ conn'[c] = n
      /\ \A d \in Conns \ {c} : conn'[d] = conn[d]
  <2> HIDE DEF Handlers
  <2> QED
    BY <1>0
<1>3. /\ okay' \in [Conns -> [host : BOOLEAN, path : BOOLEAN]] /\ okay'[c] = o
      /\ \A d \in Conns \ {c} : okay'[d] = okay[d]
  BY <1>0
<1>4. ASSUME NEW d \in Conns \ {c}
      PROVE  HostInv(d)' /\ AllowedInv(d)' /\ CarriedInv(d)'
  <2>1. conn'[d] = conn[d] /\ okay'[d] = okay[d] /\ HostInv(d) /\ AllowedInv(d) /\ CarriedInv(d)
    BY <1>2, <1>3, AboutC
  <2>2. Phase(d)' = Phase(d) /\ Answering(d)' = Answering(d)
    BY <2>1 DEF Phase, RuleOf, Rules, Answering
  <2>3. HostInv(d)'
    BY <1>1, <2>1, <2>2 DEF HostInv
  <2>4. AllowedInv(d)'
    BY <2>1 DEF AllowedInv, IsHostAllowed
  <2>5. CarriedInv(d)'
    BY <2>1, <2>2 DEF CarriedInv, InScope, isSecretAllowedForHost, Secrets
  <2> QED
    BY <2>3, <2>4, <2>5
<1>5. lock'.readers = InEngine'
  BY <1>2 DEF ProxyInv, InEngine
<1> QED
  BY <1>1, <1>2, <1>3, <1>4, <1>5 DEF ProxyInv

(* A step that leaves the handlers, their history and the policy alone.      *)
LEMMA SharedStep ==
  ASSUME ProxyInv, UNCHANGED <<sc, policy, conn, okay>>, lock'.readers = lock.readers,
         EngineInv', PoolInv'
  PROVE  ProxyInv'
<1>1. Handlers' = Handlers /\ DOMAIN pool' = DOMAIN pool
  BY DEF Handlers, ProxyInv, PoolInv
<1>4. ASSUME NEW d \in Conns
      PROVE  HostInv(d)' /\ AllowedInv(d)' /\ CarriedInv(d)'
  <2>1. conn'[d] = conn[d] /\ okay'[d] = okay[d] /\ HostInv(d) /\ AllowedInv(d) /\ CarriedInv(d)
    BY AboutC
  <2>2. Phase(d)' = Phase(d) /\ Answering(d)' = Answering(d)
    BY <2>1 DEF Phase, RuleOf, Rules, Answering
  <2>3. HostInv(d)'
    BY <1>1, <2>1, <2>2 DEF HostInv
  <2>4. AllowedInv(d)'
    BY <2>1 DEF AllowedInv, IsHostAllowed
  <2>5. CarriedInv(d)'
    BY <2>1, <2>2 DEF CarriedInv, InScope, isSecretAllowedForHost, Secrets
  <2> QED
    BY <2>3, <2>4, <2>5
<1>5. lock'.readers = InEngine'
  BY DEF ProxyInv, InEngine
<1> QED
  BY <1>1, <1>4, <1>5 DEF ProxyInv

(* The engine and the pool where a step leaves them alone.                   *)
LEMMA EngineKept ==
  ASSUME ProxyInv, UNCHANGED <<sc, env, secret>>,
         lock' = lock \/ \E c \in Conns : lock' \in {RLock(c), RUnlock(c)}
  PROVE  EngineInv'
<1>1. EngineInv
  BY DEF ProxyInv
<1>2. lock' \in [readers : SUBSET Conns, pending : Updaters \cup {None}]
  <2>1. lock \in [readers : SUBSET Conns, pending : Updaters \cup {None}]
    BY <1>1 DEF EngineInv
  <2>2. ASSUME NEW c \in Conns
        PROVE  {RLock(c), RUnlock(c)}
                  \subseteq [readers : SUBSET Conns, pending : Updaters \cup {None}]
    BY <2>1 DEF RLock, RUnlock
  <2> QED
    BY <2>1, <2>2
<1> QED
  BY <1>1, <1>2 DEF EngineInv

LEMMA PoolKept ==
  ASSUME ProxyInv, UNCHANGED <<sc, pool>>
  PROVE  PoolInv'
BY DEF ProxyInv, PoolInv

(* The handler gives up.                                                     *)
LEMMA GiveUpStep ==
  ASSUME ProxyInv, NEW c \in Conns, EndConn(c), Forget(c), UNCHANGED <<sc, policy>>,
         EngineInv', PoolInv', lock'.readers = lock.readers \ {c}
  PROVE  ProxyInv'
<1> DEFINE n == [Idle EXCEPT !.pc = "closed"]
           o == [host |-> FALSE, path |-> FALSE]
<1>1. n \in Handlers /\ n.pc = "closed" /\ o \in [host : BOOLEAN, path : BOOLEAN]
  BY DEF Idle, NoResp, Handlers, PCs
<1>2. conn' = [conn EXCEPT ![c] = n] /\ okay' = [okay EXCEPT ![c] = o]
  BY DEF EndConn, Forget
<1> HIDE DEF n, o
<1>3. ASSUME conn'[c] = n
      PROVE  HostInv(c)' /\ AllowedInv(c)' /\ CarriedInv(c)'
  BY <1>1, <1>3 DEF HostInv, AllowedInv, CarriedInv, Answering, Requesting
<1> QED
  BY <1>1, <1>2, <1>3, HandlerStep

(* The usual one: outside the engine, or with its lock released.             *)
LEMMA GivesUp ==
  ASSUME ProxyInv, NEW c \in Conns, GiveUp(c), UNCHANGED <<sc, env, policy, secret>>,
         lock' = RUnlock(c) \/ (lock' = lock /\ conn[c].pc \notin {"before", "hook", "after"})
  PROVE  ProxyInv'
<1>1. EngineInv'
  BY EngineKept
<1>2. EndConn(c) /\ Forget(c) /\ UNCHANGED pool
  BY DEF GiveUp
<1>3. PoolInv'
  BY <1>2, PoolKept
<1>4. lock'.readers = lock.readers \ {c}
  <2>1. EngineInv /\ (c \in lock.readers <=> conn[c].pc \in {"before", "hook", "after"})
    BY AboutC
  <2> QED
    BY <2>1 DEF RUnlock, EngineInv
<1> QED
  BY <1>1, <1>2, <1>3, <1>4, GiveUpStep

-----------------------------------------------------------------------------
(* A handler moves on, with okay as it is.                                   *)
LEMMA MovesWith ==
  ASSUME ProxyInv, NEW c \in Conns, NEW STATE n, n \in Handlers,
         conn' = [conn EXCEPT ![c] = n], UNCHANGED <<okay, sc, policy>>,
         EngineInv', PoolInv',
         \/ lock' = lock /\ (n.pc \in {"before", "hook", "after"}
                               <=> conn[c].pc \in {"before", "hook", "after"})
         \/ lock' = RLock(c) /\ n.pc \in {"before", "hook", "after"}
         \/ lock' = RUnlock(c) /\ n.pc \notin {"before", "hook", "after"},
         conn'[c] = n /\ okay'[c] = okay[c] /\ DOMAIN pool' = DOMAIN pool
            => HostInv(c)' /\ AllowedInv(c)' /\ CarriedInv(c)'
  PROVE  ProxyInv'
<1>2. /\ okay[c] \in [host : BOOLEAN, path : BOOLEAN] /\ EngineInv
      /\ c \in lock.readers <=> conn[c].pc \in {"before", "hook", "after"}
  BY AboutC
<1>3. okay' = [okay EXCEPT ![c] = okay[c]]
  BY DEF ProxyInv
<1>4. /\ n.pc \in {"before", "hook", "after"} => lock'.readers = lock.readers \cup {c}
      /\ n.pc \notin {"before", "hook", "after"} => lock'.readers = lock.readers \ {c}
  <2>1. lock \in [readers : SUBSET Conns, pending : Updaters \cup {None}]
    BY <1>2 DEF EngineInv
  <2>2. CASE /\ lock' = lock
             /\ n.pc \in {"before", "hook", "after"}
                  <=> conn[c].pc \in {"before", "hook", "after"}
    <3>1. c \in lock.readers <=> n.pc \in {"before", "hook", "after"}
      BY <1>2, <2>2
    <3> QED
      BY <2>2, <3>1
  <2>3. CASE lock' = RLock(c) /\ n.pc \in {"before", "hook", "after"}
    BY <2>1, <2>3 DEF RLock
  <2>4. CASE lock' = RUnlock(c) /\ n.pc \notin {"before", "hook", "after"}
    BY <2>1, <2>4 DEF RUnlock
  <2> QED
    BY <2>2, <2>3, <2>4
<1> QED
  BY <1>2, <1>3, <1>4, HandlerStep

LEMMA MovesOn ==
  ASSUME ProxyInv, NEW c \in Conns, NEW STATE n, n \in Handlers,
         conn' = [conn EXCEPT ![c] = n], UNCHANGED <<pool, okay, sc, env, policy, secret>>,
         \/ lock' = lock /\ (n.pc \in {"before", "hook", "after"}
                               <=> conn[c].pc \in {"before", "hook", "after"})
         \/ lock' = RLock(c) /\ n.pc \in {"before", "hook", "after"}
         \/ lock' = RUnlock(c) /\ n.pc \notin {"before", "hook", "after"},
         conn'[c] = n /\ okay'[c] = okay[c] /\ DOMAIN pool' = DOMAIN pool
            => HostInv(c)' /\ AllowedInv(c)' /\ CarriedInv(c)'
  PROVE  ProxyInv'
<1>1. EngineInv' /\ PoolInv'
  BY EngineKept, PoolKept
<1> QED
  BY <1>1, MovesWith

-----------------------------------------------------------------------------
(* The listeners.                                                            *)
LEMMA AcceptStep ==
  ASSUME ProxyInv, NEW c \in Conns, Accept(c)
  PROVE  ProxyInv'
<1>0. /\ okay[c] \in [host : BOOLEAN, path : BOOLEAN] /\ EngineInv
      /\ c \notin lock.readers /\ okay \in [Conns -> [host : BOOLEAN, path : BOOLEAN]]
  BY AboutC DEF Accept, IsAt, ProxyInv
<1>1. PICK m \in Config[sc].modes[c], h \in Config[sc].dests :
        /\ conn' = [conn EXCEPT ![c] = [Idle EXCEPT !.mode = m,
                        !.host = IF m = "http" THEN None ELSE h,
                        !.pc = IF m = "http" THEN "read" ELSE "check"]]
        /\ okay' = [okay EXCEPT ![c].host = m # "http" /\ IsHostAllowed(policy, h)]
  BY DEF Accept
<1>2. UNCHANGED <<pool, sc, env, policy, lock, secret>>
  BY DEF Accept, engineVars
<1>3. m \in {"http", "https", "tcp"} /\ h \in Names
  <2>1. sc \in DOMAIN Config
    BY <1>0 DEF EngineInv
  <2> QED
    BY <2>1, ConfigAssumption
<1> DEFINE host == IF m = "http" THEN None ELSE h
           pc == IF m = "http" THEN "read" ELSE "check"
           yes == m # "http" /\ IsHostAllowed(policy, h)
           n == [Idle EXCEPT !.mode = m, !.host = host, !.pc = pc]
           o == [okay[c] EXCEPT !.host = yes]
<1>4. /\ host \in Names \cup {None} /\ pc \in PCs /\ yes \in BOOLEAN
      /\ pc \notin {"before", "hook", "after"}
  BY <1>3 DEF PCs
<1>5. conn' = [conn EXCEPT ![c] = n] /\ okay' = [okay EXCEPT ![c] = o]
  BY <1>0, <1>1
<1>7. Idle \in Handlers /\ Idle.up = None
  BY DEF Idle, Handlers, PCs, NoResp
<1> HIDE DEF host, pc, yes, Idle
<1>8. n \in Handlers /\ n.mode = m /\ n.host = host /\ n.pc = pc /\ n.up = None
  BY <1>3, <1>4, <1>7 DEF Handlers
<1>9. o \in [host : BOOLEAN, path : BOOLEAN] /\ o.host = yes
  BY <1>0, <1>4
<1> HIDE DEF n, o
<1>10. ASSUME conn'[c] = n, okay'[c] = o
       PROVE  HostInv(c)' /\ AllowedInv(c)' /\ CarriedInv(c)'
  <2>2. HostInv(c)'
    BY <1>3, <1>8, <1>10 DEF HostInv, Answering, Requesting, pc, host
  <2>3. AllowedInv(c)'
    BY <1>2, <1>3, <1>8, <1>9, <1>10
    DEF AllowedInv, Requesting, pc, host, yes, IsHostAllowed
  <2>4. CarriedInv(c)'
    BY <1>8, <1>10 DEF CarriedInv, Answering, Requesting, pc
  <2> QED
    BY <2>2, <2>3, <2>4
<1>11. EngineInv' /\ PoolInv' /\ lock'.readers = lock.readers \ {c}
  BY <1>0, <1>2, EngineKept, PoolKept
<1> QED
  BY <1>2, <1>4, <1>5, <1>8, <1>9, <1>10, <1>11, HandlerStep

LEMMA CheckOnceStep ==
  ASSUME ProxyInv, NEW c \in Conns, CheckOnce(c)
  PROVE  ProxyInv'
<1>0. conn[c] \in Handlers /\ HostInv(c) /\ AllowedInv(c) /\ CarriedInv(c)
  BY AboutC
<1> DEFINE n == [conn[c] EXCEPT !.pc = "connect"]
<1>1. /\ conn[c].pc = "check" /\ UNCHANGED <<sc, env, policy, lock, secret>>
      /\ \/ GiveUp(c)
         \/ /\ IsHostAllowed(policy, conn[c].host) /\ conn' = [conn EXCEPT ![c].pc = "connect"]
            /\ UNCHANGED <<pool, okay>>
  BY DEF CheckOnce, IsAt, engineVars, Goto
<1>2. CASE GiveUp(c)
  BY <1>1, <1>2, GivesUp
<1>3. CASE /\ IsHostAllowed(policy, conn[c].host) /\ conn' = [conn EXCEPT ![c].pc = "connect"]
           /\ UNCHANGED <<pool, okay>>
  <2>1. conn' = [conn EXCEPT ![c] = n]
    BY <1>3 DEF ProxyInv
  <2>2. n \in Handlers /\ n.pc = "connect" /\ n.host = conn[c].host /\ n.mode = conn[c].mode
    BY <1>0 DEF Handlers, PCs
  <2> HIDE DEF n
  <2>3. ASSUME conn'[c] = n, okay'[c] = okay[c]
        PROVE  HostInv(c)' /\ AllowedInv(c)' /\ CarriedInv(c)'
    BY <1>0, <1>1, <1>3, <2>2, <2>3
    DEF HostInv, AllowedInv, CarriedInv, Answering, Requesting
  <2> QED
    BY <1>1, <1>3, <2>1, <2>2, <2>3, MovesOn
<1> QED
  BY <1>1, <1>2, <1>3

LEMMA ConnectStep ==
  ASSUME ProxyInv, NEW c \in Conns, Connect(c)
  PROVE  ProxyInv'
<1>0. conn[c] \in Handlers /\ HostInv(c) /\ AllowedInv(c)
  BY AboutC
<1> DEFINE pc == IF conn[c].mode = "tcp" THEN "copy" ELSE "read"
           up == Fresh(conn[c].host)
           n == [conn[c] EXCEPT !.up = up, !.pc = pc]
<1>1. /\ conn[c].pc = "connect" /\ UNCHANGED <<sc, env, policy, lock, secret>>
      /\ \/ GiveUp(c)
         \/ conn' = [conn EXCEPT ![c].up = up, ![c].pc = pc] /\ UNCHANGED <<pool, okay>>
  BY DEF Connect, IsAt, engineVars
<1>2. CASE GiveUp(c)
  BY <1>1, <1>2, GivesUp
<1>3. CASE conn' = [conn EXCEPT ![c].up = up, ![c].pc = pc] /\ UNCHANGED <<pool, okay>>
  <2>1. conn' = [conn EXCEPT ![c] = n]
    BY <1>3 DEF ProxyInv
  <2>2. /\ conn[c].host \in Names /\ conn[c].mode \in {"https", "tcp"}
        /\ okay[c].host
    BY <1>0, <1>1 DEF HostInv, AllowedInv
  <2>3. /\ pc \in PCs /\ pc \in {"copy", "read"} /\ (conn[c].mode = "tcp" => pc = "copy")
        /\ up \in Upstreams /\ up.host = conn[c].host /\ ~up.left
    BY <2>2 DEF PCs, Fresh, Upstreams
  <2>6. up # None
    BY <2>3, UpstreamsAssumption
  <2> HIDE DEF pc, up
  <2>4. n \in Handlers /\ n.pc = pc /\ n.host = conn[c].host /\ n.mode = conn[c].mode /\ n.up = up
    BY <1>0, <2>3 DEF Handlers
  <2> HIDE DEF n
  <2>5. ASSUME conn'[c] = n, okay'[c] = okay[c]
        PROVE  HostInv(c)' /\ AllowedInv(c)' /\ CarriedInv(c)'
    BY <2>2, <2>3, <2>4, <2>5, <2>6
    DEF HostInv, AllowedInv, CarriedInv, Answering, Requesting
  <2> QED
    BY <1>1, <1>3, <2>1, <2>3, <2>4, <2>5, MovesOn
<1> QED
  BY <1>1, <1>2, <1>3

-----------------------------------------------------------------------------
(* The request loop.                                                         *)
LEMMA ReadRequestStep ==
  ASSUME ProxyInv, NEW c \in Conns, ReadRequest(c)
  PROVE  ProxyInv'
<1>0. /\ conn[c] \in Handlers /\ HostInv(c) /\ AllowedInv(c) /\ CarriedInv(c)
      /\ okay[c] \in [host : BOOLEAN, path : BOOLEAN] /\ EngineInv /\ PoolInv
      /\ (c \in lock.readers <=> conn[c].pc \in {"before", "hook", "after"})
  BY AboutC
<1>1. PICK r \in Config[sc].requests :
         LET h == IF conn[c].mode = "http" THEN r.host ELSE conn[c].host
         IN  /\ conn' = [conn EXCEPT ![c].req = [r EXCEPT !.host = h, !.subst = {}], ![c].host = h,
                            ![c].pc = IF conn[c].mode = "http" THEN "host" ELSE "onreq"]
             /\ okay' = [okay EXCEPT ![c] =
                    [host |-> IF conn[c].mode = "http" THEN IsHostAllowed(policy, h) ELSE @.host,
                     path |-> pathAllowed(policy, h, r.path)]]
  BY DEF ReadRequest
<1>2. /\ conn[c].pc = "read" /\ env.left > 0 /\ env' = [env EXCEPT !.left = @ - 1]
      /\ UNCHANGED <<sc, pool, policy, lock, secret>>
  BY DEF ReadRequest, IsAt
<1> DEFINE h == IF conn[c].mode = "http" THEN r.host ELSE conn[c].host
           q == [r EXCEPT !.host = h, !.subst = {}]
           pc == IF conn[c].mode = "http" THEN "host" ELSE "onreq"
           yes == IF conn[c].mode = "http" THEN IsHostAllowed(policy, h) ELSE okay[c].host
           fits == pathAllowed(policy, h, r.path)
           n == [conn[c] EXCEPT !.req = q, !.host = h, !.pc = pc]
           o == [host |-> yes, path |-> fits]
<1>3. conn' = [conn EXCEPT ![c] = n] /\ okay' = [okay EXCEPT ![c] = o]
  BY <1>1 DEF ProxyInv
<1>4. r \in Requests(sc) /\ None \notin Requests(sc) /\ r.host \in DOMAIN pool
  <2>1. r \in Requests(sc) /\ None \notin Requests(sc)
    BY <1>0, ConfigAssumption DEF EngineInv
  <2>2. DOMAIN pool = {x.host : x \in Config[sc].requests}
    BY <1>0 DEF PoolInv
  <2> QED
    BY <2>1, <2>2
<1>5. /\ h \in Names /\ (conn[c].mode = "http" => h \in DOMAIN pool)
      /\ conn[c].mode # "http" => h = conn[c].host
  <2>1. r.host \in Names
    BY <1>4 DEF Requests
  <2> QED
    BY <1>0, <1>2, <1>4, <2>1 DEF HostInv
<1> HIDE DEF h
<1>5a. q \in Requests(sc) /\ q.host = h /\ q.path = r.path
  BY <1>4, <1>5 DEF Requests
<1>6. pc \in PCs /\ (conn[c].mode = "http" => pc = "host") /\ (conn[c].mode # "http" => pc = "onreq")
  BY DEF PCs, Requesting
<1>7. yes \in BOOLEAN /\ fits \in BOOLEAN
  BY <1>0 DEF IsHostAllowed, pathAllowed
<1>8. o \in [host : BOOLEAN, path : BOOLEAN] /\ o.host = yes /\ o.path = fits
  BY <1>7
<1> HIDE DEF q, pc, yes, fits
<1>9. /\ n \in Handlers /\ n.req = q /\ n.host = h /\ n.pc = pc
      /\ n.mode = conn[c].mode /\ n.up = conn[c].up
  BY <1>0, <1>5, <1>5a, <1>6 DEF Handlers
<1> HIDE DEF n, o
<1>10. ASSUME conn'[c] = n, okay'[c] = o, DOMAIN pool' = DOMAIN pool
       PROVE  HostInv(c)' /\ AllowedInv(c)' /\ CarriedInv(c)'
  <2>1. HostInv(c)'
    BY <1>0, <1>2, <1>4, <1>5, <1>5a, <1>6, <1>9, <1>10 DEF HostInv, Answering, Requesting
  <2>2. conn[c].mode \in {"http", "https"} /\ (conn[c].mode = "https" => okay[c].host)
    BY <1>0, <1>2 DEF HostInv, AllowedInv
  <2>3. AllowedInv(c)'
    <3>1. IsHostAllowed(policy', h) => IsHostAllowed(policy, h)
      BY <1>2
    <3> QED
      BY <1>2, <1>5, <1>5a, <1>6, <1>8, <1>9, <1>10, <2>2, <3>1
      DEF AllowedInv, Requesting, yes, fits, IsHostAllowed
  <2>4. CarriedInv(c)'
    BY <1>0, <1>2, <1>6, <1>9, <1>10 DEF CarriedInv, Answering, Requesting
  <2> QED
    BY <2>1, <2>3, <2>4
<1>11. EngineInv'
  <2>1. env \in Envs
    BY <1>0 DEF EngineInv
  <2>2. env' \in Envs
    <3>1. env.left - 1 \in Nat
      BY <1>2, <2>1 DEF Envs
    <3> QED
      BY <1>2, <2>1, <3>1 DEF Envs
  <2> QED
    BY <1>0, <1>2, <2>2 DEF EngineInv
<1>12. PoolInv' /\ lock'.readers = lock.readers \ {c}
  BY <1>0, <1>2, PoolKept
<1> QED
  BY <1>2, <1>3, <1>6, <1>8, <1>9, <1>10, <1>11, <1>12, HandlerStep

LEMMA CheckHostStep ==
  ASSUME ProxyInv, NEW c \in Conns, CheckHost(c)
  PROVE  ProxyInv'
<1>0. conn[c] \in Handlers /\ HostInv(c) /\ AllowedInv(c) /\ CarriedInv(c)
  BY AboutC
<1> DEFINE n == [conn[c] EXCEPT !.pc = "onreq"]
<1>1. /\ conn[c].pc = "host" /\ UNCHANGED <<sc, env, policy, lock, secret>>
      /\ \/ GiveUp(c)
         \/ /\ IsHostAllowed(policy, conn[c].host) /\ conn' = [conn EXCEPT ![c].pc = "onreq"]
            /\ UNCHANGED <<pool, okay>>
  BY DEF CheckHost, IsAt, engineVars, Goto
<1>2. CASE GiveUp(c)
  BY <1>1, <1>2, GivesUp
<1>3. CASE /\ IsHostAllowed(policy, conn[c].host) /\ conn' = [conn EXCEPT ![c].pc = "onreq"]
           /\ UNCHANGED <<pool, okay>>
  <2>1. conn' = [conn EXCEPT ![c] = n]
    BY <1>3 DEF ProxyInv
  <2>2. n \in Handlers /\ n.pc = "onreq" /\ n.host = conn[c].host /\ n.mode = conn[c].mode
        /\ n.req = conn[c].req /\ n.up = conn[c].up
    BY <1>0 DEF Handlers, PCs, Requesting
  <2> HIDE DEF n
  <2>3. ASSUME conn'[c] = n, okay'[c] = okay[c], DOMAIN pool' = DOMAIN pool
        PROVE  HostInv(c)' /\ AllowedInv(c)' /\ CarriedInv(c)'
    BY <1>0, <1>1, <1>3, <2>2, <2>3
    DEF HostInv, AllowedInv, CarriedInv, Answering, Requesting
  <2> QED
    BY <1>1, <1>3, <2>1, <2>2, <2>3, MovesOn
<1> QED
  BY <1>1, <1>2, <1>3

LEMMA OnRequestStep ==
  ASSUME ProxyInv, NEW c \in Conns, OnRequest(c)
  PROVE  ProxyInv'
<1>0. conn[c] \in Handlers /\ HostInv(c) /\ AllowedInv(c) /\ CarriedInv(c)
  BY AboutC
<1> DEFINE n == [conn[c] EXCEPT !.pc = "before", !.rule = 1]
<1>1. /\ conn[c].pc = "onreq" /\ UNCHANGED <<sc, env, policy, secret>>
      /\ \/ GiveUp(c) /\ UNCHANGED lock
         \/ /\ pathAllowed(policy, conn[c].host, conn[c].req.path) /\ lock' = RLock(c)
            /\ conn' = [conn EXCEPT ![c].pc = "before", ![c].rule = 1]
            /\ UNCHANGED <<pool, okay>>
  BY DEF OnRequest, IsAt
<1>2. CASE GiveUp(c) /\ UNCHANGED lock
  BY <1>1, <1>2, GivesUp
<1>3. CASE /\ pathAllowed(policy, conn[c].host, conn[c].req.path) /\ lock' = RLock(c)
           /\ conn' = [conn EXCEPT ![c].pc = "before", ![c].rule = 1]
           /\ UNCHANGED <<pool, okay>>
  <2>1. conn' = [conn EXCEPT ![c] = n]
    BY <1>3 DEF ProxyInv
  <2>2. n \in Handlers /\ n.pc = "before" /\ n.host = conn[c].host /\ n.mode = conn[c].mode
        /\ n.req = conn[c].req /\ n.up = conn[c].up /\ n.rule = 1
    BY <1>0 DEF Handlers, PCs, Requesting
  <2> HIDE DEF n
  <2>3. ASSUME conn'[c] = n, okay'[c] = okay[c], DOMAIN pool' = DOMAIN pool
        PROVE  HostInv(c)' /\ AllowedInv(c)' /\ CarriedInv(c)'
    BY <1>0, <1>1, <1>3, <2>2, <2>3
    DEF HostInv, AllowedInv, CarriedInv, Answering, Requesting
  <2> QED
    BY <1>1, <1>3, <2>1, <2>2, <2>3, MovesOn
<1> QED
  BY <1>1, <1>2, <1>3

(* A rule or a callback refuses.                                             *)
LEMMA BlockedStep ==
  ASSUME ProxyInv, NEW c \in Conns, Blocked(c)
  PROVE  ProxyInv'
BY GivesUp DEF Blocked

(* In the engine: only the request, the response, the rule and the place     *)
(* between rules and callbacks change.                                       *)
LEMMA InEngineStep ==
  ASSUME ProxyInv, NEW c \in Conns, NEW STATE n, n \in Handlers,
         conn' = [conn EXCEPT ![c] = n], UNCHANGED <<pool, okay, sc, policy, lock>>, EngineInv',
         conn[c].pc \in {"before", "hook", "after"},
         \/ n.pc = conn[c].pc /\ n.pc # "hook"
         \/ n.pc = "hook" /\ n.rule = conn[c].rule /\ Phase(c) = conn[c].pc
         \/ conn[c].pc = "hook" /\ n.pc = Phase(c),
         n.mode = conn[c].mode, n.host = conn[c].host, n.up = conn[c].up,
         n.req # None, n.req.host = conn[c].req.host, n.rule # 0
  PROVE  ProxyInv'
<1>0. HostInv(c) /\ AllowedInv(c) /\ CarriedInv(c)
  BY AboutC
<1>1. PoolInv'
  BY PoolKept
<1>2. n.pc \in {"before", "hook", "after"}
  BY <1>0 DEF HostInv
<1>3. ASSUME conn'[c] = n, okay'[c] = okay[c], DOMAIN pool' = DOMAIN pool
      PROVE  HostInv(c)' /\ AllowedInv(c)' /\ CarriedInv(c)'
  <2>1. /\ n.pc = "hook" => Phase(c)' = conn[c].pc
        /\ Answering(c)' = Answering(c)
    <3>2. conn[c].pc = "hook" => Phase(c) \in {"before", "after"}
      BY <1>0 DEF HostInv
    <3>3. n.pc = "hook" => n.rule = conn[c].rule
      BY <3>2
    <3>1. n.pc = "hook" => Phase(c)' = Phase(c)
      BY <1>3, <3>3 DEF Phase, RuleOf, Rules
    <3> HIDE DEF Phase
    <3> QED
      BY <1>3, <3>1, <3>2 DEF Answering
  <2>2. HostInv(c)'
    BY <1>0, <1>2, <1>3, <2>1 DEF HostInv, Requesting
  <2>3. AllowedInv(c)'
    BY <1>0, <1>2, <1>3 DEF AllowedInv, Requesting
  <2>4. CarriedInv(c)'
    BY <1>0, <1>2, <1>3, <2>1 DEF CarriedInv, Requesting
  <2> QED
    BY <2>2, <2>3, <2>4
<1> QED
  BY <1>1, <1>2, <1>3, MovesWith

LEMMA ReplaceStep ==
  ASSUME ProxyInv, NEW c \in Conns, NEW STATE n, n \in Handlers, Replace(c, n),
         conn[c].pc \in {"before", "hook", "after"},
         \/ n.pc = conn[c].pc /\ n.pc # "hook"
         \/ n.pc = "hook" /\ n.rule = conn[c].rule /\ Phase(c) = conn[c].pc
         \/ conn[c].pc = "hook" /\ n.pc = Phase(c),
         n.mode = conn[c].mode, n.host = conn[c].host, n.up = conn[c].up,
         n.req # None, n.req.host = conn[c].req.host, n.rule # 0
  PROVE  ProxyInv'
<1>1. conn' = [conn EXCEPT ![c] = n] /\ UNCHANGED <<pool, okay, sc, env, policy, lock, secret>>
  BY DEF Replace, engineVars
<1>2. EngineInv'
  BY <1>1, EngineKept
<1> QED
  BY <1>1, <1>2, InEngineStep

(* Edits keep a request's host and put only known secrets' placeholders in.  *)
LEMMA EditedRequest ==
  ASSUME EngineInv, NEW q \in Requests(sc), NEW e \in Edits(sc)
  PROVE  applyMutations(q, e) \in Requests(sc) /\ applyMutations(q, e).host = q.host
<1> DEFINE gone == (IF e.headers = "keep" THEN {} ELSE {"header", "basic"})
                     \cup (IF e.query = "keep" THEN {} ELSE {"query"})
                     \cup (IF e.path = None THEN {} ELSE {"path"})
           ph == (q.ph \ At(gone, q)) \cup Given(e.headers, "header", e.sec)
                    \cup Given(e.query, "query", e.sec)
           path == IF e.path = None THEN q.path ELSE e.path
<1>1. applyMutations(q, e) = [q EXCEPT !.ph = ph, !.path = path]
  BY DEF applyMutations
<1>2. ph \subseteq SecretNames(sc) \X Places
  <2>1. q.ph \subseteq SecretNames(sc) \X Places /\ e.sec \in SecretNames(sc) \cup {None}
    BY DEF Requests, Edits
  <2>2. Given(e.headers, "header", e.sec) \subseteq SecretNames(sc) \X Places
    BY <2>1 DEF Given, Places
  <2>3. Given(e.query, "query", e.sec) \subseteq SecretNames(sc) \X Places
    BY <2>1 DEF Given, Places
  <2> HIDE DEF gone
  <2> QED
    BY <2>1, <2>2, <2>3
<1>3. path \in Names
  BY DEF Requests, Edits
<1> HIDE DEF ph, path
<1> QED
  BY <1>1, <1>2, <1>3 DEF Requests

(* The edits of a rule.                                                      *)
LEMMA RuleEdits ==
  ASSUME EngineInv, NEW i \in Nat, 1 <= i, i <= Len(Rules)
  PROVE  Rules[i].edit \in Edits(sc) /\ Rules[i].replace \in BOOLEAN
<1> DEFINE R == [phase : STRING, action : STRING, hosts : SUBSET Names,
                 methods : SUBSET STRING, path : Names \cup {None}, edit : Edits(sc),
                 replace : BOOLEAN, callback : BOOLEAN, timeout : BOOLEAN]
           rules == Config[sc].rules
<1>1. rules \in Seq(R) /\ sc \in DOMAIN Config
  BY ConfigAssumption DEF EngineInv
<1>2. Rules = [j \in DOMAIN rules |-> compiledRule(rules[j])]
  BY <1>1 DEF Rules, Engine, compileNetworkRules
<1>3. DOMAIN rules = 1..Len(rules) /\ Len(rules) \in Nat
  BY <1>1
<1> HIDE DEF rules
<1>4. i \in DOMAIN rules
  <2>1. Rules = [j \in 1..Len(rules) |-> compiledRule(rules[j])]
    BY <1>2, <1>3
  <2>2. Len(Rules) = Len(rules)
    BY <1>3, <2>1
  <2> QED
    BY <1>3, <2>2
<1>5. Rules[i] = compiledRule(rules[i]) /\ rules[i] \in R
  <2>1. Rules[i] = compiledRule(rules[i])
    BY <1>2, <1>4
  <2> HIDE DEF R
  <2> QED
    BY <1>1, <1>3, <1>4, <2>1
<1>6. ASSUME NEW r \in R, NEW ph, NEW hs, NEW a
      PROVE  /\ [[r EXCEPT !.phase = ph, !.hosts = hs] EXCEPT !.action = a].edit = r.edit
             /\ [[r EXCEPT !.phase = ph, !.hosts = hs] EXCEPT !.action = a].replace = r.replace
  OBVIOUS
<1>7. Rules[i].edit = rules[i].edit /\ Rules[i].replace = rules[i].replace
  BY <1>5, <1>6 DEF compiledRule
<1> QED
  BY <1>5, <1>7

LEMMA BeforeRuleStep ==
  ASSUME ProxyInv, NEW c \in Conns, BeforeRule(c)
  PROVE  ProxyInv'
<1>0. conn[c] \in Handlers /\ HostInv(c) /\ EngineInv
  BY AboutC
<1>1. conn[c].pc = "before" /\ conn[c].rule <= Len(Rules)
  BY DEF BeforeRule, IsAt
<1>2. CASE Replace(c, NextRule(conn[c]))
  <2> DEFINE n == NextRule(conn[c])
  <2>1. n \in Handlers /\ n.pc = conn[c].pc /\ n.mode = conn[c].mode /\ n.host = conn[c].host
        /\ n.up = conn[c].up /\ n.req = conn[c].req /\ n.rule # 0
    BY <1>0 DEF NextRule, Handlers
  <2>2. conn[c].req # None
    BY <1>0, <1>1 DEF HostInv, Requesting
  <2> HIDE DEF n
  <2> QED
    BY <1>1, <1>2, <2>1, <2>2, ReplaceStep DEF n
<1>3. CASE Blocked(c)
  BY <1>3, BlockedStep
<1>4. CASE ~Replace(c, NextRule(conn[c])) /\ ~Blocked(c)
  <2> DEFINE q == applyMutations(conn[c].req, RuleOf(c).edit)
             edited == [conn[c] EXCEPT !.req = q]
             n == IF RuleOf(c).callback THEN [edited EXCEPT !.pc = "hook"] ELSE NextRule(edited)
  <2>1. Applies(c, "before") /\ Replace(c, n)
    BY <1>4 DEF BeforeRule
  <2>2. conn[c].req \in Requests(sc) /\ conn[c].rule \in Nat /\ conn[c].req # None
    BY <1>0, <1>1 DEF HostInv, Handlers, Requesting
  <2>3. q \in Requests(sc) /\ q.host = conn[c].req.host
    <3>1. conn[c].rule # 0
      BY <1>0, <1>1 DEF HostInv
    <3>2. RuleOf(c).edit \in Edits(sc)
      BY <1>0, <1>1, <2>2, <3>1, RuleEdits DEF RuleOf
    <3> QED
      BY <1>0, <2>2, <3>2, EditedRequest
  <2>4. q # None /\ Phase(c) = "before"
    BY <1>0, <2>1, <2>3, ConfigAssumption DEF EngineInv, Applies, Phase
  <2> HIDE DEF q
  <2>5. /\ n \in Handlers /\ n.mode = conn[c].mode /\ n.host = conn[c].host
        /\ n.up = conn[c].up /\ n.req = q /\ n.rule # 0
        /\ (n.pc = "hook" /\ n.rule = conn[c].rule) \/ n.pc = "before"
    <3>1. conn[c].rule # 0
      BY <1>0, <1>1 DEF HostInv
    <3>2. CASE RuleOf(c).callback
      <4>1. n = [edited EXCEPT !.pc = "hook"]
        BY <3>2
      <4> QED
        BY <1>0, <2>3, <3>1, <4>1 DEF Handlers, PCs, Requesting
    <3>3. CASE ~RuleOf(c).callback
      <4> DEFINE k == conn[c].rule + 1
      <4>1. n = [conn[c] EXCEPT !.req = q, !.rule = k]
        BY <1>0, <3>3 DEF NextRule, Handlers
      <4>2. k \in Nat /\ k # 0
        BY <2>2
      <4> HIDE DEF k, n
      <4> QED
        BY <1>0, <1>1, <2>3, <4>1, <4>2 DEF Handlers
    <3> QED
      BY <3>2, <3>3
  <2> HIDE DEF n
  <2> QED
    BY <1>1, <2>1, <2>3, <2>4, <2>5, ReplaceStep
<1> QED
  BY <1>2, <1>3, <1>4

(* What OnRequest leaves in a request that does not leak.                    *)
LEMMA ReplacedRequest ==
  ASSUME EngineInv, NEW q \in Requests(sc), ~Leaks(q)
  PROVE  /\ replaceInRequest(q) \in Requests(sc) /\ replaceInRequest(q).host = q.host
         /\ InScope(replaceInRequest(q))
<1> DEFINE here == {x \in At({"header", "basic", "query"}, q) : x[1] \in Resolvable(q)}
           ph == q.ph \ here
           sub == {[sec |-> x[1], place |-> x[2], value |-> resolveSecretValue(x[1]).value] :
                     x \in here}
           r == replaceInRequest(q)
<1>0. /\ q.ph \subseteq SecretNames(sc) \X Places
      /\ secret \in [SecretNames(sc) ->
                       [text : STRING, cache : [value : STRING, ok : BOOLEAN, fresh : BOOLEAN]]]
      /\ \A n \in SecretNames(sc) : secret[n].cache.ok => secret[n].cache.value # ""
      /\ sc \in DOMAIN Config
  BY DEF Requests, EngineInv
<1>1. DOMAIN Secrets = SecretNames(sc)
      /\ \A n \in SecretNames(sc) : Secrets[n].value \in STRING /\ Secrets[n].file \in BOOLEAN
  <2>1. Secrets = [n \in SecretNames(sc) |-> NewEngine(Config[sc].secrets[n])]
    BY <1>0 DEF Secrets, Engine, SecretNames
  <2>2. \A n \in SecretNames(sc) : Config[sc].secrets[n] \in
           [hosts : SUBSET Names, file : BOOLEAN, value : STRING, placeholder : BOOLEAN]
    BY <1>0, ConfigAssumption
  <2> QED
    BY <2>1, <2>2 DEF NewEngine
<1>2. ASSUME NEW n \in SecretNames(sc)
      PROVE  /\ resolveSecretValue(n).value \in STRING
             /\ resolveSecretValue(n).ok => resolveSecretValue(n).value # ""
  BY <1>0, <1>1 DEF resolveSecretValue, Entry
<1>3. \A x \in here : /\ x \in q.ph /\ x \in SecretNames(sc) \X Places
                      /\ isSecretAllowedForHost(x[1], q.host)
                      /\ resolveSecretValue(x[1]).ok
  BY <1>0 DEF At, Resolvable
<1>4. r = [q EXCEPT !.ph = ph, !.subst = sub]
  BY DEF replaceInRequest
<1> DEFINE Val(m) == resolveSecretValue(m).value
<1>10. \A m \in SecretNames(sc) : Val(m) \in STRING /\ (resolveSecretValue(m).ok => Val(m) # "")
  BY <1>2
<1>11. sub = {[sec |-> x[1], place |-> x[2], value |-> Val(x[1])] : x \in here}
  OBVIOUS
<1>12. \A x \in here : /\ x[1] \in SecretNames(sc) /\ x[2] \in Places
                       /\ isSecretAllowedForHost(x[1], q.host)
                       /\ Val(x[1]) \in STRING /\ Val(x[1]) # ""
  <2> HIDE DEF here, Val
  <2> QED
    BY <1>3, <1>10
<1>13. ASSUME NEW y \in sub
       PROVE  /\ y \in [sec : SecretNames(sc), place : Places, value : STRING]
              /\ isSecretAllowedForHost(y.sec, q.host) /\ y.value # ""
  <2> HIDE DEF here, Val
  <2>1. PICK x \in here : y = [sec |-> x[1], place |-> x[2], value |-> Val(x[1])]
    BY <1>11, <1>13
  <2> DEFINE a == x[1]
             b == x[2]
             v == Val(x[1])
  <2>2. /\ a \in SecretNames(sc) /\ b \in Places /\ v \in STRING /\ v # ""
        /\ isSecretAllowedForHost(a, q.host) /\ y = [sec |-> a, place |-> b, value |-> v]
    BY <1>12, <2>1
  <2> HIDE DEF a, b, v, sub
  <2>3. y.sec = a /\ y.value = v /\ y \in [sec : SecretNames(sc), place : Places, value : STRING]
    BY <2>2
  <2> QED
    BY <2>2, <2>3
<1>5. sub \subseteq [sec : SecretNames(sc), place : Places, value : STRING]
  BY <1>13
<1>6. \A x \in sub : isSecretAllowedForHost(x.sec, q.host) /\ x.value # ""
  BY <1>13
<1>7. ph \subseteq q.ph
  OBVIOUS
<1>8. \A x \in ph : x[2] # "body" => isSecretAllowedForHost(x[1], q.host)
  <2> TAKE x \in ph
  <2>1. x \in q.ph /\ x[1] \in DOMAIN Secrets /\ x[2] \in Places
    BY <1>0, <1>1, <1>7
  <2> QED
    BY <2>1 DEF Leaks, requestContainsPlaceholder, Places
<1> HIDE DEF ph, sub, r
<1>9. r \in Requests(sc) /\ r.host = q.host /\ r.ph = ph /\ r.subst = sub
  BY <1>0, <1>4, <1>5, <1>7 DEF Requests
<1> QED
  BY <1>6, <1>8, <1>9 DEF InScope, r

(* The cache after OnRequest.                                                *)
LEMMA CacheAfter ==
  ASSUME EngineInv, NEW q
  PROVE  /\ CachedAfter(q) \in [SecretNames(sc) ->
                [text : STRING, cache : [value : STRING, ok : BOOLEAN, fresh : BOOLEAN]]]
         /\ \A n \in SecretNames(sc) :
               CachedAfter(q)[n].cache.ok => CachedAfter(q)[n].cache.value # ""
<1> DEFINE Caches == [value : STRING, ok : BOOLEAN, fresh : BOOLEAN]
           Files == [text : STRING, cache : Caches]
<1>0. /\ secret \in [SecretNames(sc) -> Files]
      /\ \A n \in SecretNames(sc) : secret[n].cache.ok => secret[n].cache.value # ""
  BY DEF EngineInv
<1>1. ASSUME NEW n \in SecretNames(sc)
      PROVE  /\ resolveSecretValue(n).cache \in Caches
             /\ resolveSecretValue(n).cache.ok => resolveSecretValue(n).cache.value # ""
  <2>1. secret[n].cache \in Caches /\ secret[n].text \in STRING
        /\ (secret[n].cache.ok => secret[n].cache.value # "")
    BY <1>0
  <2>2. /\ Entry(secret[n].text) \in Caches
        /\ Entry(secret[n].text).ok => Entry(secret[n].text).value # ""
    BY <2>1 DEF Entry
  <2>3. resolveSecretValue(n).cache \in {secret[n].cache, Entry(secret[n].text)}
    BY DEF resolveSecretValue
  <2> QED
    BY <2>1, <2>2, <2>3
<1>2. ASSUME NEW n \in SecretNames(sc)
      PROVE  /\ CachedAfter(q)[n] \in Files
             /\ CachedAfter(q)[n].cache.ok => CachedAfter(q)[n].cache.value # ""
  <2> DEFINE k == resolveSecretValue(n).cache
  <2>1. k \in Caches /\ (k.ok => k.value # "")
    BY <1>1
  <2>2. CachedAfter(q)[n] = secret[n] \/ CachedAfter(q)[n] = [secret[n] EXCEPT !.cache = k]
    BY <1>0 DEF CachedAfter
  <2> HIDE DEF k
  <2> QED
    BY <1>0, <2>1, <2>2
<1>3. CachedAfter(q) = [n \in SecretNames(sc) |-> CachedAfter(q)[n]]
  BY <1>0 DEF CachedAfter
<1> HIDE DEF Files
<1>4. CachedAfter(q) \in [SecretNames(sc) -> Files]
  BY <1>2, <1>3
<1> QED
  BY <1>2, <1>4 DEF Files

LEMMA InjectSecretsStep ==
  ASSUME ProxyInv, NEW c \in Conns, InjectSecrets(c)
  PROVE  ProxyInv'
<1>0. /\ conn[c] \in Handlers /\ HostInv(c) /\ AllowedInv(c) /\ CarriedInv(c) /\ EngineInv
      /\ okay[c] \in [host : BOOLEAN, path : BOOLEAN]
  BY AboutC
<1> DEFINE req == conn[c].req
           q == replaceInRequest(req)
           pc == IF conn[c].mode = "http" THEN "dial" ELSE "send"
           n == [conn[c] EXCEPT !.req = q, !.pc = pc]
<1>1. /\ conn[c].pc = "before" /\ UNCHANGED <<sc, env, policy>> /\ lock' = RUnlock(c)
      /\ secret' \in {secret, CachedAfter(req)}
      /\ \/ GiveUp(c)
         \/ /\ ~Leaks(req) /\ conn' = [conn EXCEPT ![c].req = q, ![c].pc = pc]
            /\ UNCHANGED <<pool, okay>>
  BY DEF InjectSecrets, IsAt
<1>2. req \in Requests(sc) /\ req # None /\ req.host = conn[c].host
  BY <1>0, <1>1 DEF HostInv, Handlers, Requesting
<1>3. EngineInv' /\ lock'.readers = lock.readers \ {c}
  <2>1. /\ secret' \in [SecretNames(sc) ->
              [text : STRING, cache : [value : STRING, ok : BOOLEAN, fresh : BOOLEAN]]]
        /\ \A m \in SecretNames(sc) : secret'[m].cache.ok => secret'[m].cache.value # ""
    <3>1. CASE secret' = secret
      BY <1>0, <3>1 DEF EngineInv
    <3>2. CASE secret' = CachedAfter(req)
      <4> HIDE DEF req
      <4> QED
        BY <1>0, <3>2, CacheAfter
    <3> QED
      BY <1>1, <3>1, <3>2
  <2>2. /\ lock' \in [readers : SUBSET Conns, pending : Updaters \cup {None}]
        /\ lock'.readers = lock.readers \ {c}
    BY <1>0, <1>1 DEF EngineInv, RUnlock
  <2> QED
    BY <1>0, <1>1, <2>1, <2>2 DEF EngineInv
<1>4. CASE GiveUp(c)
  <2>1. EndConn(c) /\ Forget(c) /\ PoolInv'
    BY <1>1, <1>4, PoolKept DEF GiveUp
  <2> QED
    BY <1>1, <1>3, <2>1, GiveUpStep
<1>5. CASE /\ ~Leaks(req) /\ conn' = [conn EXCEPT ![c].req = q, ![c].pc = pc]
           /\ UNCHANGED <<pool, okay>>
  <2>1. conn' = [conn EXCEPT ![c] = n]
    BY <1>5 DEF ProxyInv
  <2>2. q \in Requests(sc) /\ q.host = req.host /\ InScope(q) /\ q # None
    BY <1>0, <1>2, <1>5, ReplacedRequest, ConfigAssumption DEF EngineInv
  <2>3. pc \in PCs /\ pc \in {"dial", "send"} /\ (conn[c].mode = "http" <=> pc = "dial")
    BY DEF PCs, Requesting
  <2> HIDE DEF q, pc
  <2>4. /\ n \in Handlers /\ n.req = q /\ n.pc = pc /\ n.mode = conn[c].mode
        /\ n.host = conn[c].host /\ n.up = conn[c].up
    BY <1>0, <2>2, <2>3 DEF Handlers
  <2> HIDE DEF n
  <2>5. ASSUME conn'[c] = n, okay'[c] = okay[c], DOMAIN pool' = DOMAIN pool
        PROVE  HostInv(c)' /\ AllowedInv(c)' /\ CarriedInv(c)'
    <3>1. HostInv(c)'
      BY <1>0, <1>1, <1>2, <2>2, <2>3, <2>4, <2>5 DEF HostInv, Answering, Requesting
    <3>2. AllowedInv(c)'
      BY <1>0, <1>1, <2>3, <2>4, <2>5 DEF AllowedInv, Requesting
    <3>3. InScope(conn[c].req)'
      BY <1>1, <2>2, <2>4, <2>5 DEF InScope, isSecretAllowedForHost, Secrets
    <3>4. CarriedInv(c)'
      BY <1>0, <1>1, <2>3, <2>4, <2>5, <3>3 DEF CarriedInv, Answering, Requesting
    <3> QED
      BY <3>1, <3>2, <3>4
  <2>6. okay' = [okay EXCEPT ![c] = okay[c]]
    BY <1>5 DEF ProxyInv
  <2>7. PoolInv'
    BY <1>1, <1>5, PoolKept
  <2> QED
    BY <1>0, <1>1, <1>3, <2>1, <2>3, <2>4, <2>5, <2>6, <2>7, HandlerStep
<1> QED
  BY <1>1, <1>4, <1>5

-----------------------------------------------------------------------------
(* The pool.                                                                 *)
LEMMA PoolChange ==
  ASSUME ProxyInv, UNCHANGED sc, NEW STATE h, h \in DOMAIN pool,
         NEW STATE s, s \in Seq(Upstreams),
         pool' = [pool EXCEPT ![h] = s], Len(s) <= MaxIdle,
         \A i \in 1..Len(s) : s[i].host = h /\ (s[i].left => s[i].swapped)
  PROVE  PoolInv'
<1> DEFINE Hosts == {r.host : r \in Config[sc].requests}
<1>1. pool \in [Hosts -> Seq(Upstreams)] /\ PoolInv
  BY DEF ProxyInv, PoolInv
<1> HIDE DEF Hosts, Upstreams
<1>2. /\ pool' \in [Hosts -> Seq(Upstreams)] /\ pool'[h] = s
      /\ \A g \in Hosts \ {h} : pool'[g] = pool[g]
      /\ DOMAIN pool' = Hosts /\ DOMAIN pool = Hosts /\ DOMAIN s = 1..Len(s)
  BY <1>1
<1>3. \A g \in Hosts : /\ Len(pool'[g]) <= MaxIdle
                       /\ \A i \in DOMAIN pool'[g] : /\ pool'[g][i].host = g
                                                     /\ pool'[g][i].left => pool'[g][i].swapped
  <2> TAKE g \in Hosts
  <2>1. CASE g = h
    BY <1>2, <2>1
  <2>2. CASE g # h
    BY <1>1, <1>2, <2>2 DEF PoolInv
  <2> QED
    BY <2>1, <2>2
<1> QED
  BY <1>2, <1>3 DEF PoolInv, Hosts

(* A part of a sequence.                                                     *)
LEMMA PartOf ==
  ASSUME NEW S, NEW s \in Seq(S), NEW m \in Nat \ {0}, NEW n \in Nat, n <= Len(s)
  PROVE  /\ SubSeq(s, m, n) \in Seq(S) /\ Len(SubSeq(s, m, n)) \in Nat
         /\ Len(SubSeq(s, m, n)) <= Len(s)
         /\ \A i \in 1..Len(SubSeq(s, m, n)) : \E j \in 1..Len(s) : SubSeq(s, m, n)[i] = s[j]
<1> DEFINE t == SubSeq(s, m, n)
<1>1. \A i \in m..n : s[i] \in S
  OBVIOUS
<1>2. /\ t \in Seq(S) /\ Len(t) = IF m <= n THEN n - m + 1 ELSE 0
      /\ \A i \in 1..(n - m + 1) : t[i] = s[m + i - 1]
  BY <1>1, SubSeqProperties
<1> HIDE DEF t
<1>3. Len(s) \in Nat
  OBVIOUS
<1>4. \A i \in 1..Len(t) : m + i - 1 \in 1..Len(s) /\ t[i] = s[m + i - 1]
  BY <1>2, <1>3
<1> QED
  BY <1>2, <1>3, <1>4 DEF t

(* What is known of a host's idle connections.                               *)
LEMMA IdleOnes ==
  ASSUME ProxyInv, NEW h \in DOMAIN pool
  PROVE  /\ pool[h] \in Seq(Upstreams) /\ Len(pool[h]) \in Nat /\ Len(pool[h]) <= MaxIdle
         /\ DOMAIN pool[h] = 1..Len(pool[h]) /\ MaxIdle \in Nat \ {0}
         /\ \A i \in 1..Len(pool[h]) : /\ pool[h][i] \in Upstreams /\ pool[h][i].host = h
                                       /\ pool[h][i].left => pool[h][i].swapped
<1>1. pool[h] \in Seq(Upstreams) /\ PoolInv
  BY DEF ProxyInv, PoolInv
<1>2. DOMAIN pool[h] = 1..Len(pool[h]) /\ Len(pool[h]) \in Nat
      /\ \A i \in 1..Len(pool[h]) : pool[h][i] \in Upstreams
  BY <1>1
<1> QED
  BY <1>1, <1>2, ProxyBounds DEF PoolInv

LEMMA GetStep ==
  ASSUME ProxyInv, NEW c \in Conns, get(c)
  PROVE  ProxyInv'
<1>0. /\ conn[c] \in Handlers /\ HostInv(c) /\ AllowedInv(c) /\ CarriedInv(c) /\ EngineInv
      /\ PoolInv /\ (c \in lock.readers <=> conn[c].pc \in {"before", "hook", "after"})
  BY AboutC
<1> DEFINE h == conn[c].host
           idle == pool[h]
           last == idle[Len(idle)]
           N(u) == [conn[c] EXCEPT !.up = u, !.pc = "send"]
<1>1. /\ conn[c].pc = "dial" /\ UNCHANGED <<sc, env, policy, lock, secret>>
      /\ \/ /\ idle # <<>> /\ pool' = [pool EXCEPT ![h] = SubSeq(idle, 1, Len(idle) - 1)]
            /\ conn' = [conn EXCEPT ![c].up = last, ![c].pc = "send"] /\ UNCHANGED okay
         \/ /\ pool' = [pool EXCEPT ![h] = <<>>]
            /\ conn' = [conn EXCEPT ![c].up = Fresh(h), ![c].pc = "send"] /\ UNCHANGED okay
         \/ pool' = [pool EXCEPT ![h] = <<>>] /\ EndConn(c) /\ Forget(c)
  BY DEF get, IsAt, engineVars
<1>2. h \in DOMAIN pool /\ conn[c].req # None /\ conn[c].req.host = h
  BY <1>0, <1>1 DEF HostInv, Requesting
<1>3. /\ idle \in Seq(Upstreams) /\ Len(idle) \in Nat /\ Len(idle) <= MaxIdle
      /\ MaxIdle \in Nat \ {0}
      /\ \A i \in 1..Len(idle) : /\ idle[i] \in Upstreams /\ idle[i].host = h
                                 /\ idle[i].left => idle[i].swapped
  BY <1>2, IdleOnes
<1>4. EngineInv'
  BY <1>1, EngineKept
<1>5. ASSUME pool' = [pool EXCEPT ![h] = <<>>] PROVE PoolInv'
  <2> DEFINE s == <<>>
  <2>1. s \in Seq(Upstreams) /\ Len(s) = 0
    OBVIOUS
  <2>2. pool' = [pool EXCEPT ![h] = s]
    BY <1>5
  <2> HIDE DEF s, h
  <2>3. Len(s) <= MaxIdle /\ \A i \in 1..Len(s) : s[i].host = h /\ (s[i].left => s[i].swapped)
    BY <1>3, <2>1
  <2> QED
    BY <1>1, <1>2, <2>1, <2>2, <2>3, PoolChange
<1>6. ASSUME NEW STATE u, u \in Upstreams, u.host = h, u.left => u.swapped, PoolInv',
             conn' = [conn EXCEPT ![c].up = u, ![c].pc = "send"], UNCHANGED okay
      PROVE  ProxyInv'
  <2> DEFINE n == N(u)
  <2>1. conn' = [conn EXCEPT ![c] = n]
    BY <1>6 DEF ProxyInv
  <2>2. /\ n \in Handlers /\ n.pc = "send" /\ n.up = u /\ n.host = h /\ n.req = conn[c].req
        /\ n.mode = conn[c].mode
    BY <1>0, <1>6 DEF Handlers, PCs, Requesting
  <2>3. u # None
    BY <1>6, UpstreamsAssumption
  <2> HIDE DEF n, N
  <2>4. ASSUME conn'[c] = n, okay'[c] = okay[c], DOMAIN pool' = DOMAIN pool
        PROVE  HostInv(c)' /\ AllowedInv(c)' /\ CarriedInv(c)'
    <3>1. HostInv(c)' /\ AllowedInv(c)'
      BY <1>0, <1>1, <1>2, <1>6, <2>2, <2>3, <2>4 DEF HostInv, AllowedInv, Answering, Requesting
    <3>2. InScope(conn[c].req)'
      BY <1>0, <1>1, <2>2, <2>4 DEF CarriedInv, InScope, isSecretAllowedForHost, Secrets
    <3>3. CarriedInv(c)'
      BY <1>6, <2>2, <2>4, <3>2 DEF CarriedInv
    <3> QED
      BY <3>1, <3>3
  <2> QED
    BY <1>1, <1>4, <1>6, <2>1, <2>2, <2>4, MovesWith
<1>7. CASE /\ idle # <<>> /\ pool' = [pool EXCEPT ![h] = SubSeq(idle, 1, Len(idle) - 1)]
           /\ conn' = [conn EXCEPT ![c].up = last, ![c].pc = "send"] /\ UNCHANGED okay
  <2> DEFINE s == SubSeq(idle, 1, Len(idle) - 1)
  <2>1. Len(idle) # 0 /\ Len(idle) \in 1..Len(idle)
    BY <1>3, <1>7
  <2>2. last \in Upstreams /\ last.host = h /\ (last.left => last.swapped)
    BY <1>3, <2>1
  <2>3. /\ s \in Seq(Upstreams) /\ Len(s) \in Nat /\ Len(s) <= Len(idle)
        /\ \A i \in 1..Len(s) : \E j \in 1..Len(idle) : s[i] = idle[j]
    <3>1. Len(idle) - 1 \in Nat /\ Len(idle) - 1 <= Len(idle)
      BY <1>3, <2>1
    <3> HIDE DEF idle, Upstreams
    <3> QED
      BY <1>3, <3>1, PartOf
  <2>4. pool' = [pool EXCEPT ![h] = s]
    BY <1>7
  <2> HIDE DEF s, idle, h, last
  <2>5. Len(s) <= MaxIdle /\ \A i \in 1..Len(s) : s[i].host = h /\ (s[i].left => s[i].swapped)
    BY <1>3, <2>3
  <2>6. PoolInv'
    BY <1>1, <1>2, <2>3, <2>4, <2>5, PoolChange
  <2> QED
    BY <1>6, <1>7, <2>2, <2>6
<1>8. CASE /\ pool' = [pool EXCEPT ![h] = <<>>]
           /\ conn' = [conn EXCEPT ![c].up = Fresh(h), ![c].pc = "send"] /\ UNCHANGED okay
  <2>1. h \in Names
    BY <1>0, <1>2, HostsAreNames
  <2>2. Fresh(h) \in Upstreams /\ Fresh(h).host = h /\ ~Fresh(h).left
    BY <2>1 DEF Fresh, Upstreams
  <2> QED
    BY <1>5, <1>6, <1>8, <2>2
<1>9. CASE pool' = [pool EXCEPT ![h] = <<>>] /\ EndConn(c) /\ Forget(c)
  <2>1. PoolInv' /\ lock'.readers = lock.readers \ {c}
    BY <1>0, <1>1, <1>5, <1>9
  <2> QED
    BY <1>1, <1>4, <1>9, <2>1, GiveUpStep
<1> QED
  BY <1>1, <1>7, <1>8, <1>9

(* The request is sent, the answer comes or does not.                        *)
LEMMA SendRequestStep ==
  ASSUME ProxyInv, NEW c \in Conns, SendRequest(c)
  PROVE  ProxyInv'
<1>0. conn[c] \in Handlers /\ HostInv(c) /\ AllowedInv(c) /\ CarriedInv(c)
  BY AboutC
<1> DEFINE n == [conn[c] EXCEPT !.pc = "sent"]
<1>1. /\ conn[c].pc = "send" /\ UNCHANGED <<sc, env, policy, lock, secret>>
      /\ \/ GiveUp(c)
         \/ conn' = [conn EXCEPT ![c].pc = "sent"] /\ UNCHANGED <<pool, okay>>
  BY DEF SendRequest, IsAt, engineVars, Goto
<1>2. CASE GiveUp(c)
  BY <1>1, <1>2, GivesUp
<1>3. CASE conn' = [conn EXCEPT ![c].pc = "sent"] /\ UNCHANGED <<pool, okay>>
  <2>1. conn' = [conn EXCEPT ![c] = n]
    BY <1>3 DEF ProxyInv
  <2>2. n \in Handlers /\ n.pc = "sent" /\ n.host = conn[c].host /\ n.mode = conn[c].mode
        /\ n.req = conn[c].req /\ n.up = conn[c].up
    BY <1>0 DEF Handlers, PCs, Requesting
  <2> HIDE DEF n
  <2>3. ASSUME conn'[c] = n, okay'[c] = okay[c], DOMAIN pool' = DOMAIN pool
        PROVE  HostInv(c)' /\ AllowedInv(c)' /\ CarriedInv(c)'
    <3>1. HostInv(c)' /\ AllowedInv(c)'
      BY <1>0, <1>1, <2>2, <2>3 DEF HostInv, AllowedInv, Answering, Requesting
    <3>2. InScope(conn[c].req)'
      BY <1>0, <1>1, <2>2, <2>3 DEF CarriedInv, InScope, isSecretAllowedForHost, Secrets
    <3>3. CarriedInv(c)'
      BY <1>0, <1>1, <2>2, <2>3, <3>2 DEF CarriedInv, Answering, Requesting
    <3> QED
      BY <3>1, <3>3
  <2> QED
    BY <1>1, <1>3, <2>1, <2>2, <2>3, MovesOn
<1> QED
  BY <1>1, <1>2, <1>3

LEMMA ReadResponseStep ==
  ASSUME ProxyInv, NEW c \in Conns, ReadResponse(c)
  PROVE  ProxyInv'
<1>0. /\ conn[c] \in Handlers /\ HostInv(c) /\ AllowedInv(c) /\ CarriedInv(c) /\ EngineInv
  BY AboutC
<1>1. PICK r \in Config[sc].responses :
         LET interim == r.kind = "interim"
         IN  conn' = [conn EXCEPT ![c].resp = [NoResp EXCEPT !.kind = IF interim THEN "sized" ELSE r.kind,
                                                             !.close = r.close],
                                  ![c].up = [conn[c].up EXCEPT !.left = ~interim, !.owed = @ \/ interim],
                                  ![c].pc = "onresp"]
  BY DEF ReadResponse
<1>2. /\ conn[c].pc = "sent" /\ UNCHANGED <<sc, env, policy, lock, secret, pool, okay>>
  BY DEF ReadResponse, IsAt, engineVars
<1>3. conn[c].up # None /\ conn[c].up \in Upstreams /\ conn[c].up.host = conn[c].host
  BY <1>0, <1>2 DEF HostInv, Handlers
<1>4. r \in [kind : {"sized", "chunked", "sse", "interim"}, close : BOOLEAN]
  BY <1>0, ConfigAssumption DEF EngineInv
<1> DEFINE interim == r.kind = "interim"
           resp == [NoResp EXCEPT !.kind = IF interim THEN "sized" ELSE r.kind, !.close = r.close]
           up == [conn[c].up EXCEPT !.left = ~interim, !.owed = @ \/ interim]
           n == [conn[c] EXCEPT !.resp = resp, !.up = up, !.pc = "onresp"]
<1>5. conn' = [conn EXCEPT ![c] = n]
  BY <1>0, <1>1 DEF ProxyInv, Handlers
<1>6. resp \in [kind : {"sized", "chunked", "sse", None}, close : BOOLEAN, set : BOOLEAN,
                replace : BOOLEAN]
  BY <1>4 DEF NoResp
<1>7. up \in Upstreams /\ up.host = conn[c].host /\ up # None
  <2>1. up \in Upstreams /\ up.host = conn[c].host
    BY <1>3 DEF Upstreams
  <2> QED
    BY <2>1, UpstreamsAssumption
<1> HIDE DEF resp, up
<1>8. /\ n \in Handlers /\ n.pc = "onresp" /\ n.up = up /\ n.host = conn[c].host
      /\ n.mode = conn[c].mode /\ n.req = conn[c].req
  BY <1>0, <1>6, <1>7 DEF Handlers, PCs, Requesting
<1> HIDE DEF n
<1>9. ASSUME conn'[c] = n, okay'[c] = okay[c], DOMAIN pool' = DOMAIN pool
      PROVE  HostInv(c)' /\ AllowedInv(c)' /\ CarriedInv(c)'
  <2>1. HostInv(c)' /\ AllowedInv(c)'
    BY <1>0, <1>2, <1>7, <1>8, <1>9 DEF HostInv, AllowedInv, Answering, Requesting
  <2>2. CarriedInv(c)'
    BY <1>8, <1>9 DEF CarriedInv, Answering
  <2> QED
    BY <2>1, <2>2
<1> QED
  BY <1>2, <1>5, <1>8, <1>9, MovesOn

LEMMA OnResponseStep ==
  ASSUME ProxyInv, NEW c \in Conns, OnResponse(c)
  PROVE  ProxyInv'
<1>0. conn[c] \in Handlers /\ HostInv(c) /\ AllowedInv(c)
  BY AboutC
<1> DEFINE n == [conn[c] EXCEPT !.pc = "after", !.rule = 1]
<1>1. /\ conn[c].pc = "onresp" /\ lock' = RLock(c)
      /\ conn' = [conn EXCEPT ![c].pc = "after", ![c].rule = 1]
      /\ UNCHANGED <<sc, env, policy, secret, pool, okay>>
  BY DEF OnResponse, IsAt
<1>2. conn' = [conn EXCEPT ![c] = n]
  BY <1>1 DEF ProxyInv
<1>3. n \in Handlers /\ n.pc = "after" /\ n.host = conn[c].host /\ n.mode = conn[c].mode
      /\ n.req = conn[c].req /\ n.up = conn[c].up /\ n.rule = 1
  BY <1>0 DEF Handlers, PCs, Requesting
<1> HIDE DEF n
<1>4. ASSUME conn'[c] = n, okay'[c] = okay[c], DOMAIN pool' = DOMAIN pool
      PROVE  HostInv(c)' /\ AllowedInv(c)' /\ CarriedInv(c)'
  BY <1>0, <1>1, <1>3, <1>4 DEF HostInv, AllowedInv, CarriedInv, Answering, Requesting
<1> QED
  BY <1>1, <1>2, <1>3, <1>4, MovesOn

LEMMA AfterRuleStep ==
  ASSUME ProxyInv, NEW c \in Conns, AfterRule(c)
  PROVE  ProxyInv'
<1>0. conn[c] \in Handlers /\ HostInv(c) /\ EngineInv
  BY AboutC
<1>1. conn[c].pc = "after" /\ conn[c].rule <= Len(Rules)
  BY DEF AfterRule, IsAt
<1>5. conn[c].req # None /\ conn[c].rule \in Nat /\ conn[c].rule # 0
  BY <1>0, <1>1 DEF HostInv, Requesting, Handlers
<1>2. CASE Replace(c, NextRule(conn[c]))
  <2> DEFINE n == NextRule(conn[c])
  <2>1. n \in Handlers /\ n.pc = conn[c].pc /\ n.mode = conn[c].mode /\ n.host = conn[c].host
        /\ n.up = conn[c].up /\ n.req = conn[c].req /\ n.rule # 0
    BY <1>0 DEF NextRule, Handlers
  <2> HIDE DEF n
  <2> QED
    BY <1>1, <1>2, <1>5, <2>1, ReplaceStep DEF n
<1>3. CASE Blocked(c)
  BY <1>3, BlockedStep
<1>4. CASE ~Replace(c, NextRule(conn[c])) /\ ~Blocked(c)
  <2> DEFINE resp == [conn[c].resp EXCEPT !.replace = @ \/ RuleOf(c).replace]
             edited == [conn[c] EXCEPT !.resp.replace = @ \/ RuleOf(c).replace]
             n == IF RuleOf(c).callback THEN [edited EXCEPT !.pc = "hook"] ELSE NextRule(edited)
  <2>1. Applies(c, "after") /\ Replace(c, n)
    BY <1>4 DEF AfterRule
  <2>2. edited = [conn[c] EXCEPT !.resp = resp]
    BY <1>0 DEF Handlers
  <2>3. resp \in [kind : {"sized", "chunked", "sse", None}, close : BOOLEAN, set : BOOLEAN,
                  replace : BOOLEAN]
    BY <1>0 DEF Handlers
  <2>4. Phase(c) = "after"
    BY <2>1 DEF Applies, Phase
  <2> HIDE DEF resp, edited
  <2>5. /\ edited \in Handlers /\ edited.mode = conn[c].mode /\ edited.host = conn[c].host
        /\ edited.up = conn[c].up /\ edited.req = conn[c].req /\ edited.rule = conn[c].rule
        /\ edited.pc = conn[c].pc
    BY <1>0, <2>2, <2>3 DEF Handlers
  <2>6. /\ n \in Handlers /\ n.mode = conn[c].mode /\ n.host = conn[c].host
        /\ n.up = conn[c].up /\ n.req = conn[c].req /\ n.rule # 0
        /\ (n.pc = "hook" /\ n.rule = conn[c].rule) \/ n.pc = "after"
    <3>2. CASE RuleOf(c).callback
      <4>1. n = [edited EXCEPT !.pc = "hook"]
        BY <3>2
      <4> HIDE DEF n
      <4> QED
        BY <1>5, <2>5, <4>1 DEF Handlers, PCs, Requesting
    <3>3. CASE ~RuleOf(c).callback
      <4> DEFINE k == edited.rule + 1
      <4>1. n = [edited EXCEPT !.rule = k]
        BY <3>3 DEF NextRule
      <4>2. k \in Nat /\ k # 0
        BY <1>5, <2>5
      <4> HIDE DEF k, n
      <4> QED
        BY <1>1, <2>5, <4>1, <4>2 DEF Handlers
    <3> QED
      BY <3>2, <3>3
  <2> HIDE DEF n
  <2> QED
    BY <1>1, <1>5, <2>1, <2>4, <2>6, ReplaceStep
<1> QED
  BY <1>2, <1>3, <1>4

LEMMA RewriteBodyStep ==
  ASSUME ProxyInv, NEW c \in Conns, RewriteBody(c)
  PROVE  ProxyInv'
<1>0. conn[c] \in Handlers /\ HostInv(c) /\ AllowedInv(c) /\ CarriedInv(c)
  BY AboutC
<1> DEFINE r == conn[c].resp
           whole == r.replace /\ ~r.set /\ r.kind # "sse"
           kind == IF r.kind = "chunked" /\ (r.set \/ whole) THEN "sized" ELSE r.kind
           u == conn[c].up
           resp == [r EXCEPT !.kind = kind]
           up == [u EXCEPT !.left = @ /\ ~whole, !.swapped = @ \/ r.set]
           n == [conn[c] EXCEPT !.pc = "write", !.resp = resp, !.up = up]
<1>1. /\ conn[c].pc = "after" /\ lock' = RUnlock(c) /\ UNCHANGED <<sc, env, policy, secret>>
      /\ \/ GiveUp(c)
         \/ /\ conn' = [conn EXCEPT ![c].pc = "write", ![c].resp = resp, ![c].up = up]
            /\ UNCHANGED <<pool, okay>>
  BY DEF RewriteBody, IsAt
<1>2. CASE GiveUp(c)
  BY <1>1, <1>2, GivesUp
<1>3. CASE /\ conn' = [conn EXCEPT ![c].pc = "write", ![c].resp = resp, ![c].up = up]
           /\ UNCHANGED <<pool, okay>>
  <2>1. u \in Upstreams /\ u # None /\ u.host = conn[c].host
        /\ r \in [kind : {"sized", "chunked", "sse", None}, close : BOOLEAN, set : BOOLEAN,
                  replace : BOOLEAN]
    BY <1>0, <1>1 DEF HostInv, Answering, Handlers
  <2>2. conn' = [conn EXCEPT ![c] = n]
    <3> HIDE DEF resp, up
    <3> QED
      BY <1>3 DEF ProxyInv
  <2>3. /\ resp \in [kind : {"sized", "chunked", "sse", None}, close : BOOLEAN, set : BOOLEAN,
                     replace : BOOLEAN]
        /\ resp.kind = kind /\ resp.set = r.set /\ resp.replace = r.replace
    BY <2>1
  <2>4. /\ up \in Upstreams /\ up.host = u.host /\ up.left = (u.left /\ ~whole)
        /\ up.swapped = (u.swapped \/ r.set)
    <3> HIDE DEF whole
    <3> QED
      BY <2>1 DEF Upstreams
  <2>5. up # None
    BY <2>4, UpstreamsAssumption
  <2>6. resp.kind = "sized" /\ up.left /\ (resp.set \/ resp.replace) => up.swapped
    BY <2>1, <2>3, <2>4
  <2> HIDE DEF resp, up
  <2>7. /\ n \in Handlers /\ n.pc = "write" /\ n.resp = resp /\ n.up = up
        /\ n.host = conn[c].host /\ n.mode = conn[c].mode /\ n.req = conn[c].req
    BY <1>0, <2>3, <2>4 DEF Handlers, PCs, Requesting
  <2> HIDE DEF n
  <2>8. ASSUME conn'[c] = n, okay'[c] = okay[c], DOMAIN pool' = DOMAIN pool
        PROVE  HostInv(c)' /\ AllowedInv(c)' /\ CarriedInv(c)'
    <3>1. HostInv(c)' /\ AllowedInv(c)'
      BY <1>0, <1>1, <2>1, <2>4, <2>5, <2>7, <2>8
      DEF HostInv, AllowedInv, Answering, Requesting
    <3>2. CarriedInv(c)'
      BY <2>6, <2>7, <2>8 DEF CarriedInv, Answering
    <3> QED
      BY <3>1, <3>2
  <2> QED
    BY <1>1, <1>3, <2>2, <2>7, <2>8, MovesOn
<1> QED
  BY <1>1, <1>2, <1>3

LEMMA WriteResponseStep ==
  ASSUME ProxyInv, NEW c \in Conns, WriteResponse(c)
  PROVE  ProxyInv'
<1>0. /\ conn[c] \in Handlers /\ HostInv(c) /\ AllowedInv(c) /\ CarriedInv(c)
      /\ okay[c] \in [host : BOOLEAN, path : BOOLEAN]
      /\ (c \in lock.readers <=> conn[c].pc \in {"before", "hook", "after"})
  BY AboutC
<1> DEFINE u == AfterWrite(c)
           http == conn[c].mode = "http"
           host == IF http THEN None ELSE conn[c].host
           up == IF http THEN None ELSE u
           n == [conn[c] EXCEPT !.pc = "read", !.req = None, !.rule = 0, !.resp = NoResp,
                                !.host = host, !.up = up]
           o == [host |-> okay[c].host /\ conn[c].mode = "https", path |-> FALSE]
<1>1. /\ conn[c].pc = "write" /\ conn[c].resp.kind = "sized"
      /\ UNCHANGED <<sc, env, policy, lock, secret>>
      /\ \/ GiveUp(c)
         \/ /\ conn' = [conn EXCEPT ![c].pc = "read", ![c].req = None, ![c].rule = 0,
                          ![c].resp = NoResp,
                          ![c].host = IF http THEN None ELSE @,
                          ![c].up = IF http THEN None ELSE u]
            /\ pool' = IF http THEN put(u) ELSE pool
            /\ okay' = [okay EXCEPT ![c] = [host |-> @.host /\ conn[c].mode = "https",
                                            path |-> FALSE]]
  BY DEF WriteResponse, IsAt, engineVars
<1>2. CASE GiveUp(c)
  BY <1>1, <1>2, GivesUp
<1>3. CASE ~GiveUp(c)
  <2>1. /\ conn[c].up \in Upstreams /\ conn[c].up # None /\ conn[c].up.host = conn[c].host
        /\ conn[c].resp \in [kind : {"sized", "chunked", "sse", None}, close : BOOLEAN,
                             set : BOOLEAN, replace : BOOLEAN]
        /\ (http => conn[c].host \in DOMAIN pool) /\ conn[c].mode \in {"http", "https"}
        /\ conn[c].host \in Names
    BY <1>0, <1>1 DEF HostInv, Answering, Handlers, Requesting
  <2>2. u \in Upstreams /\ u.host = conn[c].host /\ (u.left => u.swapped)
    BY <1>0, <1>1, <2>1 DEF AfterWrite, Upstreams, CarriedInv
  <2>3. u # None
    BY <2>2, UpstreamsAssumption
  <2>4. conn' = [conn EXCEPT ![c] = n] /\ okay' = [okay EXCEPT ![c] = o]
    <3> HIDE DEF u
    <3>1. conn \in [Conns -> Handlers] /\ okay \in [Conns -> [host : BOOLEAN, path : BOOLEAN]]
      BY DEF ProxyInv
    <3> QED
      BY <1>1, <1>3, <3>1 DEF Handlers
  <2> HIDE DEF u
  <2>5. /\ host \in Names \cup {None} /\ up \in Upstreams \cup {None}
        /\ http => host = None /\ up = None
        /\ ~http => host = conn[c].host /\ up = u
    BY <1>0, <2>2 DEF Handlers
  <2>6. o \in [host : BOOLEAN, path : BOOLEAN]
        /\ o.host = (okay[c].host /\ conn[c].mode = "https")
    BY <1>0
  <2>7. NoResp \in [kind : {"sized", "chunked", "sse", None}, close : BOOLEAN,
                    set : BOOLEAN, replace : BOOLEAN]
    BY DEF NoResp
  <2> HIDE DEF host, up, o, NoResp
  <2>8. /\ n \in Handlers /\ n.pc = "read" /\ n.req = None /\ n.host = host /\ n.up = up
        /\ n.mode = conn[c].mode
    BY <1>0, <2>5, <2>7 DEF Handlers, PCs
  <2> HIDE DEF n
  <2>9. ASSUME conn'[c] = n, okay'[c] = o
        PROVE  HostInv(c)' /\ AllowedInv(c)' /\ CarriedInv(c)'
    <3>1. HostInv(c)'
      BY <2>1, <2>2, <2>3, <2>5, <2>8, <2>9 DEF HostInv, Answering, Requesting
    <3>2. AllowedInv(c)'
      BY <1>0, <1>1, <2>6, <2>8, <2>9 DEF AllowedInv, Requesting
    <3>3. CarriedInv(c)'
      BY <2>2, <2>5, <2>8, <2>9 DEF CarriedInv, Answering
    <3> QED
      BY <3>1, <3>2, <3>3
  <2>10. PoolInv'
    <3>1. CASE pool' = pool
      BY <1>1, <3>1, PoolKept
    <3>2. CASE pool' # pool
      <4> DEFINE h == conn[c].host
                 v == [u EXCEPT !.old = FALSE]
                 s == Append(pool[h], v)
      <4>1. pool' = [pool EXCEPT ![h] = s] /\ ~(Len(pool[h]) >= MaxIdle) /\ http
        BY <1>1, <1>3, <2>2, <3>2 DEF put
      <4>2. v \in Upstreams /\ v.host = h /\ (v.left => v.swapped)
        BY <2>2 DEF Upstreams
      <4>3. /\ pool[h] \in Seq(Upstreams) /\ Len(pool[h]) \in Nat /\ MaxIdle \in Nat \ {0}
            /\ \A i \in 1..Len(pool[h]) : /\ pool[h][i].host = h
                                          /\ pool[h][i].left => pool[h][i].swapped
        BY <2>1, <4>1, IdleOnes
      <4> HIDE DEF v
      <4>4. /\ s \in Seq(Upstreams) /\ Len(s) = Len(pool[h]) + 1
            /\ \A i \in 1..Len(pool[h]) : s[i] = pool[h][i]
            /\ s[Len(pool[h]) + 1] = v
        <5> HIDE DEF Upstreams
        <5> QED
          BY <4>2, <4>3
      <4> HIDE DEF s, h
      <4>5. /\ Len(s) <= MaxIdle
            /\ \A i \in 1..Len(s) : s[i].host = h /\ (s[i].left => s[i].swapped)
        BY <4>1, <4>2, <4>3, <4>4
      <4>6. h \in DOMAIN pool
        BY <2>1, <4>1 DEF h
      <4> QED
        BY <1>1, <4>1, <4>4, <4>5, <4>6, PoolChange
    <3> QED
      BY <3>1, <3>2
  <2>11. EngineInv' /\ lock'.readers = lock.readers \ {c}
    BY <1>0, <1>1, EngineKept
  <2> QED
    BY <1>1, <2>4, <2>6, <2>8, <2>9, <2>10, <2>11, HandlerStep
<1> QED
  BY <1>2, <1>3

-----------------------------------------------------------------------------
(* Callbacks.                                                                *)
LEMMA HookReturnsStep ==
  ASSUME ProxyInv, NEW c \in Conns, NEW STATE m, m \in Handlers, HookReturns(c, m),
         conn[c].pc = "hook", m.mode = conn[c].mode, m.host = conn[c].host,
         m.up = conn[c].up, m.req # None, m.req.host = conn[c].req.host
  PROVE  ProxyInv'
<1>0. HostInv(c)
  BY AboutC
<1> DEFINE k == m.rule + 1
           pc == Phase(c)
           n == [m EXCEPT !.pc = pc, !.rule = k]
<1>1. Replace(c, n)
  BY DEF HookReturns
<1>2. k \in Nat /\ k # 0 /\ pc \in PCs
  BY <1>0 DEF HostInv, Handlers, PCs, Requesting
<1> HIDE DEF k, pc
<1>3. /\ n \in Handlers /\ n.pc = pc /\ n.mode = m.mode /\ n.host = m.host /\ n.up = m.up
      /\ n.req = m.req /\ n.rule # 0
  BY <1>2 DEF Handlers
<1> HIDE DEF n
<1> QED
  BY <1>1, <1>3, ReplaceStep DEF pc

LEMMA HookAnswersStep ==
  ASSUME ProxyInv, NEW c \in Conns, HookAnswers(c)
  PROVE  ProxyInv'
<1>0. conn[c] \in Handlers /\ HostInv(c) /\ EngineInv
  BY AboutC
<1>1. conn[c].pc = "hook"
  BY DEF HookAnswers, IsAt
<1>2. conn[c].req # None /\ conn[c].req \in Requests(sc)
  BY <1>0, <1>1 DEF HostInv, Handlers, Requesting
<1>3. PICK res \in Config[sc].results :
         \/ Blocked(c)
         \/ HookReturns(c, conn[c])
         \/ HookReturns(c, IF Phase(c) = "before"
                           THEN [conn[c] EXCEPT !.req = applyMutations(@, res.edit)]
                           ELSE [conn[c] EXCEPT !.resp.set = @ \/ res.set,
                                                !.resp.replace = @ \/ res.replace])
  BY DEF HookAnswers
<1>4. res \in [action : STRING, edit : Edits(sc), set : BOOLEAN, replace : BOOLEAN]
  BY <1>0, ConfigAssumption DEF EngineInv
<1>5. CASE Blocked(c)
  BY <1>5, BlockedStep
<1>6. CASE HookReturns(c, conn[c])
  BY <1>0, <1>1, <1>2, <1>6, HookReturnsStep
<1>7. CASE Phase(c) = "before" /\ HookReturns(c, [conn[c] EXCEPT !.req = applyMutations(@, res.edit)])
  <2> DEFINE q == applyMutations(conn[c].req, res.edit)
             m == [conn[c] EXCEPT !.req = q]
  <2>1. q \in Requests(sc) /\ q.host = conn[c].req.host
    BY <1>0, <1>2, <1>4, EditedRequest
  <2>2. q # None
    BY <1>0, <2>1, ConfigAssumption DEF EngineInv
  <2>3. HookReturns(c, m)
    BY <1>7
  <2> HIDE DEF q
  <2>4. /\ m \in Handlers /\ m.mode = conn[c].mode /\ m.host = conn[c].host
        /\ m.up = conn[c].up /\ m.req = q
    BY <1>0, <2>1 DEF Handlers
  <2> HIDE DEF m
  <2> QED
    BY <1>1, <2>1, <2>2, <2>3, <2>4, HookReturnsStep
<1>8. CASE HookReturns(c, [conn[c] EXCEPT !.resp.set = @ \/ res.set,
                                          !.resp.replace = @ \/ res.replace])
  <2> DEFINE resp == [conn[c].resp EXCEPT !.set = @ \/ res.set, !.replace = @ \/ res.replace]
             m == [conn[c] EXCEPT !.resp = resp]
  <2>1. resp \in [kind : {"sized", "chunked", "sse", None}, close : BOOLEAN, set : BOOLEAN,
                  replace : BOOLEAN]
    BY <1>0, <1>4 DEF Handlers
  <2>2. m = [conn[c] EXCEPT !.resp.set = @ \/ res.set, !.resp.replace = @ \/ res.replace]
    BY <1>0 DEF Handlers
  <2>3. HookReturns(c, m)
    BY <1>8, <2>2
  <2> HIDE DEF resp
  <2>4. /\ m \in Handlers /\ m.mode = conn[c].mode /\ m.host = conn[c].host
        /\ m.up = conn[c].up /\ m.req = conn[c].req
    BY <1>0, <2>1 DEF Handlers
  <2> HIDE DEF m
  <2> QED
    BY <1>1, <1>2, <2>3, <2>4, HookReturnsStep
<1> QED
  BY <1>3, <1>5, <1>6, <1>7, <1>8

(* timeout_ms: the callback keeps its place in the environment, not its wait. *)
LEMMA HookTimesOutStep ==
  ASSUME ProxyInv, NEW c \in Conns, HookTimesOut(c)
  PROVE  ProxyInv'
<1>0. /\ conn[c] \in Handlers /\ HostInv(c) /\ AllowedInv(c) /\ CarriedInv(c)
      /\ EngineInv /\ conn \in [Conns -> Handlers]
  BY AboutC DEF ProxyInv
<1> DEFINE pc == Phase(c)
           k == conn[c].rule + 1
           n == [conn[c] EXCEPT !.pc = pc, !.rule = k]
           owner == IF env.owner = c THEN None ELSE env.owner
<1>1. /\ conn[c].pc = "hook" /\ conn' = [conn EXCEPT ![c].pc = pc, ![c].rule = @ + 1]
      /\ env' = [env EXCEPT !.owner = owner]
      /\ UNCHANGED <<sc, pool, okay, policy, lock, secret>>
  BY DEF HookTimesOut, IsAt
<1>2. conn' = [conn EXCEPT ![c] = n]
  <2> HIDE DEF pc
  <2> QED
    BY <1>0, <1>1
<1>3. k \in Nat /\ k # 0 /\ pc \in {"before", "after"} /\ pc \in PCs
  BY <1>0, <1>1 DEF HostInv, Handlers, PCs, Requesting
<1> HIDE DEF k, pc
<1>4. /\ n \in Handlers /\ n.pc = pc /\ n.mode = conn[c].mode /\ n.host = conn[c].host
      /\ n.up = conn[c].up /\ n.req = conn[c].req /\ n.rule = k
  BY <1>0, <1>3 DEF Handlers
<1> HIDE DEF n
<1>5. owner \in Conns \cup {None}
  BY <1>0 DEF EngineInv, Envs
<1> HIDE DEF owner
<1>6. env' \in Envs
  BY <1>0, <1>1, <1>5 DEF EngineInv, Envs
<1>7. EngineInv' /\ PoolInv'
  BY <1>0, <1>1, <1>6, PoolKept DEF EngineInv
<1>8. ASSUME conn'[c] = n, okay'[c] = okay[c], DOMAIN pool' = DOMAIN pool
      PROVE  HostInv(c)' /\ AllowedInv(c)' /\ CarriedInv(c)'
  <2>1. Answering(c)' = Answering(c)
    BY <1>1, <1>3, <1>4, <1>8 DEF Answering, pc
  <2>2. HostInv(c)'
    <3> DEFINE x == conn[c]
    <3>1. /\ x.mode \in {"http", "https"} /\ x.req # None /\ x.req.host = x.host
          /\ x.host \in Names /\ (x.mode = "http" => x.host \in DOMAIN pool)
          /\ x.mode = "https" => x.up # None /\ x.up.host = x.host
          /\ Answering(c) => x.up # None /\ x.up.host = x.host
      BY <1>0, <1>1 DEF HostInv, Requesting
    <3> HIDE DEF x
    <3>2. /\ n.mode = x.mode /\ n.host = x.host /\ n.up = x.up /\ n.req = x.req
          /\ n.pc \in {"before", "after"} /\ n.rule # 0
      BY <1>3, <1>4 DEF x
    <3> QED
      BY <1>8, <2>1, <3>1, <3>2 DEF HostInv
  <2>3. AllowedInv(c)'
    BY <1>0, <1>1, <1>3, <1>4, <1>8 DEF AllowedInv, Requesting
  <2>4. CarriedInv(c)'
    BY <1>0, <1>1, <1>3, <1>4, <1>8, <2>1 DEF CarriedInv, Requesting
  <2> QED
    BY <2>2, <2>3, <2>4
<1> QED
  BY <1>1, <1>2, <1>3, <1>4, <1>7, <1>8, MovesWith

(* The ways a handler ends.                                                  *)
LEMMA EndStep ==
  ASSUME ProxyInv, NEW c \in Conns,
         ResponseFails(c) \/ WriteEnds(c) \/ CopyEnds(c) \/ GuestCloses(c)
  PROVE  ProxyInv'
<1>1. GiveUp(c) /\ UNCHANGED <<sc, env, policy, lock, secret>>
  BY DEF ResponseFails, WriteEnds, CopyEnds, GuestCloses, engineVars
<1>2. conn[c].pc \notin {"before", "hook", "after"}
  BY DEF ResponseFails, WriteEnds, CopyEnds, GuestCloses, IsAt
<1> QED
  BY <1>1, <1>2, GivesUp

-----------------------------------------------------------------------------
(* Servers, idle connections and the reaper.                                 *)
LEMMA ServerClosesStep ==
  ASSUME ProxyInv, NEW c \in Conns, ServerCloses(c)
  PROVE  ProxyInv'
<1>0. /\ conn[c] \in Handlers /\ HostInv(c) /\ AllowedInv(c) /\ CarriedInv(c)
      /\ EngineInv /\ conn \in [Conns -> Handlers]
  BY AboutC DEF ProxyInv
<1> DEFINE u == conn[c].up
           up == [u EXCEPT !.open = FALSE]
           n == [conn[c] EXCEPT !.up = up]
           d == env.drops - 1
<1>1. /\ u # None /\ env.drops > 0 /\ conn' = [conn EXCEPT ![c].up.open = FALSE]
      /\ env' = [env EXCEPT !.drops = d]
      /\ UNCHANGED <<sc, pool, okay, policy, lock, secret>>
  BY DEF ServerCloses
<1>2. u \in Upstreams
  BY <1>0, <1>1 DEF Handlers
<1>3. conn' = [conn EXCEPT ![c] = n]
  BY <1>0, <1>1
<1>4. up \in Upstreams /\ up.host = u.host /\ up.left = u.left /\ up.swapped = u.swapped
  BY <1>2 DEF Upstreams
<1>5. up # None
  BY <1>4, UpstreamsAssumption
<1> HIDE DEF up
<1>6. /\ n \in Handlers /\ n.pc = conn[c].pc /\ n.mode = conn[c].mode /\ n.host = conn[c].host
      /\ n.up = up /\ n.req = conn[c].req /\ n.rule = conn[c].rule /\ n.resp = conn[c].resp
  BY <1>0, <1>4 DEF Handlers
<1> HIDE DEF n
<1>7. d \in Nat
  <2>1. env.drops \in Nat
    BY <1>0 DEF EngineInv, Envs
  <2>2. env.drops > 0
    BY <1>1
  <2> QED
    BY <2>1, <2>2
<1> HIDE DEF d
<1>8. env' \in Envs
  BY <1>0, <1>1, <1>7 DEF EngineInv, Envs
<1>9. EngineInv' /\ PoolInv'
  BY <1>0, <1>1, <1>8, PoolKept DEF EngineInv
<1>10. ASSUME conn'[c] = n, okay'[c] = okay[c], DOMAIN pool' = DOMAIN pool
       PROVE  HostInv(c)' /\ AllowedInv(c)' /\ CarriedInv(c)'
  <2>1. Phase(c)' = Phase(c) /\ Answering(c)' = Answering(c)
    BY <1>1, <1>6, <1>10 DEF Phase, RuleOf, Rules, Answering
  <2>2. HostInv(c)'
    BY <1>0, <1>1, <1>4, <1>5, <1>6, <1>10, <2>1 DEF HostInv
  <2>3. AllowedInv(c)'
    BY <1>0, <1>1, <1>6, <1>10 DEF AllowedInv, IsHostAllowed
  <2>4. CarriedInv(c)'
    BY <1>0, <1>1, <1>4, <1>5, <1>6, <1>10, <2>1
    DEF CarriedInv, InScope, isSecretAllowedForHost, Secrets
  <2> QED
    BY <2>2, <2>3, <2>4
<1> QED
  BY <1>1, <1>3, <1>6, <1>9, <1>10, MovesWith

(* One idle connection changes, but not what it carries.                     *)
LEMMA IdleChange ==
  ASSUME ProxyInv, NEW h \in DOMAIN pool, NEW i \in DOMAIN pool[h], UNCHANGED sc,
         \/ pool' = [pool EXCEPT ![h][i].open = FALSE]
         \/ pool' = [pool EXCEPT ![h][i].old = TRUE]
  PROVE  PoolInv'
<1>1. /\ pool[h] \in Seq(Upstreams) /\ Len(pool[h]) \in Nat /\ Len(pool[h]) <= MaxIdle
      /\ DOMAIN pool[h] = 1..Len(pool[h])
      /\ \A j \in 1..Len(pool[h]) : /\ pool[h][j] \in Upstreams /\ pool[h][j].host = h
                                    /\ pool[h][j].left => pool[h][j].swapped
  BY IdleOnes
<1>2. pool \in [DOMAIN pool -> Seq(Upstreams)]
  BY DEF ProxyInv, PoolInv
<1> DEFINE u == IF pool' = [pool EXCEPT ![h][i].open = FALSE]
                THEN [pool[h][i] EXCEPT !.open = FALSE] ELSE [pool[h][i] EXCEPT !.old = TRUE]
<1>3. u \in Upstreams /\ u.host = h /\ (u.left => u.swapped)
  BY <1>1 DEF Upstreams
<1>4. \E s \in Seq(Upstreams) : /\ pool' = [pool EXCEPT ![h] = s] /\ Len(s) = Len(pool[h])
                                /\ \A j \in 1..Len(s) : s[j] = IF j = i THEN u ELSE pool[h][j]
  <2> DEFINE s == [pool[h] EXCEPT ![i] = u]
  <2>1. pool' = [pool EXCEPT ![h] = s]
    BY <1>2
  <2> HIDE DEF u, Upstreams
  <2>2. s \in Seq(Upstreams) /\ Len(s) = Len(pool[h])
        /\ \A j \in 1..Len(s) : s[j] = IF j = i THEN u ELSE pool[h][j]
    BY <1>1, <1>3
  <2> HIDE DEF s
  <2> QED
    BY <2>1, <2>2
<1>5. PICK s \in Seq(Upstreams) :
         /\ pool' = [pool EXCEPT ![h] = s] /\ Len(s) = Len(pool[h])
         /\ \A j \in 1..Len(s) : s[j] = IF j = i THEN u ELSE pool[h][j]
  BY <1>4
<1> HIDE DEF u
<1>6. /\ Len(s) <= MaxIdle
      /\ \A j \in 1..Len(s) : s[j].host = h /\ (s[j].left => s[j].swapped)
  BY <1>1, <1>3, <1>5
<1> QED
  BY <1>5, <1>6, PoolChange

(* The connections that are left are some of the ones that were there.       *)
LEMMA ReapStep ==
  ASSUME ProxyInv, reapLoop
  PROVE  ProxyInv'
<1>1. /\ pool' = [h \in DOMAIN pool |-> Alive(pool[h])]
      /\ UNCHANGED <<conn, okay, sc, env, policy, lock, secret>>
  BY DEF reapLoop, engineVars
<1>2. ASSUME NEW h \in DOMAIN pool
      PROVE  /\ Alive(pool[h]) \in Seq(Upstreams) /\ Len(Alive(pool[h])) <= MaxIdle
             /\ \A i \in 1..Len(Alive(pool[h])) :
                   /\ Alive(pool[h])[i].host = h
                   /\ Alive(pool[h])[i].left => Alive(pool[h])[i].swapped
  <2> DEFINE s == pool[h]
             Olds == {i \in DOMAIN s : s[i].old}
             m == 1 + Cardinality(Olds)
             t == SubSeq(s, m, Len(s))
  <2>1. /\ s \in Seq(Upstreams) /\ Len(s) \in Nat /\ Len(s) <= MaxIdle /\ MaxIdle \in Nat
        /\ DOMAIN s = 1..Len(s)
        /\ \A i \in 1..Len(s) : s[i].host = h /\ (s[i].left => s[i].swapped)
    BY IdleOnes
  <2>2. Cardinality(Olds) \in Nat
    <3>1. IsFiniteSet(1..Len(s))
      BY <2>1, FS_Interval
    <3>2. Olds \subseteq 1..Len(s)
      BY <2>1
    <3> QED
      BY <3>1, <3>2, FS_Subset, FS_CardinalityType
  <2>3. m \in Nat \ {0}
    BY <2>2
  <2>4. Alive(pool[h]) = t
    BY DEF Alive
  <2> HIDE DEF m, s, Upstreams
  <2>5. /\ t \in Seq(Upstreams) /\ Len(t) \in Nat /\ Len(t) <= Len(s)
        /\ \A i \in 1..Len(t) : \E j \in 1..Len(s) : t[i] = s[j]
    BY <2>1, <2>3, PartOf
  <2> HIDE DEF t
  <2> QED
    BY <2>1, <2>4, <2>5
<1>3. PoolInv'
  <2> DEFINE Hosts == {r.host : r \in Config[sc].requests}
  <2>1. pool \in [Hosts -> Seq(Upstreams)] /\ Hosts' = Hosts
    BY <1>1 DEF ProxyInv, PoolInv
  <2> HIDE DEF Hosts, Upstreams
  <2>2. DOMAIN pool = Hosts
    BY <2>1
  <2>3. /\ pool' \in [Hosts -> Seq(Upstreams)] /\ DOMAIN pool' = Hosts
        /\ \A h \in Hosts : pool'[h] = Alive(pool[h])
    BY <1>1, <1>2, <2>2
  <2>4. \A h \in Hosts : DOMAIN pool'[h] = 1..Len(pool'[h])
    BY <2>3
  <2>5. \A h \in Hosts : /\ Len(pool'[h]) <= MaxIdle
                         /\ \A i \in DOMAIN pool'[h] :
                               /\ pool'[h][i].host = h
                               /\ pool'[h][i].left => pool'[h][i].swapped
    BY <1>2, <2>2, <2>3, <2>4
  <2> QED
    BY <2>1, <2>3, <2>5 DEF PoolInv, Hosts
<1> QED
  BY <1>1, <1>3, EngineKept, SharedStep

LEMMA IdleStep ==
  ASSUME ProxyInv, NEW h \in DOMAIN pool,
         IdleTooLong(h) \/ \E i \in DOMAIN pool[h] : ServerClosesIdle(h, i)
  PROVE  ProxyInv'
<1>1. UNCHANGED <<sc, policy, conn, okay, lock, secret>>
  BY DEF IdleTooLong, ServerClosesIdle, engineVars
<1>2. PoolInv'
  <2>1. CASE IdleTooLong(h)
    <3>1. PICK i \in DOMAIN pool[h] : pool' = [pool EXCEPT ![h][i].old = TRUE]
      BY <2>1 DEF IdleTooLong
    <3> QED
      BY <1>1, <3>1, IdleChange
  <2>2. CASE \E i \in DOMAIN pool[h] : ServerClosesIdle(h, i)
    <3>1. PICK i \in DOMAIN pool[h] : pool' = [pool EXCEPT ![h][i].open = FALSE]
      BY <2>2 DEF ServerClosesIdle
    <3> QED
      BY <1>1, <3>1, IdleChange
  <2> QED
    BY <2>1, <2>2
<1>3. env' \in Envs
  <2>1. EngineInv
    BY DEF ProxyInv
  <2>2. CASE IdleTooLong(h)
    BY <2>1, <2>2 DEF IdleTooLong, engineVars, EngineInv
  <2>3. CASE \E i \in DOMAIN pool[h] : ServerClosesIdle(h, i)
    <3> DEFINE d == env.drops - 1
    <3>1. env.drops > 0 /\ env' = [env EXCEPT !.drops = d]
      BY <2>3 DEF ServerClosesIdle
    <3>2. env.drops \in Nat
      BY <2>1 DEF EngineInv, Envs
    <3>3. d \in Nat
      BY <3>1, <3>2
    <3> HIDE DEF d
    <3> QED
      BY <2>1, <3>1, <3>3 DEF EngineInv, Envs
  <2> QED
    BY <2>2, <2>3
<1>4. EngineInv'
  BY <1>1, <1>3 DEF EngineInv, ProxyInv
<1> QED
  BY <1>1, <1>2, <1>4, SharedStep

-----------------------------------------------------------------------------
(* Changes of the policy and of the secrets.                                 *)

(* A step that leaves the proxy and the policy alone.                        *)
LEMMA EngineStep ==
  ASSUME ProxyInv, UNCHANGED <<sc, policy, conn, pool, okay>>, env' \in Envs,
         lock' = lock \/ \E w \in Updaters : lock' = [lock EXCEPT !.pending = w],
         \/ secret' = secret
         \/ \E n \in DOMAIN secret, t \in STRING : secret' = [secret EXCEPT ![n].text = t]
         \/ \E n \in DOMAIN secret : secret' = [secret EXCEPT ![n].cache.fresh = FALSE]
  PROVE  ProxyInv'
<1> DEFINE Caches == [value : STRING, ok : BOOLEAN, fresh : BOOLEAN]
           Files == [text : STRING, cache : Caches]
<1>1. EngineInv
  BY DEF ProxyInv
<1>2. /\ lock' \in [readers : SUBSET Conns, pending : Updaters \cup {None}]
      /\ lock'.readers = lock.readers
  BY <1>1 DEF EngineInv
<1>3. secret \in [SecretNames(sc) -> Files] /\ DOMAIN secret = SecretNames(sc)
      /\ \A n \in SecretNames(sc) : secret[n].cache.ok => secret[n].cache.value # ""
  BY <1>1 DEF EngineInv
<1>4. ASSUME NEW n \in SecretNames(sc), NEW STATE e, e \in Files, secret' = [secret EXCEPT ![n] = e],
             e.cache.ok => e.cache.value # ""
      PROVE  EngineInv'
  <2> HIDE DEF Files
  <2>1. secret' \in [SecretNames(sc) -> Files]
        /\ \A k \in SecretNames(sc) : secret'[k] = IF k = n THEN e ELSE secret[k]
    BY <1>3, <1>4
  <2>2. \A k \in SecretNames(sc) : secret'[k].cache.ok => secret'[k].cache.value # ""
    BY <1>3, <1>4, <2>1
  <2> QED
    BY <1>1, <1>2, <2>1, <2>2 DEF EngineInv, Files
<1>5. CASE secret' = secret
  <2>1. EngineInv'
    BY <1>1, <1>2, <1>5 DEF EngineInv
  <2> QED
    BY <1>2, <2>1, PoolKept, SharedStep
<1>6. CASE \E n \in DOMAIN secret, t \in STRING : secret' = [secret EXCEPT ![n].text = t]
  <2>1. PICK n \in DOMAIN secret, t \in STRING : secret' = [secret EXCEPT ![n].text = t]
    BY <1>6
  <2> DEFINE e == [secret[n] EXCEPT !.text = t]
  <2>2. secret[n] \in Files /\ n \in SecretNames(sc)
    BY <1>3, <2>1
  <2>3. e \in Files /\ e.cache = secret[n].cache
    BY <2>2
  <2>4. secret' = [secret EXCEPT ![n] = e]
    BY <1>3, <2>1
  <2> HIDE DEF e, Files
  <2>5. EngineInv'
    BY <1>3, <1>4, <2>2, <2>3, <2>4
  <2> QED
    BY <1>2, <2>5, PoolKept, SharedStep
<1>7. CASE \E n \in DOMAIN secret : secret' = [secret EXCEPT ![n].cache.fresh = FALSE]
  <2>1. PICK n \in DOMAIN secret : secret' = [secret EXCEPT ![n].cache.fresh = FALSE]
    BY <1>7
  <2> DEFINE e == [secret[n] EXCEPT !.cache.fresh = FALSE]
  <2>2. secret[n] \in Files /\ n \in SecretNames(sc)
    BY <1>3, <2>1
  <2>3. e \in Files /\ e.cache.ok = secret[n].cache.ok /\ e.cache.value = secret[n].cache.value
    BY <2>2
  <2>4. secret' = [secret EXCEPT ![n] = e]
    BY <1>3, <2>1
  <2> HIDE DEF e, Files
  <2>5. EngineInv'
    BY <1>3, <1>4, <2>2, <2>3, <2>4
  <2> QED
    BY <1>2, <2>5, PoolKept, SharedStep
<1> QED
  BY <1>5, <1>6, <1>7

LEMMA CallStep ==
  ASSUME ProxyInv, \/ AdminCalls /\ UNCHANGED proxyVars
                   \/ CloseProxy
                   \/ \E w \in Updaters : (UpdateLocks(w) \/ UpdateReplies(w)) /\ UNCHANGED proxyVars
                   \/ \E c \in Conns : HookUpdates(c)
  PROVE  ProxyInv'
<1>0. env \in Envs
  BY DEF ProxyInv, EngineInv
<1>1. CASE AdminCalls /\ UNCHANGED proxyVars
  <2> DEFINE t == Tail(env.ops)
  <2>1. env.ops # <<>> /\ env' = [env EXCEPT !.ops = t]
        /\ UNCHANGED <<sc, policy, conn, pool, okay, lock, secret>>
    BY <1>1 DEF AdminCalls, proxyVars
  <2>2. env.ops \in Seq(Ops)
    BY <1>0 DEF Envs
  <2>3. t \in Seq(Ops)
    BY <2>1, <2>2
  <2> HIDE DEF t
  <2>4. env' \in Envs
    BY <1>0, <2>1, <2>3 DEF Envs
  <2> QED
    BY <2>1, <2>4, EngineStep
<1>2. CASE CloseProxy
  <2>1. UNCHANGED <<sc, env, policy, conn, pool, okay, lock, secret>>
    BY <1>2 DEF CloseProxy, engineVars
  <2> QED
    BY <1>0, <2>1, EngineStep
<1>3. CASE \E w \in Updaters : (UpdateLocks(w) \/ UpdateReplies(w)) /\ UNCHANGED proxyVars
  <2>1. UNCHANGED <<sc, env, policy, conn, pool, okay, secret>>
        /\ (lock' = lock \/ \E w \in Updaters : lock' = [lock EXCEPT !.pending = w])
    BY <1>3 DEF UpdateLocks, UpdateReplies, proxyVars
  <2> QED
    BY <1>0, <2>1, EngineStep
<1>4. CASE \E c \in Conns : HookUpdates(c)
  <2>1. PICK c \in Conns : env' = [env EXCEPT !.owner = c, !.hookOp = None]
    BY <1>4 DEF HookUpdates
  <2>2. UNCHANGED <<sc, policy, conn, pool, okay, lock, secret>>
    BY <1>4 DEF HookUpdates, proxyVars
  <2>3. env' \in Envs
    BY <1>0, <2>1 DEF Envs
  <2> QED
    BY <2>2, <2>3, EngineStep
<1> QED
  BY <1>1, <1>2, <1>3, <1>4

LEMMA SecretStep ==
  ASSUME ProxyInv, NEW n \in DOMAIN secret, FileChanges(n) \/ EntryExpires(n), UNCHANGED proxyVars
  PROVE  ProxyInv'
<1>0. env \in Envs
  BY DEF ProxyInv, EngineInv
<1>1. UNCHANGED <<sc, policy, conn, pool, okay, lock>>
  BY DEF FileChanges, EntryExpires, proxyVars
<1>2. CASE FileChanges(n)
  <2> DEFINE t == Tail(env.texts)
             h == Head(env.texts)
  <2>1. /\ env.texts # <<>> /\ env' = [env EXCEPT !.texts = t]
        /\ secret' = [secret EXCEPT ![n].text = h]
    BY <1>2 DEF FileChanges
  <2>2. env.texts \in Seq(STRING)
    BY <1>0 DEF Envs
  <2>3. t \in Seq(STRING) /\ h \in STRING
    BY <2>1, <2>2, HeadTailProperties
  <2> HIDE DEF t, h
  <2>4. env' \in Envs
    BY <1>0, <2>1, <2>3 DEF Envs
  <2> QED
    BY <1>1, <2>1, <2>3, <2>4, EngineStep
<1>3. CASE EntryExpires(n)
  <2>1. UNCHANGED env /\ secret' = [secret EXCEPT ![n].cache.fresh = FALSE]
    BY <1>3 DEF EntryExpires
  <2> QED
    BY <1>0, <1>1, <2>1, EngineStep
<1> QED
  BY <1>2, <1>3

(* No handler is inside the engine; what the new policy allows is noted.     *)
LEMMA ApplyUpdateStep ==
  ASSUME ProxyInv, NEW w \in Updaters, ApplyUpdate(w)
  PROVE  ProxyInv'
<1>1. /\ UNCHANGED <<sc, env, secret, conn, pool>> /\ lock' = [lock EXCEPT !.pending = None]
      /\ okay' = [c \in Conns |->
            [host |-> okay[c].host \/ (/\ conn[c].host # None
                                       /\ IsHostAllowed(policy', conn[c].host)),
             path |-> okay[c].path \/ (/\ conn[c].req # None
                                       /\ pathAllowed(policy', conn[c].host, conn[c].req.path))]]
  BY DEF ApplyUpdate, UpdateApplies
<1>2. EngineInv' /\ lock'.readers = lock.readers
  <2>1. EngineInv
    BY DEF ProxyInv
  <2>2. /\ lock' \in [readers : SUBSET Conns, pending : Updaters \cup {None}]
        /\ lock'.readers = lock.readers
    BY <1>1, <2>1 DEF EngineInv
  <2> QED
    BY <1>1, <2>1, <2>2 DEF EngineInv
<1>3. PoolInv'
  BY <1>1, PoolKept
<1>4. /\ okay' \in [Conns -> [host : BOOLEAN, path : BOOLEAN]]
      /\ conn' \in [Conns -> Handlers'] /\ lock'.readers = InEngine'
  <2>1. conn \in [Conns -> Handlers] /\ okay \in [Conns -> [host : BOOLEAN, path : BOOLEAN]]
        /\ Handlers' = Handlers
    BY <1>1 DEF ProxyInv, Handlers
  <2>2. \A c \in Conns : okay'[c] \in [host : BOOLEAN, path : BOOLEAN]
    BY <1>1, <2>1
  <2>3. okay' \in [Conns -> [host : BOOLEAN, path : BOOLEAN]]
    BY <1>1, <2>2
  <2> QED
    BY <1>1, <1>2, <2>1, <2>3 DEF ProxyInv, InEngine
<1>5. ASSUME NEW c \in Conns
      PROVE  HostInv(c)' /\ AllowedInv(c)' /\ CarriedInv(c)'
  <2>1. /\ conn'[c] = conn[c] /\ HostInv(c) /\ AllowedInv(c) /\ CarriedInv(c)
        /\ okay[c] \in [host : BOOLEAN, path : BOOLEAN]
    BY <1>1, AboutC
  <2>2. Phase(c)' = Phase(c) /\ Answering(c)' = Answering(c)
    BY <1>1 DEF Phase, RuleOf, Rules, Answering
  <2>3. HostInv(c)'
    BY <1>1, <2>1, <2>2 DEF HostInv
  <2>4. CarriedInv(c)'
    BY <1>1, <2>1, <2>2 DEF CarriedInv, InScope, isSecretAllowedForHost, Secrets
  <2>5. /\ okay'[c].host = (okay[c].host \/ (/\ conn[c].host # None
                                             /\ IsHostAllowed(policy', conn[c].host)))
        /\ okay'[c].path = (okay[c].path \/ (/\ conn[c].req # None
                                 /\ pathAllowed(policy', conn[c].host, conn[c].req.path)))
    BY <1>1
  <2>6. /\ conn[c].pc \in {"check", "host"} => conn[c].host # None
        /\ conn[c].pc \in {"host", "onreq"} => conn[c].req # None
    <3>1. DOMAIN pool \subseteq Names /\ None \notin Names
      BY AboutC, HostsAreNames
    <3> QED
      BY <2>1, <3>1 DEF HostInv, Requesting
  <2>7. IsHostAllowed(policy, conn[c].host)' <=> IsHostAllowed(policy', conn[c].host)
    BY <1>1, <2>1 DEF IsHostAllowed
  <2>8. AllowedInv(c)'
    BY <2>1, <2>5, <2>6, <2>7 DEF AllowedInv
  <2> QED
    BY <2>3, <2>4, <2>8
<1> QED
  BY <1>2, <1>3, <1>4, <1>5 DEF ProxyInv

-----------------------------------------------------------------------------
(* The invariant.                                                            *)
LEMMA ProxyStarts ==
  ASSUME ProxyInit
  PROVE  ProxyInv
<1> DEFINE Hosts == {r.host : r \in Config[sc].requests}
<1>1. /\ EngineInit /\ conn = [c \in Conns |-> Idle] /\ pool = [h \in Hosts |-> <<>>]
      /\ okay = [c \in Conns |-> [host |-> FALSE, path |-> FALSE]]
  BY DEF ProxyInit
<1>2. EngineInv
  <2>1. sc \in DOMAIN Config /\ env \in Envs
    BY <1>1, ConfigAssumption DEF EngineInit
  <2>2. lock \in [readers : SUBSET Conns, pending : Updaters \cup {None}]
    BY <1>1 DEF EngineInit
  <2>0. "" \in STRING /\ "v1" \in STRING
    BY LiteralsAssumption
  <2>3. NoEntry \in [value : STRING, ok : BOOLEAN, fresh : BOOLEAN] /\ ~NoEntry.ok
    BY <2>0 DEF NoEntry
  <2>4. secret = [n \in SecretNames(sc) |-> [text |-> "v1", cache |-> NoEntry]]
    BY <1>1 DEF EngineInit, SecretNames
  <2> HIDE DEF NoEntry
  <2>5. /\ secret \in [SecretNames(sc) ->
              [text : STRING, cache : [value : STRING, ok : BOOLEAN, fresh : BOOLEAN]]]
        /\ \A n \in SecretNames(sc) : ~secret[n].cache.ok
    BY <2>0, <2>3, <2>4
  <2> QED
    BY <2>1, <2>2, <2>5 DEF EngineInv
<1>3. PoolInv
  <2> HIDE DEF Hosts, Upstreams
  <2>1. <<>> \in Seq(Upstreams) /\ Len(<<>>) = 0 /\ DOMAIN <<>> = {}
    OBVIOUS
  <2>2. pool \in [Hosts -> Seq(Upstreams)] /\ DOMAIN pool = Hosts
        /\ \A h \in Hosts : pool[h] = <<>>
    BY <1>1, <2>1
  <2> QED
    BY <2>1, <2>2, ProxyBounds DEF PoolInv, Hosts
<1>4. Idle \in Handlers /\ Idle.pc = "new"
  BY DEF Idle, NoResp, Handlers, PCs
<1> HIDE DEF Idle
<1>5. /\ conn \in [Conns -> Handlers] /\ okay \in [Conns -> [host : BOOLEAN, path : BOOLEAN]]
      /\ \A c \in Conns : conn[c].pc = "new"
  <2> HIDE DEF Handlers
  <2> QED
    BY <1>1, <1>4
<1>6. lock.readers = InEngine
  BY <1>1, <1>5 DEF EngineInit, InEngine
<1>7. \A c \in Conns : HostInv(c) /\ AllowedInv(c) /\ CarriedInv(c)
  BY <1>5 DEF HostInv, AllowedInv, CarriedInv, Answering, Requesting
<1> QED
  BY <1>2, <1>3, <1>5, <1>6, <1>7 DEF ProxyInv

LEMMA ServeStep ==
  ASSUME ProxyInv, NEW c \in Conns, EngineCall(c) \/ Serve(c)
  PROVE  ProxyInv'
BY CheckOnceStep, ConnectStep, CheckHostStep, OnRequestStep, BeforeRuleStep, InjectSecretsStep,
   GetStep, SendRequestStep, EndStep, OnResponseStep, AfterRuleStep, RewriteBodyStep,
   WriteResponseStep, HookTimesOutStep, ReadResponseStep, HookAnswersStep DEF EngineCall, Serve

LEMMA EnvironmentStep ==
  ASSUME ProxyInv, Environment
  PROVE  ProxyInv'
<1>1. CASE \E c \in Conns : \/ Accept(c) \/ ReadRequest(c) \/ GuestCloses(c) \/ CopyEnds(c)
                            \/ ServerCloses(c) \/ HookUpdates(c)
  BY <1>1, AcceptStep, ReadRequestStep, EndStep, ServerClosesStep, CallStep
<1>2. CASE \E h \in DOMAIN pool : IdleTooLong(h)
                                  \/ \E i \in DOMAIN pool[h] : ServerClosesIdle(h, i)
  BY <1>2, IdleStep
<1>3. CASE \E n \in DOMAIN secret : (FileChanges(n) \/ EntryExpires(n)) /\ UNCHANGED proxyVars
  BY <1>3, SecretStep
<1>4. CASE (AdminCalls /\ UNCHANGED proxyVars) \/ CloseProxy
  BY <1>4, CallStep
<1>5. CASE reapLoop
  BY <1>5, ReapStep
<1> QED
  BY <1>1, <1>2, <1>3, <1>4, <1>5 DEF Environment

LEMMA ProxyStep ==
  ASSUME ProxyInv, [ProxyNext]_netVars
  PROVE  ProxyInv'
<1>1. CASE Environment
  BY <1>1, EnvironmentStep
<1>2. CASE \E w \in Updaters : PolicyStep(w)
  BY <1>2, ApplyUpdateStep, CallStep DEF PolicyStep
<1>3. CASE \E c \in Conns : EngineCall(c) \/ Serve(c)
  BY <1>3, ServeStep
<1>4. CASE UNCHANGED netVars
  <2>1. UNCHANGED <<sc, env, policy, lock, secret, conn, pool, okay>>
    BY <1>4 DEF netVars, engineVars, proxyVars
  <2> QED
    BY <2>1, EngineKept, PoolKept, SharedStep
<1> QED
  BY <1>1, <1>2, <1>3, <1>4 DEF ProxyNext

LEMMA ProxyHolds == ProxySpec => []ProxyInv
<1>1. ProxyInit => ProxyInv
  BY ProxyStarts
<1>2. ProxyInv /\ [ProxyNext]_netVars => ProxyInv'
  BY ProxyStep
<1> QED
  BY <1>1, <1>2, PTL DEF ProxySpec

-----------------------------------------------------------------------------
(* The readers of Engine.mu are the handlers between OnRequest's and         *)
(* OnResponse's RLock and RUnlock (engine.go:320, 364), whatever way they    *)
(* leave, and put never exceeds maxIdleConnsPerHost (connpool.go:68).        *)
THEOREM ProxyTypeCorrect == ProxySpec => []ProxyTypeOK
<1>1. ProxyInv => ProxyTypeOK
  <2> SUFFICES ASSUME ProxyInv PROVE ProxyTypeOK
    OBVIOUS
  <2>1. lock.pending \in Updaters \cup {None} /\ lock.readers = InEngine
    BY DEF ProxyInv, EngineInv
  <2>2. \A c \in Conns : conn[c].pc \in PCs
    BY AboutC DEF Handlers
  <2>3. \A h \in DOMAIN pool : Len(pool[h]) <= MaxIdle
    BY IdleOnes
  <2> QED
    BY <2>1, <2>2, <2>3 DEF ProxyTypeOK
<1> QED
  BY <1>1, ProxyHolds, PTL

(* However often the policy changes while requests are on their way, a       *)
(* request that left had its host and its path allowed at some moment since  *)
(* it was read, a connection its host since it was accepted (http.go:51).    *)
THEOREM ForwardedOnlyAllowed == ProxySpec => []ForwardedWasAllowed
<1>1. ProxyInv => ForwardedWasAllowed
  <2> SUFFICES ASSUME ProxyInv, NEW c \in Conns
               PROVE  /\ conn[c].pc \in {"sent", "copy"} => okay[c].host
                      /\ conn[c].pc = "sent" => okay[c].path
    BY DEF ForwardedWasAllowed
  <2>1. AllowedInv(c)
    BY AboutC
  <2> QED
    BY <2>1 DEF AllowedInv, Requesting
<1> QED
  BY <1>1, ProxyHolds, PTL

(* Whatever rules and callbacks put into a request, and whatever happens to  *)
(* the secrets' files, what is sent carries a secret's value only to the     *)
(* secret's hosts, never an empty one, and no placeholder in header or URL   *)
(* to another host (engine.go:333-347).                                      *)
THEOREM SecretsStayInScope == ProxySpec => []SecretsInScope
<1>1. ProxyInv => SecretsInScope
  <2> SUFFICES ASSUME ProxyInv, NEW c \in Conns, conn[c].pc = "sent"
               PROVE  conn[c].up.host = conn[c].req.host /\ InScope(conn[c].req)
    BY DEF SecretsInScope
  <2>1. HostInv(c) /\ CarriedInv(c)
    BY AboutC
  <2> QED
    BY <2>1 DEF HostInv, CarriedInv, Requesting
<1> QED
  BY <1>1, ProxyHolds, PTL

(* No connection is used again before the answer to its last request is      *)
(* read to its end, but for a body a callback replaced (http.go:121-128).    *)
THEOREM ReuseIsClean == ProxySpec => []ReusedAfterWholeAnswer
<1>1. ProxyInv => ReusedAfterWholeAnswer
  <2> SUFFICES ASSUME ProxyInv PROVE ReusedAfterWholeAnswer
    OBVIOUS
  <2>1. \A h \in DOMAIN pool : \A i \in DOMAIN pool[h] : pool[h][i].left => pool[h][i].swapped
    BY IdleOnes
  <2>2. ASSUME NEW c \in Conns, conn[c].pc = "read", conn[c].up # None, conn[c].up.left
        PROVE  conn[c].up.swapped
    <3>1. CarriedInv(c)
      BY AboutC
    <3> QED
      BY <2>2, <3>1 DEF CarriedInv, Answering
  <2> QED
    BY <2>1, <2>2 DEF ReusedAfterWholeAnswer
<1> QED
  BY <1>1, ProxyHolds, PTL
=============================================================================
