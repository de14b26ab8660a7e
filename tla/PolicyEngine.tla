---------------------------- MODULE PolicyEngine ----------------------------
(***************************************************************************)
(* policy.Engine: which requests of the guest may leave, and what is put   *)
(* into them on the way.  The engine is shared by every connection of the  *)
(* proxy and by the callers that change the policy of a running sandbox.   *)
(* Its RWMutex is kept: OnRequest and OnResponse hold it for reading while *)
(* an SDK callback runs, and a waiting writer stops every new reader.      *)
(* Host names are sequences of labels, paths sequences of segments.        *)
(***************************************************************************)
EXTENDS Integers, Sequences, FiniteSets, SequencesExt

CONSTANTS Conns,      \* connections of the guest, one handler each
          Config,     \* by scenario: a configuration and the traffic it meets
          Begins,     \* pairs of path segments, the first one begins the second
          None

Names == Seq(STRING)
Places == {"header", "basic", "query", "path", "body"}
SecretNames(s) == DOMAIN Config[s].secrets

Requests(s) ==
    [host : Names, path : Names, method : STRING, close : BOOLEAN,
     ph : SUBSET (SecretNames(s) \X Places),
     subst : SUBSET [sec : SecretNames(s), place : Places, value : STRING]]
Edits(s) == [headers : {"keep", "set", "drop"}, query : {"keep", "set", "drop"},
             path : Names \cup {None}, sec : SecretNames(s) \cup {None}]
PathPrefixes == [segs : Names, slash : BOOLEAN]
Ops == [kind : {"add", "remove"}, hosts : SUBSET Names]
          \cup [kind : {"setPath"}, host : Names, prefixes : SUBSET PathPrefixes]
          \cup [kind : {"clearPath"}, host : Names]
Envs == [left : Nat, drops : Nat, ops : Seq(Ops), texts : Seq(STRING),
         hookOp : Ops \cup {None}, owner : Conns \cup {None}]

ASSUME ConfigAssumption ==
    /\ None \notin Names
    /\ \A s \in DOMAIN Config :
          /\ None \notin Requests(s)
          /\ Config[s].dests \subseteq Names
          /\ Config[s].modes \in [Conns -> SUBSET {"http", "https", "tcp"}]
          /\ Config[s].requests \subseteq Requests(s)
          /\ Config[s].responses \subseteq
                [kind : {"sized", "chunked", "sse", "interim"}, close : BOOLEAN]
          /\ Config[s].rules \in
                Seq([phase : STRING, action : STRING, hosts : SUBSET Names,
                     methods : SUBSET STRING, path : Names \cup {None}, edit : Edits(s),
                     replace : BOOLEAN, callback : BOOLEAN, timeout : BOOLEAN])
          /\ Config[s].results \subseteq [action : STRING, edit : Edits(s),
                                         set : BOOLEAN, replace : BOOLEAN]
          /\ Config[s].secrets \in
                [SecretNames(s) ->
                   [hosts : SUBSET Names, file : BOOLEAN, value : STRING, placeholder : BOOLEAN]]
          /\ Config[s].env \in Envs

\* A fact of TLA+ that the provers have no rule for.
ASSUME LiteralsAssumption == {"", "v1"} \subseteq STRING

VARIABLES sc,      \* the scenario
          env,     \* what is left of its requests, updates and faults
          policy,  \* allowed hosts and per-host path prefixes
          lock,    \* Engine.mu: its readers and the writer that waits
          secret,  \* contents of each secret's file, and the engine's cache
          upd      \* who changes the policy, and how far the call is

Updaters == {"admin", "callback"}

\* A pattern is a name with at most one "*" standing for one or more labels.
matchGlob(p, h) ==
    \/ p = h
    \/ \E i \in 1..Len(p) : /\ p[i] = "*" /\ Len(h) >= Len(p)
                            /\ IsPrefix(SubSeq(p, 1, i - 1), h)
                            /\ IsSuffix(SubSeq(p, i + 1, Len(p)), h)

\* path.Clean: "." and ".." are resolved before the prefix is compared.
Clean(path) ==
    LET Next1(done, s) == CASE s = "." -> done
                            [] s = ".." /\ done = <<>> -> done
                            [] s = ".." -> SubSeq(done, 1, Len(done) - 1)
                            [] OTHER -> Append(done, s)
    IN  FoldLeft(Next1, <<>>, path)

\* strings.HasPrefix, of the path or of the path with a "/" after it.  A prefix
\* that does not end in "/" covers segments that only begin with its last one.
Covers(q, path) ==
    \/ IsPrefix(q.segs, path)
    \/ /\ ~q.slash /\ q.segs # <<>> /\ Len(q.segs) <= Len(path)
       /\ IsPrefix(Front(q.segs), path)
       /\ <<Last(q.segs), path[Len(q.segs)]>> \in Begins

pathAllowed(p, host, path) ==
    LET keys == {k \in DOMAIN p.paths : matchGlob(k, host)}
    IN  keys # {} => \E k \in keys : \E q \in p.paths[k] : Covers(q, Clean(path))

IsHostAllowed(p, host) ==
    /\ ~(Config[sc].blockPrivate /\ host \in Config[sc].private)
    /\ p.hosts = {} \/ \E q \in p.hosts : matchGlob(q, host)

-----------------------------------------------------------------------------
(* Changes of the policy, from the RPC handler or the exec relay.          *)

AddAllowedHosts(p, hosts) == [p EXCEPT !.hosts = @ \cup (hosts \ {<<>>})]
RemoveAllowedHosts(p, hosts) == [p EXCEPT !.hosts = @ \ hosts]
ClearPathAllow(p, host) ==
    [p EXCEPT !.paths = [k \in DOMAIN p.paths \ {host} |-> p.paths[k]]]
SetPathAllow(p, host, prefixes) ==
    IF prefixes = {}
    THEN ClearPathAllow(p, host)
    ELSE [p EXCEPT !.paths = [k \in DOMAIN p.paths \cup {host} |->
                                 IF k = host THEN prefixes ELSE p.paths[k]]]

Updated(p, op) == CASE op.kind = "add" -> AddAllowedHosts(p, op.hosts)
                    [] op.kind = "remove" -> RemoveAllowedHosts(p, op.hosts)
                    [] op.kind = "setPath" -> SetPathAllow(p, op.host, op.prefixes)
                    [] op.kind = "clearPath" -> ClearPathAllow(p, op.host)

-----------------------------------------------------------------------------
(* Interception rules.                                                     *)

\* Blank names are dropped from a rule; one with no name left edits nothing.
NoEdit == [headers |-> "keep", query |-> "keep", path |-> None, sec |-> None]
Mutates(r) == IF r.phase = "before" THEN r.edit # NoEdit ELSE r.replace

normalizeAction(a) == IF a \in {"block", "mutate"} THEN a ELSE "allow"

compiledRule(r) ==
    LET phase == IF r.phase = "after" THEN "after" ELSE "before"
        action == normalizeAction(r.action)
        c == [r EXCEPT !.phase = phase, !.hosts = @ \ {<<>>}]
    IN  [c EXCEPT !.action = IF action = "allow" /\ Mutates(c) THEN "mutate" ELSE action]

\* A rule that would do nothing is dropped from the list; here it keeps its
\* place and matches nothing.
Effective(r) == r.action = "block" \/ Mutates(r) \/ r.callback

\* The SDK refuses a rule with both a callback and an action of its own.
ValidHooks(rules) == \A i \in DOMAIN rules :
                        rules[i].callback => rules[i].action \in {"", "allow"}

compileNetworkRules(rules) == [i \in DOMAIN rules |-> compiledRule(rules[i])]

matches(r, req) ==
    /\ Effective(r)
    /\ r.hosts = {} \/ \E h \in r.hosts : matchGlob(h, req.host)
    /\ r.methods = {} \/ req.method \in r.methods
    /\ r.path = None \/ /\ Len(r.path) = Len(req.path)
                        /\ \A i \in DOMAIN r.path : r.path[i] \in {"*", req.path[i]}

\* What rules and callbacks do to the one credential header, to the query and
\* to the path; "set" may put a secret's placeholder there.
At(places, req) == {x \in req.ph : x[2] \in places}
Given(how, place, sec) == IF how = "set" /\ sec # None THEN {<<sec, place>>} ELSE {}
applyMutations(req, e) ==
    LET gone == (IF e.headers = "keep" THEN {} ELSE {"header", "basic"})
                \cup (IF e.query = "keep" THEN {} ELSE {"query"})
                \cup (IF e.path = None THEN {} ELSE {"path"})
    IN  [req EXCEPT !.ph = (@ \ At(gone, req)) \cup Given(e.headers, "header", e.sec)
                           \cup Given(e.query, "query", e.sec),
                    !.path = IF e.path = None THEN @ ELSE e.path]

\* A callback's answer: allow with a mutation counts as mutate, mutate without
\* one changes nothing, an error lets the request pass as it is.
HasMutation(res, phase) == IF phase = "before" THEN res.edit # NoEdit ELSE res.set \/ res.replace
callbackAction(res, phase) ==
    LET a == normalizeAction(res.action)
    IN  IF a = "allow" /\ HasMutation(res, phase) THEN "mutate" ELSE a

-----------------------------------------------------------------------------
(* Secrets.                                                                *)

\* NewEngine: a secret configured without a placeholder gets one, and is
\* rebuilt without its ValueFile.
NewEngine(s) == IF s.placeholder THEN s ELSE [s EXCEPT !.file = FALSE]
Engine == [s \in DOMAIN Config |->
              [rules |-> compileNetworkRules(Config[s].rules),
               secrets |-> [n \in DOMAIN Config[s].secrets |-> NewEngine(Config[s].secrets[n])]]]
Rules == Engine[sc].rules
Secrets == Engine[sc].secrets

isSecretAllowedForHost(n, host) ==
    Secrets[n].hosts = {} \/ \E p \in Secrets[n].hosts : matchGlob(p, host)

\* Mutant of requestContainsPlaceholder: the URL is not searched.
headersContainPlaceholder(req, n) ==
    \E x \in req.ph : x[1] = n /\ x[2] \in {"header", "basic"}

requestContainsPlaceholder(req, n) ==
    \E x \in req.ph : x[1] = n /\ x[2] \in {"header", "basic", "query", "path"}

NoEntry == [value |-> "", ok |-> FALSE, fresh |-> FALSE]
Entry(text) == [value |-> text, ok |-> text # "", fresh |-> TRUE]

\* A fresh cache entry is used as it is; otherwise the file is read, and when
\* it cannot be read the last value is used again.
resolveSecretValue(n) ==
    LET s == Secrets[n]
        ent == secret[n].cache
    IN  IF ~s.file THEN [value |-> s.value, ok |-> s.value # "", cache |-> ent]
        ELSE IF (ent.ok /\ ent.fresh) \/ secret[n].text = "unreadable"
             THEN [value |-> ent.value, ok |-> ent.ok, cache |-> ent]
             ELSE LET e == Entry(secret[n].text)
                  IN  [value |-> e.value, ok |-> e.ok, cache |-> e]

Leaks(req) == \E n \in DOMAIN Secrets : /\ ~isSecretAllowedForHost(n, req.host)
                                       /\ requestContainsPlaceholder(req, n)

Resolvable(req) == {n \in DOMAIN Secrets : /\ isSecretAllowedForHost(n, req.host)
                                           /\ resolveSecretValue(n).ok}

\* Header values and the query get the value; path and body keep what they
\* have, and so does everything when the value cannot be resolved.
replaceInRequest(req) ==
    LET here == {x \in At({"header", "basic", "query"}, req) : x[1] \in Resolvable(req)}
    IN  [req EXCEPT !.ph = @ \ here,
                    !.subst = {[sec |-> x[1], place |-> x[2],
                                value |-> resolveSecretValue(x[1]).value] : x \in here}]

\* The values OnRequest looks up, in map order, until a leak makes it return.
CachedAfter(req) == [n \in DOMAIN secret |->
                       IF n \in DOMAIN Secrets /\ isSecretAllowedForHost(n, req.host)
                       THEN [secret[n] EXCEPT !.cache = resolveSecretValue(n).cache]
                       ELSE secret[n]]

-----------------------------------------------------------------------------
(* The lock, and the calls that change the policy.                         *)

CanRead == lock.pending = None
RLock(c) == [lock EXCEPT !.readers = @ \cup {c}]
RUnlock(c) == [lock EXCEPT !.readers = @ \ {c}]

\* The handlers refuse a call without hosts before the engine sees it.
AdminCalls ==
    /\ upd["admin"].st = "idle" /\ env.ops # <<>>
    /\ upd' = [upd EXCEPT !["admin"] = [st |-> "want", op |-> Head(env.ops)]]
    /\ env' = [env EXCEPT !.ops = Tail(@)]
    /\ UNCHANGED <<sc, policy, lock, secret>>

UpdateLocks(w) ==
    /\ upd[w].st = "want" /\ lock.pending = None
    /\ lock' = [lock EXCEPT !.pending = w]
    /\ upd' = [upd EXCEPT ![w].st = "locking"]
    /\ UNCHANGED <<sc, env, policy, secret>>

UpdateApplies(w) ==
    /\ upd[w].st = "locking" /\ lock.readers = {}
    /\ policy' = Updated(policy, upd[w].op)
    /\ lock' = [lock EXCEPT !.pending = None]
    /\ upd' = [upd EXCEPT ![w].st = "applied"]
    /\ UNCHANGED <<sc, env, secret>>

\* The answer lists the hosts (or prefixes) in effect, under the read lock.
UpdateReplies(w) ==
    /\ upd[w].st = "applied" /\ CanRead
    /\ upd' = [upd EXCEPT ![w] = [st |-> "idle", op |-> None]]
    /\ UNCHANGED <<sc, env, policy, lock, secret>>

\* The host rotates a secret's file; a minute passes for a cache entry.
FileChanges(n) ==
    /\ Secrets[n].file /\ env.texts # <<>>
    /\ secret' = [secret EXCEPT ![n].text = Head(env.texts)]
    /\ env' = [env EXCEPT !.texts = Tail(@)]
    /\ UNCHANGED <<sc, policy, lock, upd>>

EntryExpires(n) ==
    /\ secret[n].cache.fresh
    /\ secret' = [secret EXCEPT ![n].cache.fresh = FALSE]
    /\ UNCHANGED <<sc, env, policy, lock, upd>>

EngineInit ==
    /\ sc \in DOMAIN Config
    /\ env = Config[sc].env
    /\ policy = [hosts |-> Config[sc].hosts, paths |-> Config[sc].paths]
    /\ lock = [readers |-> {}, pending |-> None]
    /\ secret = [n \in DOMAIN Config[sc].secrets |-> [text |-> "v1", cache |-> NoEntry]]
    /\ upd = [w \in Updaters |-> [st |-> "idle", op |-> None]]
=============================================================================
