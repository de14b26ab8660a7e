--------------------------- MODULE MCProxySession ---------------------------
(* Scenarios for the proxy: each one pairs a configuration with the        *)
(* requests, answers and policy changes that put it to the test.           *)
EXTENDS ProxySession

CONSTANTS c1, c2

Two == {c1, c2}

api == <<"api", "com">>
other == <<"other", "com">>
anyCom == <<"*", "com">>

Req(host, path, ph) == [host |-> host, path |-> path, method |-> "GET", ph |-> ph,
                        close |-> FALSE, subst |-> {}]
Closing(r) == [r EXCEPT !.close = TRUE]
Rule(phase) == [phase |-> phase, action |-> "", hosts |-> {}, methods |-> {}, path |-> None,
                edit |-> NoEdit, replace |-> FALSE, callback |-> FALSE, timeout |-> FALSE]
Answer(act) == [action |-> act, edit |-> NoEdit, set |-> FALSE,
                replace |-> FALSE]
Segments == {<<"a", "ab">>}
Prefix(s, slash) == [segs |-> s, slash |-> slash]
Resp(k, c) == [kind |-> k, close |-> c]

Plain == Req(api, <<"r", "a">>, {})

Base ==
    [hosts |-> {api}, paths |-> [k \in {} |-> {}], blockPrivate |-> FALSE, private |-> {},
     rules |-> <<>>, secrets |-> [n \in {} |-> None], dests |-> {api},
     modes |-> [c \in Two |-> {"http"}], requests |-> {Plain},
     responses |-> {Resp("sized", FALSE)}, results |-> {Answer("allow")},
     closes |-> FALSE,
     env |-> [left |-> 2, drops |-> 0, ops |-> <<>>, texts |-> <<>>,
              hookOp |-> None, owner |-> None]]

\* Hosts and paths are allowed and taken back while requests are under way.
Updates ==
    [Base EXCEPT
       !.hosts = {anyCom}, !.dests = {api, other}, !.blockPrivate = TRUE, !.private = {other},
       !.modes = [c \in Two |-> IF c = c1 THEN {"http"} ELSE {"http", "https", "tcp"}],
       !.requests = {Plain, Req(other, <<"r", "a">>, {}), Req(api, <<"r", "a", "..", "b">>, {}),
                     Req(api, <<"r", "ab">>, {})},
       !.paths = [k \in {api} |-> {Prefix(<<"r", "a">>, FALSE)}], !.closes = TRUE,
       !.env.ops = <<[kind |-> "remove", hosts |-> {anyCom}], [kind |-> "add", hosts |-> {other, <<>>}],
                 [kind |-> "setPath", host |-> api, prefixes |-> {Prefix(<<"r", "b">>, TRUE)}],
                 [kind |-> "clearPath", host |-> api]>>]

\* Rules and callbacks put a secret's placeholder into requests to any host.
SecretRules ==
    [Base EXCEPT
       !.hosts = {}, !.modes = [c \in Two |-> IF c = c1 THEN {"http", "https"} ELSE {}],
       !.env.left = 3, !.dests = {api, other},
       !.secrets = [n \in {"s", "f", "g"} |->
                      IF n = "s" THEN [hosts |-> {api}, file |-> FALSE, value |-> "x", placeholder |-> TRUE]
                      ELSE [hosts |-> {api}, file |-> TRUE, value |-> "", placeholder |-> n = "f"]],
       !.requests = {Req(api, <<"r">>, {<<"f", "basic">>, <<"g", "query">>}),
                     Req(api, <<"r">>, {<<"s", "query">>, <<"s", "body">>}),
                     Req(other, <<"r">>, {<<"s", "path">>}), Req(other, <<"q">>, {})},
       !.rules = <<[Rule("") EXCEPT !.path = <<"*">>, !.methods = {"GET"}, !.callback = TRUE],
                   [Rule("before") EXCEPT !.hosts = {other}, !.path = <<"q">>,
                      !.edit = [NoEdit EXCEPT !.query = "set", !.sec = "s"]],
                   [Rule("before") EXCEPT !.hosts = {api}, !.action = "allow"]>>,
       !.results = {Answer("allow"),
                    [Answer("allow") EXCEPT
                       !.edit = [NoEdit EXCEPT !.headers = "set", !.sec = "s"]],
                    [Answer("mutate") EXCEPT
                       !.edit = [NoEdit EXCEPT !.headers = "drop", !.query = "drop", !.path = <<"r">>]],
                    Answer("block"), Answer("error")},
       !.env.texts = <<"", "unreadable">>]

\* Answers of every kind, rewritten in every way, over connections that are
\* kept and that servers close.
Answers(rules, second) ==
    [Base EXCEPT
       !.env.left = 3, !.env.drops = 1, !.rules = rules,
       !.modes = [c \in Two |-> IF c = c1 THEN {"http"} ELSE second],
       !.requests = {Plain, Closing(Plain)},
       !.responses = {Resp("sized", FALSE), Resp("sized", TRUE), Resp("chunked", FALSE),
                      Resp("sse", FALSE), Resp("interim", FALSE)},
       !.results = {Answer("allow"), Answer("block"),
                    [Answer("mutate") EXCEPT !.set = TRUE]}]

Rewrites == [Rule("after") EXCEPT !.replace = TRUE, !.hosts = {api}]
Refuses == [Rule("after") EXCEPT !.action = "block"]
CalledAfter == [Rule("after") EXCEPT !.callback = TRUE, !.timeout = TRUE]

\* The callback changes the allow list, and so does an administrator.
Nested(timeout) ==
    [Base EXCEPT
       !.rules = <<[Rule("before") EXCEPT !.callback = TRUE, !.timeout = timeout],
                   [Rule("after") EXCEPT !.callback = TRUE, !.timeout = timeout]>>,
       !.env.hookOp = [kind |-> "add", hosts |-> {other}],
       !.env.ops = <<[kind |-> "remove", hosts |-> {other}]>>]

AllScenarios ==
    [updates |-> Updates, secrets |-> SecretRules, nested |-> Nested(TRUE),
     rewrites |-> Answers(<<Rewrites>>, {"http", "https"}), called |-> Answers(<<CalledAfter>>, {"https"}),
     refused |-> Answers(<<CalledAfter, Rewrites, Refuses>>, {"https"})]
NoTimeout == [nested |-> Nested(FALSE)]
=============================================================================
