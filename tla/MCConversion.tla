---- MODULE MCConversion ----
(***************************************************************************)
(* Small instances of IngressContent.                                      *)
(***************************************************************************)
EXTENDS IngressContent

AllPaths ==
    {[prefix |-> prefix, form |-> form] :
        prefix \in {<<>>, <<"/", "a">>, <<"/", "a", "/", "b">>},
        form \in {"slashOrEnd", "rest", "emptyGroup"}}
    \cup {[prefix |-> prefix, form |-> "plain"] :
        prefix \in {<<>>, Slash, <<"/", "a">>, <<"/", "a", "/">>}}

RequestsUsed ==
    {base \o tail :
        base \in {Slash, <<"/", "a">>, <<"/", "b">>, <<"/", "a", "/", "b">>},
        tail \in {<<>>, Slash, <<"a">>, <<"/", "a">>, <<"/", "a", "/">>, <<"/", "b", "/", "a">>}}

Targets ==
    {<<"/", "$1">>, <<"/", "$2">>, <<"/", "b", "/", "$1">>, <<"/", "b", "/", "$2">>,
     <<"$2">>, <<"/", "$1", "/", "b">>, Slash, <<"/", "b">>}

\* A text, numbers of seconds and durations: 9s, 10s, 61s, 1h1m1s, more than a
\* word counts, less than nothing, half a tick less than a second.
Timeouts ==
    {[form |-> "text", n |-> 0]}
    \cup {[form |-> "seconds", n |-> n] : n \in {-1, 0, 9, 10, 61, 3661, 9000}}
    \cup {[form |-> "duration", n |-> n] : n \in {1, 1999, 90000, 7325003}}

HashKeys ==
    {<<>>, <<" ", "$remote_addr">>, <<"$binary_remote_addr">>, <<"$cookie_", "a">>,
     <<"$arg_", "a">>, <<"$http_", "a", "_", "b">>, <<" ", "$http_", "a", " ">>, <<"a">>}

\* Ports that 32 bits tell apart or not (with PortWord = 2^17), and one too large
\* to read; a URL without a host of two labels, and one that cannot be read.
AuthURLs ==
    {[wellFormed |-> TRUE, scheme |-> scheme, host |-> <<"auth", "ns", "svc">>, port |-> port] :
        scheme \in {"http", "https"},
        port \in {{}, {0}, {8080}, {65535}, {70000}, {131152}, {300000}}}
    \cup {[wellFormed |-> ok, scheme |-> "http", host |-> <<"auth">>, port |-> {}] :
        ok \in BOOLEAN}

AllValues ==
    [key \in {"rewrite-target", "use-regex", "app-root", "proxy-read-timeout",
              "proxy-send-timeout", "upstream-hash-by", "auth-url"} |->
        CASE key = "rewrite-target"   -> Targets
          [] key = "use-regex"        -> BOOLEAN
          [] key = "app-root"         -> {<<"/", "b">>}
          [] key = "upstream-hash-by" -> HashKeys
          [] key = "auth-url"         -> AuthURLs
          [] OTHER                    -> Timeouts]
====
