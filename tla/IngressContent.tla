---- MODULE IngressContent ----
(***************************************************************************)
(* What one Ingress with one path says, as its authors edit it, and what   *)
(* the conversion makes of it: the rule (RouteRules) and the contents of   *)
(* the policies (PolicyContent). Both are functions of what is written, so *)
(* the states are the Ingresses and a step is an edit; the properties      *)
(* compare what the Gateway will do with what nginx does for the Ingress.  *)
(***************************************************************************)
EXTENDS RouteRules, PolicyContent, FiniteSets

CONSTANTS
    Paths,          \* the paths of the Ingress: a literal prefix and a form
    Values,         \* Values[key]: what the annotation key may say
    Requests,       \* the paths of the requests that are compared
    MaxAnnotations  \* bound: annotations on the Ingress at once

\* The ways to write a path: a prefix alone, or one followed by groups.
Forms ==
    [plain      |-> <<>>,
     slashOrEnd |-> <<"(", "/", "|", "$", ")", "(", ".", "*", ")">>,
     rest       |-> <<"/", "(", ".", "*", ")">>,
     emptyGroup |-> <<"/", "(", ")", "(", ".", "*", ")">>]

\* The annotations that are targets, numbers, variables of nginx and URLs have these
\* forms, ...
ASSUME ValuesAssumption ==
    /\ {"rewrite-target", "use-regex", "app-root", "proxy-read-timeout",
        "proxy-send-timeout", "upstream-hash-by", "auth-url"} \subseteq DOMAIN Values
    /\ Values["proxy-read-timeout"] \cup Values["proxy-send-timeout"]
          \subseteq [form : {"text", "seconds", "duration"}, n : Int]
    /\ Values["rewrite-target"] \cup Values["upstream-hash-by"] \subseteq Seq(STRING)
    /\ Values["auth-url"]
          \subseteq [wellFormed : BOOLEAN, scheme : STRING, host : Seq(STRING),
                     port : SUBSET Nat]

\* ... and a path is a literal prefix, which only ends with a slash if no group
\* follows, and a form.
ASSUME PathsAssumption ==
    /\ \A p \in Paths :
          /\ p.prefix \in Seq(STRING) /\ p.form \in DOMAIN Forms
          /\ \A k \in DOMAIN p.prefix : p.prefix[k] \notin RegexChars
          /\ p.form # "plain" => (p.prefix = <<>> \/ Last(p.prefix) # "/")
    /\ Requests \subseteq Seq(STRING)

VARIABLES
    path,           \* how the path is written
    pathType,       \* its type
    annots          \* annots[key]: the annotation, absent at first

vars == <<path, pathType, annots>>

Keys == DOMAIN Values


PathText == path.prefix \o Forms[path.form]

Init ==
    /\ path \in Paths
    /\ pathType \in PathTypes
    /\ annots = [key \in Keys |-> {}]

\* An annotation is written, or replaces what it said.
Annotate(key) ==
    /\ Cardinality({other \in Keys \ {key} : annots[other] # {}}) < MaxAnnotations
    /\ \E value \in Values[key] : annots' = [annots EXCEPT ![key] = {value}]
    /\ UNCHANGED <<path, pathType>>

Next == \E key \in Keys : Annotate(key)

Spec == Init /\ [][Next]_vars

----
UseRegex == annots["use-regex"] = {TRUE}

Rule == convertPathWithFilters(PathText, pathType, UseRegex,
                               annots["rewrite-target"], annots["app-root"])

Timeout == buildTimeout(annots["proxy-read-timeout"], annots["proxy-send-timeout"])

\* The Ingress is as it can be written, and each of the numbers of a timeout is
\* less than one of the next larger unit (formatDuration).
TypeOK ==
    /\ path \in Paths /\ pathType \in PathTypes
    /\ \A key \in Keys : annots[key] \subseteq Values[key] /\ Cardinality(annots[key]) <= 1
    /\ Timeout \subseteq [h : Nat, m : 0 .. 59, s : 0 .. 59, ms : 0 .. 999]

----
\* nginx: the part of a request that the last group of a path captures, if the
\* path matches the request, and the reference to that group.
Captured(request) ==
    IF ~IsPrefix(path.prefix, request) THEN {}
    ELSE LET rest == After(path.prefix, request)
         IN  CASE path.form # "plain" /\ rest # <<>> /\ Head(rest) = "/" -> {Tail(rest)}
               [] path.form = "slashOrEnd" /\ rest = <<>> -> {<<>>}
               [] OTHER -> {}

LastGroup == IF path.form = "rest" THEN "$1" ELSE "$2"

\* nginx: the targets that end with the last group, as an element of its own, and
\* have no two slashes in a row (of which the code makes one).
EndsWithGroup(target) ==
    LET literal == Front(target)
    IN  /\ Last(target) = LastGroup
        /\ literal # <<>> /\ Last(literal) = "/"
        /\ ~containsCaptureGroups(literal)
        /\ \A k \in 2 .. Len(literal) : literal[k - 1] = "/" => literal[k] # "/"

\* A path of the forms the documentation of ingress-nginx gives, with a target
\* that ends with its last group, becomes a prefix and its replacement (filters.go,
\* extractStaticPrefix): every request nginx rewrites is matched by the rule, keeps
\* the backend and reaches it under the path nginx gives it.
RewriteAsNginx ==
    \A target \in annots["rewrite-target"] :
        (UseRegex /\ pathType # "Exact" /\ annots["app-root"] = {} /\ EndsWithGroup(target)) =>
            LET rule == Rule
            IN  /\ rule.backend
                /\ \A request \in Requests, match \in rule.matches : \A rest \in Captured(request) :
                       /\ Matches(match, request)
                       /\ \A filter \in rule.rewrite :
                              Rewritten(match, filter, request) = Front(target) \o rest

\* "Gateway API requires PathPrefix match when using ReplacePrefixMatch"
\* (convertPathMatch): a server refuses any other HTTPRoute, and the refusal ends
\* the reconciliation. It holds for a path that is not Exact, unless a regular
\* expression is rewritten to "/".
PrefixRewriteOnPrefixMatch ==
    (pathType # "Exact" /\ ~(UseRegex /\ annots["rewrite-target"] = {Slash})) =>
        \A filter \in Rule.rewrite :
            filter.type = "ReplacePrefixMatch" =>
                \A match \in Rule.matches : match.type = "PathPrefix"

\* "This redirects requests to "/" to the specified app root" (addAppRootRedirect):
\* a request for anything else, the app root itself among them, is not redirected.
RedirectsOnlyRoot ==
    Rule.redirect # {} =>
        \A match \in Rule.matches : \A request \in Requests :
            Matches(match, request) => request = Slash

----
\* What an annotation asks for, in ticks; no timeout is longer than a word counts.
Asked(annotation) ==
    CASE annotation.form = "seconds"  -> {annotation.n * Second}
      [] annotation.form = "duration" -> {annotation.n}
      [] OTHER -> {}

AskedTimeouts ==
    UNION {Asked(a) : a \in annots["proxy-read-timeout"] \cup annots["proxy-send-timeout"]}

\* formatDuration and GetDuration: a timeout in the policy is one that was asked
\* for, to the millisecond, through four units and back, if it is not negative and
\* a word counts it.
DurationKept ==
    (\A asked \in AskedTimeouts : asked \in 0 .. Word \div 2 - 1) =>
        \A t \in Timeout :
            \E asked \in AskedTimeouts :
                Meaning(t) <= asked /\ asked < Meaning(t) + Millisecond

\* "Use the larger of proxy-read-timeout and proxy-send-timeout as request timeout"
\* (buildTimeout).
LargerTimeout ==
    (\A asked \in AskedTimeouts : asked \in 0 .. Word \div 2 - 1) =>
        \A t \in Timeout : \A asked \in AskedTimeouts : asked < Meaning(t) + Millisecond

\* buildLoadBalancer: the header a request is hashed by is one that nginx keeps in
\* the variable the annotation names: it writes "_" for "-", and drops a header
\* that has a "_" of its own.
HashAsNginx ==
    \A key \in annots["upstream-hash-by"] :
        (Trimmed(key) # <<>> /\ Head(Trimmed(key)) = "$http_") =>
            LET name == buildLoadBalancer(key).name
            IN  /\ \A k \in DOMAIN name : name[k] # "_"
                /\ [k \in DOMAIN name |-> IF name[k] = "-" THEN "_" ELSE name[k]]
                     = Tail(Trimmed(key))

\* buildExtAuth: requests are authorized at the port the URL means - the one it
\* gives, or that of its scheme - and at no other, if 32 bits can tell it from the
\* ports there are.
AuthPortKept ==
    \A url \in annots["auth-url"] :
        LET meant == IF url.port # {} THEN url.port ELSE SchemePort(url)
        IN  (\A n \in meant : n < PortWord) =>
                \A ref \in buildExtAuth(url) :
                    /\ ref.port \subseteq meant
                    /\ (\A n \in meant : n \in 1 .. PortWord \div 2 - 1) => ref.port = meant
====
