---- MODULE RouteRules ----
(***************************************************************************)
(* internal/converter: the rule of an HTTPRoute that one path of an        *)
(* Ingress is made into - its match, its filters, whether it keeps the     *)
(* backend. Texts are sequences of characters; a reference to a capture    *)
(* group, such as $1, counts as one. An annotation is a set: empty if it   *)
(* is absent, otherwise with its one value; the matches and filters of a   *)
(* rule are sets of at most one likewise.                                  *)
(***************************************************************************)
EXTENDS Integers, Sequences, SequencesExt

RegexChars == {"(", "[", "*", "+", "?", "{", "|", "\\", "$"}
Captures   == {"$1", "$2"}
Slash      == <<"/">>

PathTypes == {"Exact", "Prefix", "ImplementationSpecific"}

----
\* The text without the slashes at its end.
TrimSlashes(text) ==
    SubSeq(text, 1, Max({0} \cup {k \in DOMAIN text : text[k] # "/"}))

\* A mistake, for mutation: the regular expression is kept as a prefix.
WholePath(path) == path

\* The text before the first character of a regular expression, and at least "/".
extractStaticPrefix(path) ==
    LET end    == Min({k \in DOMAIN path : path[k] \in RegexChars} \cup {Len(path) + 1})
        prefix == TrimSlashes(SubSeq(path, 1, end - 1))
    IN  IF prefix = <<>> THEN Slash ELSE prefix

containsCaptureGroups(target) == \E k \in DOMAIN target : target[k] \in Captures

\* The next character of a target: a reference to a capture group is taken out, and
\* then every "//" becomes "/", from left to right: the second slash of a pair is
\* left out, and the next slash begins a pair of its own ("///" becomes "//").
Cleaned(done, c) ==
    IF c \in Captures THEN done
    ELSE IF c = "/" /\ done.paired THEN [done EXCEPT !.paired = FALSE]
    ELSE [text |-> Append(done.text, c), paired |-> c = "/"]

\* What is left of the first n characters, for each n.
Cleaning(target) ==
    LET done[n \in 0 .. Len(target)] ==
            IF n = 0 THEN [text |-> <<>>, paired |-> FALSE]
            ELSE Cleaned(done[n - 1], target[n])
    IN  done

\* The target without its references to capture groups.
convertCaptureGroups(target) ==
    LET result == Cleaning(target)[Len(target)].text
    IN  IF target \in {<<"/", "$1">>, <<"$1">>} \/ result = <<>> THEN Slash ELSE result

----
\* A mistake, for mutation: the rewrite is not looked at.
matchForPathAlone(path, pathType, useRegex, rewrite) ==
    [value |-> path,
     type  |-> IF pathType = "Exact" THEN "Exact"
               ELSE IF useRegex THEN "RegularExpression" ELSE "PathPrefix"]

\* The match of a rule: with a rewrite that uses capture groups, a regular
\* expression gives way to its static prefix.
convertPathMatch(path, pathType, useRegex, rewrite) ==
    LET captures == \E target \in rewrite : containsCaptureGroups(target)
    IN  [value |-> IF useRegex /\ captures THEN extractStaticPrefix(path) ELSE path,
         type  |-> IF pathType = "Exact" THEN "Exact"
                   ELSE IF useRegex /\ ~captures THEN "RegularExpression"
                   ELSE "PathPrefix"]

addRewriteFilter(target) ==
    IF containsCaptureGroups(target)
    THEN [type |-> "ReplacePrefixMatch", value |-> convertCaptureGroups(target)]
    ELSE IF target = Slash
    THEN [type |-> "ReplacePrefixMatch", value |-> Slash]
    ELSE [type |-> "ReplaceFullPath", value |-> target]

\* The redirect to the app root, on a rule that matches "/".
addAppRootRedirect(matches, appRoot) ==
    IF \E match \in matches : match.value = Slash THEN appRoot ELSE {}

\* A rule has a redirect, or else a backend and perhaps a rewrite.
convertPathWithFilters(path, pathType, useRegex, rewrite, appRoot) ==
    LET matches  == IF path = <<>> THEN {}
                    ELSE {convertPathMatch(path, pathType, useRegex, rewrite)}
        redirect == addAppRootRedirect(matches, appRoot)
    IN  [matches  |-> matches,
         redirect |-> redirect,
         rewrite  |-> IF redirect # {} THEN {}
                      ELSE {addRewriteFilter(target) : target \in rewrite},
         backend  |-> redirect = {}]

----
\* What the Gateway makes of a rule (Gateway API): a prefix matches whole
\* elements of a path; the part that matched is replaced, and one slash joins
\* the replacement and what follows. Regular expressions are left to the caller.
After(prefix, request) == SubSeq(request, Len(prefix) + 1, Len(request))

Matches(match, request) ==
    LET prefix == TrimSlashes(match.value)
    IN  CASE match.type = "Exact" -> request = match.value
          [] match.type = "PathPrefix" ->
                /\ IsPrefix(prefix, request)
                /\ After(prefix, request) = <<>> \/ Head(After(prefix, request)) = "/"
          [] OTHER -> FALSE

Rewritten(match, filter, request) ==
    LET rest == After(TrimSlashes(match.value), request)
    IN  IF filter.type = "ReplaceFullPath" THEN filter.value
        ELSE IF rest = <<>> THEN filter.value
        ELSE TrimSlashes(filter.value) \o rest
====
