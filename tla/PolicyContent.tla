---- MODULE PolicyContent ----
(***************************************************************************)
(* internal/converter/policies.go: what the annotations of an Ingress put  *)
(* into its policies - the request timeout, the key of a consistent hash,  *)
(* the service that authorizes requests. What may be absent is a set of at *)
(* most one.                                                               *)
(***************************************************************************)
EXTENDS Durations, FiniteSetsExt

CONSTANTS
    PortWord,       \* the number of values of an int32, in which ports are kept
    MaxInt          \* the largest int, in which the text of a port is read

\* An int counts what an int32 counts.
ASSUME PortAssumption ==
    /\ PortWord \in Nat \ {0}
    /\ MaxInt \in Nat
    /\ PortWord \div 2 - 1 <= MaxInt

----
\* The request timeout: the larger of the two texts, as strings are ordered.
buildTimeout(read, send) ==
    LET texts == UNION {GetDuration(annotation) : annotation \in read \cup send}
    IN  {t \in texts : \A other \in texts : ~Before(Text(t), Text(other))}

----
\* A key is a sequence of characters in which the name of a variable, or what
\* it starts with, counts as one.
Trimmed(key) ==
    LET inner == {k \in DOMAIN key : key[k] # " "}
    IN  SubSeq(key, Min(inner \cup {Len(key) + 1}), Max(inner \cup {0}))

\* A mistake, for mutation: the name of the variable is taken for the header's.
Undashed(name) == name

Dashed(name) == [k \in DOMAIN name |-> IF name[k] = "_" THEN "-" ELSE name[k]]

HashOf(hashBy) ==
    LET first == IF hashBy = <<>> THEN " " ELSE Head(hashBy)
    IN  CASE hashBy \in {<<"$remote_addr">>, <<"$binary_remote_addr">>} ->
               [type |-> "SourceIP", name |-> <<>>]
          [] first = "$cookie_" -> [type |-> "Cookie", name |-> Tail(hashBy)]
          [] first = "$http_"   -> [type |-> "Headers", name |-> Dashed(Tail(hashBy))]
          [] first = "$arg_"    -> [type |-> "QueryParams", name |-> Tail(hashBy)]
          [] OTHER              -> [type |-> "Headers", name |-> hashBy]

buildLoadBalancer(hashBy) == HashOf(Trimmed(hashBy))

----
\* A number that is too large to read is an error; any other is cut to 32 bits.
parsePort(n) ==
    IF n > MaxInt THEN {} ELSE {((n + PortWord \div 2) % PortWord) - PortWord \div 2}

\* A mistake, for mutation: the port of the scheme is taken for any URL.
SchemePort(url) == {IF url.scheme = "https" THEN 443 ELSE 80}

\* The port of the reference: none if the URL's cannot be read or is not positive.
AuthPort(url) ==
    LET read == IF url.port = {} THEN SchemePort(url) ELSE UNION {parsePort(n) : n \in url.port}
    IN  {n \in read : n > 0}

\* The service is named by the first label of the host, its namespace by the
\* second. A URL that cannot be read, or without two labels, authorizes nothing.
buildExtAuth(url) ==
    IF ~url.wellFormed \/ Len(url.host) < 2 THEN {}
    ELSE {[name |-> url.host[1], namespace |-> url.host[2], port |-> AuthPort(url)]}
====
