---- MODULE ContentProofs ----
(***************************************************************************)
(* Proofs about IngressContent, for any paths, annotations and words: what *)
(* is made of a timeout, a hash key, the port of an auth-url and the match *)
(* of a prefix that is replaced.                                           *)
(***************************************************************************)
EXTENDS IngressContent, ConversionProofs, WellFoundedInduction,
        FiniteSetTheorems, SequenceTheorems

\* A set of numbers has a least one, and a bounded one a greatest.
LEMMA LeastOf ==
    ASSUME NEW Numbers \in SUBSET Nat, Numbers # {}
    PROVE  Min(Numbers) \in Numbers /\ \A k \in Numbers : Min(Numbers) <= k
  <1> DEFINE R == {p \in Nat \X Nat : p[1] < p[2]}
  <1>1. OpToRel(<, Nat) = R
    BY DEF OpToRel
  <1>2. PICK x \in Numbers : \A y \in Numbers : ~(<<y, x>> \in R)
    BY <1>1, NatLessThanWellFounded, WFMin
  <1>3. ASSUME NEW k \in Numbers
        PROVE  x <= k
    <2>1. k \in Nat /\ x \in Nat /\ <<k, x>> \notin R
      BY <1>2
    <2> QED
      BY <2>1
  <1> QED
    BY <1>3 DEF Min

LEMMA GreatestOf ==
    ASSUME NEW n \in Nat, NEW Numbers \in SUBSET (0 .. n), Numbers # {}
    PROVE  Max(Numbers) \in Numbers /\ \A k \in Numbers : Max(Numbers) >= k
  <1> DEFINE T == {n - k : k \in Numbers}
  <1>1. T \in SUBSET Nat /\ T # {}
    <2>1. \A k \in Numbers : n - k \in Nat
      OBVIOUS
    <2> QED
      BY <2>1
  <1>2. PICK m \in Numbers : Min(T) = n - m
    BY <1>1, LeastOf
  <1>3. ASSUME NEW k \in Numbers
        PROVE  m >= k
    <2>1. n - k \in T
      OBVIOUS
    <2>2. Min(T) <= n - k
      BY <1>1, <2>1, LeastOf
    <2> QED
      BY <1>2, <2>2
  <1> QED
    BY <1>3 DEF Max

\* A text without the spaces around it is a text.
LEMMA TrimmedPart ==
    ASSUME NEW key \in Seq(STRING)
    PROVE  Trimmed(key) \in Seq(STRING)
  <1> DEFINE inner == {k \in DOMAIN key : key[k] # " "}
             first == Min(inner \cup {Len(key) + 1})
             last  == Max(inner \cup {0})
  <1>1. Len(key) \in Nat /\ DOMAIN key = 1 .. Len(key)
    OBVIOUS
  <1>2. \A k \in inner : k \in 1 .. Len(key)
    BY <1>1
  <1>3. Trimmed(key) = SubSeq(key, first, last)
    BY DEF Trimmed
  <1> HIDE DEF inner
  <1>4. first \in 1 .. Len(key) + 1
    <2>1. \A k \in inner \cup {Len(key) + 1} : k \in 1 .. Len(key) + 1
      BY <1>1, <1>2
    <2>2. inner \cup {Len(key) + 1} \in SUBSET Nat
      BY <1>1, <2>1
    <2>3. first \in inner \cup {Len(key) + 1}
      BY <2>2, LeastOf
    <2> QED
      BY <2>1, <2>3
  <1>5. last \in 0 .. Len(key)
    <2>1. inner \cup {0} \in SUBSET (0 .. Len(key))
      BY <1>1, <1>2
    <2>2. last \in inner \cup {0}
      BY <1>1, <2>1, GreatestOf
    <2> QED
      BY <2>1, <2>2
  <1> HIDE DEF first, last
  <1> QED
    BY <1>1, <1>3, <1>4, <1>5

----
\* An annotation is absent, or says one of the things it may say.
Written ==
    /\ path \in Paths /\ pathType \in PathTypes
    /\ annots = [key \in Keys |-> annots[key]]
    /\ \A key \in Keys : annots[key] = {} \/ \E value \in Values[key] : annots[key] = {value}

LEMMA AlwaysWritten == Spec => []Written
  <1>1. Init => Written
    BY DEF Init, Written
  <1>2. ASSUME Written, Next
        PROVE  Written'
    <2>1. PICK key \in Keys : Annotate(key)
      BY <1>2 DEF Next
    <2>2. PICK value \in Values[key] : annots' = [annots EXCEPT ![key] = {value}]
      BY <2>1 DEF Annotate
    <2>3. annots' = [other \in Keys |-> IF other = key THEN {value} ELSE annots[other]]
      BY <1>2, <2>2 DEF Written
    <2> QED
      BY <1>2, <2>1, <2>3 DEF Written, Annotate
  <1>3. Written /\ UNCHANGED vars => Written'
    BY DEF Written, vars
  <1> QED
    BY <1>1, <1>2, <1>3, PTL DEF Spec

\* So what it says is one of these.
LEMMA Says ==
    ASSUME Written, NEW key \in Keys, NEW value \in annots[key]
    PROVE  value \in Values[key] /\ annots[key] = {value}
  BY DEF Written

----
\* A prefix is replaced only where a prefix matches, but for a regular expression
\* that is rewritten to "/".
LEMMA ReplacesPrefix ==
    ASSUME Written
    PROVE  PrefixRewriteOnPrefixMatch
  <1> SUFFICES ASSUME pathType # "Exact",
                      ~(UseRegex /\ annots["rewrite-target"] = {Slash}),
                      NEW filter \in Rule.rewrite, filter.type = "ReplacePrefixMatch",
                      NEW match \in Rule.matches
               PROVE  match.type = "PathPrefix"
    BY DEF PrefixRewriteOnPrefixMatch
  <1> DEFINE rewrite == annots["rewrite-target"]
  <1>1. PICK target \in rewrite : filter = addRewriteFilter(target)
    BY DEF Rule, convertPathWithFilters
  <1>2. match = convertPathMatch(PathText, pathType, UseRegex, rewrite)
    BY DEF Rule, convertPathWithFilters
  <1>3. CASE containsCaptureGroups(target)
    BY <1>1, <1>2, <1>3 DEF convertPathMatch
  <1>4. CASE ~containsCaptureGroups(target)
    <2>1. target = Slash
      BY <1>1, <1>4 DEF addRewriteFilter
    <2>2. rewrite = {Slash}
      BY <1>1, <2>1, Says, ValuesAssumption DEF Keys
    <2>3. ~UseRegex
      BY <2>2
    <2> QED
      BY <1>2, <2>3 DEF convertPathMatch
  <1> QED
    BY <1>3, <1>4

\* "Gateway API requires PathPrefix match when using ReplacePrefixMatch": so it is
\* for every path and every annotation, but for the one case the property names.
THEOREM RewritesMatchedPrefix == Spec => []PrefixRewriteOnPrefixMatch
  BY ReplacesPrefix, AlwaysWritten, PTL

----
\* Rewrites. The characters of a path. (The provers do not know that a literal is
\* in STRING.)
Char == STRING \cup {"(", "/", "|", "$", ")", ".", "*"}

LEMMA Texts == Seq(STRING) \subseteq Seq(Char)
  BY SeqMonotonic DEF Char

\* What is left without the slashes at the end.
LEMMA TrimsTo ==
    ASSUME NEW Elements, NEW text \in Seq(Elements), NEW n \in 0 .. Len(text),
           n = 0 \/ text[n] # "/", \A k \in n + 1 .. Len(text) : text[k] = "/"
    PROVE  TrimSlashes(text) = SubSeq(text, 1, n)
  <1> DEFINE kept == {0} \cup {k \in DOMAIN text : text[k] # "/"}
  <1>1. Len(text) \in Nat /\ DOMAIN text = 1 .. Len(text)
    BY LenProperties
  <1>2. \A k \in kept : k \in 0 .. n
    BY <1>1
  <1>3. n \in kept /\ kept \in SUBSET (0 .. n) /\ n \in Nat
    BY <1>1, <1>2
  <1> HIDE DEF kept
  <1>4. Max(kept) \in 0 .. n /\ Max(kept) >= n
    BY <1>3, GreatestOf
  <1>5. Max(kept) = n
    BY <1>3, <1>4
  <1> QED
    BY <1>5 DEF TrimSlashes, kept

\* extractStaticPrefix: of a literal and a group, perhaps with a slash between them,
\* the literal is left.
LEMMA StaticPrefix ==
    ASSUME NEW prefix \in Seq(Char), NEW form \in Seq(Char),
           \A k \in DOMAIN prefix : prefix[k] \notin RegexChars,
           prefix = <<>> \/ Last(prefix) # "/",
           NEW m \in 1 .. Len(form), form[m] \in RegexChars,
           \A k \in 1 .. m - 1 : form[k] = "/"
    PROVE  extractStaticPrefix(prefix \o form) = IF prefix = <<>> THEN Slash ELSE prefix
  <1> DEFINE whole == prefix \o form
             ends  == {k \in DOMAIN whole : whole[k] \in RegexChars} \cup {Len(whole) + 1}
             stop  == Len(prefix) + m
             front == SubSeq(whole, 1, stop - 1)
  <1>1. /\ Len(prefix) \in Nat /\ DOMAIN prefix = 1 .. Len(prefix)
        /\ Len(form) \in Nat /\ DOMAIN form = 1 .. Len(form)
    BY LenProperties
  <1>2. /\ whole \in Seq(Char) /\ Len(whole) = Len(prefix) + Len(form)
        /\ DOMAIN whole = 1 .. Len(whole)
        /\ \A k \in 1 .. Len(prefix) + Len(form) :
               whole[k] = IF k <= Len(prefix) THEN prefix[k] ELSE form[k - Len(prefix)]
    BY ConcatProperties, LenProperties
  <1> HIDE DEF whole
  <1>3. stop \in 1 .. Len(whole) /\ whole[stop] = form[m]
    <2>1. m \in Nat /\ m >= 1 /\ m <= Len(form)
      BY <1>1
    <2>2. stop \in 1 .. Len(prefix) + Len(form) /\ ~(stop <= Len(prefix))
      BY <1>1, <2>1
    <2>3. stop - Len(prefix) = m
      BY <1>1, <2>1
    <2> HIDE DEF stop
    <2>4. whole[stop] = form[stop - Len(prefix)]
      BY <1>2, <2>2
    <2> QED
      BY <1>2, <2>2, <2>3, <2>4
  <1>4. ASSUME NEW k \in 1 .. stop - 1
        PROVE  whole[k] \notin RegexChars /\ (k > Len(prefix) => whole[k] = "/")
    <2>1. CASE k <= Len(prefix)
      BY <1>1, <1>2, <1>3, <2>1
    <2>2. CASE k > Len(prefix)
      <3>1. whole[k] = form[k - Len(prefix)] /\ k - Len(prefix) \in 1 .. m - 1
        BY <1>1, <1>2, <1>3, <2>2
      <3> QED
        BY <3>1 DEF RegexChars
    <2> QED
      BY <1>1, <2>1, <2>2
  <1>5. Min(ends) = stop
    <2>1. stop \in ends /\ ends \in SUBSET Nat
      BY <1>1, <1>2, <1>3
    <2>2. \A k \in ends : k >= stop
      BY <1>1, <1>2, <1>3, <1>4
    <2> HIDE DEF ends, stop
    <2>3. Min(ends) \in ends /\ Min(ends) <= stop
      BY <2>1, LeastOf
    <2>4. Min(ends) \in Nat /\ stop \in Nat /\ Min(ends) >= stop
      BY <2>1, <2>2, <2>3
    <2> QED
      BY <2>3, <2>4
  <1>6. /\ front \in Seq(Char) /\ Len(front) = stop - 1
        /\ \A k \in 1 .. stop - 1 : front[k] = whole[k]
    BY <1>1, <1>2, <1>3, SubSeqProperties, ElementOfSeq
  <1>7. TrimSlashes(front) = SubSeq(front, 1, Len(prefix))
    <2>1. Len(prefix) \in 0 .. Len(front)
      BY <1>1, <1>3, <1>6
    <2>2. Len(prefix) = 0 \/ front[Len(prefix)] # "/"
      BY <1>1, <1>2, <1>3, <1>6, EmptySeq DEF Last
    <2>3. \A k \in Len(prefix) + 1 .. Len(front) : front[k] = "/"
      BY <1>1, <1>3, <1>4, <1>6
    <2> HIDE DEF front
    <2> QED
      BY <1>6, <2>1, <2>2, <2>3, TrimsTo
  <1>8. SubSeq(front, 1, Len(prefix)) = prefix
    <2>1. /\ SubSeq(front, 1, Len(prefix)) \in Seq(Char)
          /\ Len(SubSeq(front, 1, Len(prefix))) = Len(prefix)
          /\ \A k \in 1 .. Len(prefix) : SubSeq(front, 1, Len(prefix))[k] = front[k]
      BY <1>1, <1>3, <1>6, SubSeqProperties, ElementOfSeq
    <2>2. \A k \in 1 .. Len(prefix) : front[k] = prefix[k]
      BY <1>1, <1>2, <1>3, <1>6
    <2> QED
      BY <2>1, <2>2, SeqEqual
  <1>9. extractStaticPrefix(whole)
           = IF TrimSlashes(front) = <<>> THEN Slash ELSE TrimSlashes(front)
    BY <1>5 DEF extractStaticPrefix
  <1> QED
    BY <1>7, <1>8, <1>9 DEF whole

\* As a match, that prefix is the literal again, without its slash if it is "/".
LEMMA PrefixOfMatch ==
    ASSUME NEW prefix \in Seq(Char), prefix = <<>> \/ Last(prefix) # "/"
    PROVE  TrimSlashes(IF prefix = <<>> THEN Slash ELSE prefix) = prefix
  <1>1. CASE prefix = <<>>
    <2>1. Slash \in Seq(Char) /\ Len(Slash) = 1 /\ Slash[1] = "/"
      BY DEF Slash, Char
    <2>2. TrimSlashes(Slash) = SubSeq(Slash, 1, 0)
      BY <2>1, TrimsTo
    <2> QED
      BY <1>1, <2>2, SubSeqEmpty
  <1>2. CASE prefix # <<>>
    <2>1. Len(prefix) \in Nat /\ prefix[Len(prefix)] # "/"
      BY <1>2, LenProperties DEF Last
    <2>2. TrimSlashes(prefix) = SubSeq(prefix, 1, Len(prefix))
      BY <2>1, TrimsTo
    <2> QED
      BY <1>2, <2>2, SubSeqFull
  <1> QED
    BY <1>1, <1>2

----
\* The target: a literal without two slashes in a row, and the last group.
\* A function that satisfies the recursion of Cleaning is Cleaning.
Recursion(target, done) ==
    done = [n \in 0 .. Len(target) |->
               IF n = 0 THEN [text |-> <<>>, paired |-> FALSE]
               ELSE Cleaned(done[n - 1], target[n])]

LEMMA CleaningIs ==
    ASSUME NEW target \in Seq(STRING), NEW g, Recursion(target, g)
    PROVE  Cleaning(target) = g
  <1> DEFINE f == Cleaning(target)
             differ == {n \in 0 .. Len(target) : f[n] # g[n]}
  <1>1. Recursion(target, f)
    BY Zenon DEF Cleaning, Recursion
  <1>2. Len(target) \in Nat
    BY LenProperties
  <1>3. differ = {}
    <2> SUFFICES ASSUME differ # {} PROVE FALSE
      OBVIOUS
    <2>0. differ \in SUBSET Nat /\ \A k \in differ : k \in 0 .. Len(target) /\ f[k] # g[k]
      BY <1>2
    <2>1. PICK n \in differ : \A k \in differ : n <= k
      <3> HIDE DEF differ
      <3> QED
        BY <2>0, LeastOf
    <2>2. n \in 0 .. Len(target) /\ f[n] # g[n]
      BY <2>0
    <2>3. n # 0
      BY <1>1, <2>2 DEF Recursion
    <2>4. n - 1 \in 0 .. Len(target) /\ n - 1 \notin differ
      BY <1>2, <2>1, <2>2, <2>3
    <2>5. f[n - 1] = g[n - 1]
      BY <2>4
    <2>6. f[n] = Cleaned(f[n - 1], target[n]) /\ g[n] = Cleaned(g[n - 1], target[n])
      BY <1>1, <2>2, <2>3 DEF Recursion
    <2> QED
      BY <2>2, <2>5, <2>6
  <1> QED
    BY <1>1, <1>3 DEF Recursion

LEMMA CleansTo ==
    ASSUME NEW target \in Seq(STRING), EndsWithGroup(target)
    PROVE  /\ convertCaptureGroups(target) = Front(target)
           /\ Front(target) \in Seq(STRING) /\ Len(Front(target)) \in Nat \ {0}
           /\ Last(Front(target)) = "/"
           /\ \A k \in 2 .. Len(Front(target)) :
                  Front(target)[k - 1] = "/" => Front(target)[k] # "/"
  <1> DEFINE L == Front(target)
             len == Len(target)
             upTo(n) == IF n = len THEN n - 1 ELSE n
             g == [n \in 0 .. len |->
                      [text   |-> SubSeq(target, 1, upTo(n)),
                       paired |-> upTo(n) # 0 /\ target[upTo(n)] = "/"]]
  <1>1. len \in Nat /\ DOMAIN target = 1 .. len
    BY LenProperties
  <1>2. L # <<>> /\ L = SubSeq(target, 1, len - 1)
    BY DEF EndsWithGroup, Front
  <1>3. len >= 2
    BY <1>1, <1>2, SubSeqEmpty
  <1>4. /\ L \in Seq(STRING) /\ Len(L) = len - 1
        /\ \A k \in 1 .. len - 1 : L[k] = target[k]
    BY <1>1, <1>2, <1>3, SubSeqProperties, ElementOfSeq
  <1> HIDE DEF L
  <1>5. DOMAIN L = 1 .. len - 1
    BY <1>4, LenProperties
  <1>6. /\ target[len] = LastGroup
        /\ L[len - 1] = "/"
        /\ ~containsCaptureGroups(L)
        /\ \A k \in 2 .. len - 1 : L[k - 1] = "/" => L[k] # "/"
    BY <1>4 DEF EndsWithGroup, Last, L
  <1> HIDE DEF len
  <1>7. /\ target[len] \in Captures
        /\ \A k \in 1 .. len - 1 : target[k] \notin Captures
        /\ \A k \in 2 .. len - 1 : target[k - 1] = "/" => target[k] # "/"
    <2>1. target[len] \in Captures
      BY <1>6 DEF LastGroup, Captures
    <2>2. ASSUME NEW k \in 1 .. len - 1
          PROVE  target[k] \notin Captures
      BY <1>4, <1>5, <1>6 DEF containsCaptureGroups
    <2>3. ASSUME NEW k \in 2 .. len - 1, target[k - 1] = "/"
          PROVE  target[k] # "/"
      <3>1. k \in 1 .. len - 1 /\ k - 1 \in 1 .. len - 1
        BY <1>1, <1>3
      <3> QED
        BY <1>4, <1>6, <2>3, <3>1
    <2> QED
      BY <2>1, <2>2, <2>3
  <1>g. /\ g[len] = [text |-> SubSeq(target, 1, len - 1), paired |-> target[len - 1] = "/"]
        /\ \A n \in 0 .. len - 1 :
              g[n] = [text |-> SubSeq(target, 1, n), paired |-> n # 0 /\ target[n] = "/"]
        /\ g = [n \in 0 .. len |-> g[n]]
    <2>1. \A n \in 0 .. len - 1 : n \in 0 .. len /\ n # len
      BY <1>1
    <2>2. len \in 0 .. len /\ len - 1 # 0
      BY <1>1, <1>3
    <2> QED
      BY <2>1, <2>2
  <1> HIDE DEF g
  <1>8. ASSUME NEW n \in 0 .. len
        PROVE  g[n] = IF n = 0 THEN [text |-> <<>>, paired |-> FALSE]
                      ELSE Cleaned(g[n - 1], target[n])
    <2>1. CASE n = 0
      <3>1. SubSeq(target, 1, 0) = <<>> /\ 0 \in 0 .. len - 1
        BY <1>1, <1>3, SubSeqEmpty
      <3> QED
        BY <1>g, <2>1, <3>1
    <2>2. CASE n = len
      <3>1. len - 1 \in 0 .. len - 1 /\ len - 1 # 0 /\ n # 0
        BY <1>1, <1>3, <2>2
      <3>2. g[len - 1] = [text |-> SubSeq(target, 1, len - 1), paired |-> target[len - 1] = "/"]
        BY <1>g, <3>1
      <3> QED
        BY <1>g, <1>7, <2>2, <3>1, <3>2 DEF Cleaned
    <2>3. CASE n # 0 /\ n # len
      <3>1. /\ n \in 1 .. len - 1 /\ n \in 0 .. len - 1 /\ n - 1 \in 0 .. len - 1
            /\ n - 1 # 0 => n \in 2 .. len - 1
        BY <1>1, <2>3
      <3>2. /\ g[n] = [text |-> SubSeq(target, 1, n), paired |-> target[n] = "/"]
            /\ g[n - 1].text = SubSeq(target, 1, n - 1)
            /\ g[n - 1].paired = (n - 1 # 0 /\ target[n - 1] = "/")
        <4>1. g[n] = [text |-> SubSeq(target, 1, n), paired |-> n # 0 /\ target[n] = "/"]
          BY <1>g, <3>1
        <4>2. g[n - 1] = [text   |-> SubSeq(target, 1, n - 1),
                          paired |-> n - 1 # 0 /\ target[n - 1] = "/"]
          BY <1>g, <3>1
        <4> QED
          BY <2>3, <4>1, <4>2
      <3>3. ~(target[n] = "/" /\ g[n - 1].paired)
        BY <1>7, <3>1, <3>2
      <3>4. SubSeq(target, 1, n) = Append(SubSeq(target, 1, n - 1), target[n])
        <4>1. n \in 1 .. Len(target)
          BY <1>1, <3>1 DEF len
        <4>2. SubSeq(target, 1, n) = SubSeq(target, 1, n - 1) \o <<target[n]>>
          <5>1. 1 \in 1 .. Len(target) /\ n \in 1 .. Len(target)
            BY <1>1, <3>1, <4>1 DEF len
          <5> QED
            BY <5>1, SubSeqRecursiveSecond
        <4>3. SubSeq(target, 1, n - 1) \in Seq(STRING)
          <5>1. \A k \in 1 .. n - 1 : target[k] \in STRING
            BY <1>1, <3>1, ElementOfSeq DEF len
          <5>2. n - 1 \in Int
            BY <1>1, <3>1
          <5> QED
            BY <5>1, <5>2, SubSeqProperties
        <4>4. target[n] \in STRING
          BY <4>1, ElementOfSeq
        <4> QED
          BY <4>2, <4>3, <4>4, AppendIsConcat
      <3>5. Cleaned(g[n - 1], target[n])
               = [text |-> Append(g[n - 1].text, target[n]), paired |-> target[n] = "/"]
        BY <1>7, <3>1, <3>3 DEF Cleaned
      <3> QED
        BY <2>3, <3>2, <3>4, <3>5
    <2> QED
      BY <2>1, <2>2, <2>3
  <1>9. Recursion(target, g)
    BY <1>g, <1>8 DEF Recursion, len
  <1>10. Cleaning(target)[len].text = L
    <2>1. Cleaning(target) = g
      BY <1>9, CleaningIs
    <2>2. g[len].text = SubSeq(target, 1, len - 1)
      <3> DEFINE text == SubSeq(target, 1, len - 1)
                 paired == target[len - 1] = "/"
      <3>1. g[len] = [text |-> text, paired |-> paired]
        BY <1>g
      <3> HIDE DEF text, paired
      <3>2. g[len].text = text
        BY <3>1
      <3> QED
        BY <3>2 DEF text
    <2> QED
      BY <1>2, <2>1, <2>2
  <1>11. convertCaptureGroups(target) = L
    <2>1. CASE target = <<"/", "$1">>
      <3>1. len = 2 /\ target[1] = "/"
        BY <2>1 DEF len
      <3>2. L = Slash
        <4>1. Slash = <<"/">> /\ Len(Slash) = 1 /\ Slash[1] = "/"
          BY DEF Slash
        <4>2. Len(L) = 1 /\ L[1] = "/"
          BY <1>4, <3>1
        <4>3. L = <<L[1]>>
          <5>1. L[1] \in STRING
            BY <1>4, <4>2, <3>1, ElementOfSeq
          <5> DEFINE one == <<L[1]>>
          <5>2. one \in Seq(STRING) /\ Len(one) = 1 /\ one[1] = L[1]
            BY <5>1
          <5>3. \A k \in 1 .. Len(L) : L[k] = one[k]
            <6>1. \A k \in 1 .. Len(L) : k = 1
              BY <4>2
            <6> HIDE DEF one
            <6> QED
              BY <5>2, <6>1
          <5> HIDE DEF one
          <5>4. L = one
            BY <1>4, <4>2, <5>2, <5>3, SeqEqual
          <5> QED
            BY <5>4 DEF one
        <4> QED
          BY <4>1, <4>2, <4>3
      <3> QED
        BY <2>1, <3>2 DEF convertCaptureGroups
    <2>2. CASE target # <<"/", "$1">>
      <3>1. target # <<"$1">>
        <4>1. Len(<<"$1">>) = 1
          OBVIOUS
        <4> QED
          BY <1>1, <1>3, <4>1 DEF len
      <3>2. Cleaning(target)[Len(target)].text = L /\ L # <<>>
        BY <1>2, <1>10 DEF len
      <3> QED
        BY <2>2, <3>1, <3>2 DEF convertCaptureGroups
    <2> QED
      BY <2>1, <2>2
  <1> QED
    BY <1>1, <1>3, <1>4, <1>6, <1>11 DEF Last, L

\* A literal that ends with one slash and what follows are joined by one slash.
LEMMA JoinedByOne ==
    ASSUME NEW text \in Seq(STRING), Len(text) \in Nat \ {0}, Last(text) = "/",
           \A k \in 2 .. Len(text) : text[k - 1] = "/" => text[k] # "/",
           NEW rest \in Seq(STRING), rest # <<>>, Head(rest) = "/"
    PROVE  TrimSlashes(text) \o rest = text \o Tail(rest)
  <1> DEFINE n == Len(text)
             trimmed == SubSeq(text, 1, n - 1)
  <1>0. n \in Nat /\ n >= 1 /\ n - 1 \in Nat /\ n = Len(text)
    OBVIOUS
  <1>1. text[n] = "/" /\ n - 1 \in 0 .. n
    BY DEF Last
  <1>2. n - 1 = 0 \/ text[n - 1] # "/"
    <2>1. CASE n - 1 = 0
      BY <2>1
    <2>2. CASE n - 1 # 0
      <3>1. n \in 2 .. n
        <4> HIDE DEF n
        <4> QED
          BY <1>0, <2>2
      <3> QED
        BY <1>1, <3>1
    <2> QED
      BY <2>1, <2>2
  <1>3. TrimSlashes(text) = trimmed
    <2>1. n - 1 \in 0 .. Len(text)
      BY <1>1
    <2>2. \A k \in n - 1 + 1 .. Len(text) : text[k] = "/"
      <3>1. \A k \in n - 1 + 1 .. Len(text) : k = n
        BY <1>0
      <3> QED
        BY <1>1, <3>1
    <2> QED
      BY <1>2, <2>1, <2>2, TrimsTo
  <1>4. /\ trimmed \in Seq(STRING) /\ Len(trimmed) = n - 1
        /\ \A k \in 1 .. n - 1 : trimmed[k] = text[k]
    <2>1. \A k \in 1 .. n - 1 : text[k] \in STRING
      <3>1. \A k \in 1 .. n - 1 : k \in 1 .. n
        BY <1>0
      <3> QED
        BY <3>1, ElementOfSeq
    <2> HIDE DEF n
    <2> QED
      BY <1>0, <2>1, SubSeqProperties DEF trimmed
  <1>5. /\ Tail(rest) \in Seq(STRING) /\ Len(Tail(rest)) = Len(rest) - 1
        /\ \A k \in 1 .. Len(rest) - 1 : Tail(rest)[k] = rest[k + 1]
        /\ Len(rest) \in Nat \ {0} /\ rest[1] = "/"
    BY HeadTailProperties, EmptySeq
  <1>6. /\ trimmed \o rest \in Seq(STRING)
        /\ Len(trimmed \o rest) = n - 1 + Len(rest)
        /\ \A k \in 1 .. n - 1 + Len(rest) :
               (trimmed \o rest)[k] = IF k <= n - 1 THEN trimmed[k] ELSE rest[k - (n - 1)]
    BY <1>4, ConcatProperties
  <1>7. /\ text \o Tail(rest) \in Seq(STRING)
        /\ Len(text \o Tail(rest)) = n + (Len(rest) - 1)
        /\ \A k \in 1 .. n + (Len(rest) - 1) :
               (text \o Tail(rest))[k] = IF k <= n THEN text[k] ELSE Tail(rest)[k - n]
    BY <1>5, ConcatProperties
  <1> HIDE DEF trimmed, n
  <1>8. ASSUME NEW k \in 1 .. n - 1 + Len(rest)
        PROVE  (trimmed \o rest)[k] = (text \o Tail(rest))[k]
    <2>0. /\ n - 1 + Len(rest) = n + (Len(rest) - 1) /\ k \in 1 .. n + (Len(rest) - 1)
          /\ k \in Nat /\ k >= 1
      BY <1>0, <1>5
    <2>1. CASE k <= n - 1
      <3>1. k \in 1 .. n - 1 /\ k <= n
        BY <1>0, <2>0, <2>1
      <3> QED
        BY <1>4, <1>6, <1>7, <2>0, <2>1, <3>1
    <2>2. CASE k = n
      <3>1. ~(k <= n - 1) /\ k - (n - 1) = 1 /\ k <= n
        BY <1>0, <2>2
      <3> QED
        BY <1>1, <1>5, <1>6, <1>7, <2>0, <2>2, <3>1
    <2>3. CASE k > n
      <3>1. /\ ~(k <= n - 1) /\ ~(k <= n)
            /\ k - n \in 1 .. Len(rest) - 1 /\ k - n + 1 = k - (n - 1)
        BY <1>0, <1>5, <2>0, <2>3
      <3>2. (trimmed \o rest)[k] = rest[k - (n - 1)]
        BY <1>6, <3>1
      <3>3. (text \o Tail(rest))[k] = Tail(rest)[k - n]
        BY <1>7, <2>0, <3>1
      <3>4. Tail(rest)[k - n] = rest[k - n + 1]
        BY <1>5, <3>1
      <3> QED
        BY <3>1, <3>2, <3>3, <3>4
    <2>4. k <= n - 1 \/ k = n \/ k > n
      BY <1>0, <2>0
    <2> QED
      BY <2>1, <2>2, <2>3, <2>4
  <1>9. Len(trimmed \o rest) = Len(text \o Tail(rest))
    BY <1>0, <1>5, <1>6, <1>7
  <1> QED
    BY <1>3, <1>6, <1>7, <1>8, <1>9, SeqEqual

\* What nginx captures of a request: nothing, or all that follows the prefix and a
\* slash.
LEMMA CapturedRest ==
    ASSUME Written, NEW request \in Requests, NEW rest \in Captured(request)
    PROVE  LET after == After(path.prefix, request)
           IN  /\ path.form # "plain" /\ request \in Seq(STRING)
               /\ IsPrefix(path.prefix, request)
               /\ after \in Seq(STRING)
               /\ \/ after = <<>> /\ rest = <<>>
                  \/ after # <<>> /\ Head(after) = "/" /\ rest = Tail(after)
  <1> DEFINE after == After(path.prefix, request)
  <1>1. request \in Seq(STRING) /\ path.prefix \in Seq(STRING)
    BY PathsAssumption DEF Written
  <1>2. after \in Seq(STRING)
    <2>1. Len(request) \in Nat /\ Len(path.prefix) \in Nat
      BY <1>1, LenProperties
    <2> QED
      BY <1>1, <2>1, SubSeqProperties, ElementOfSeq DEF After
  <1> QED
    BY <1>1, <1>2 DEF Captured

\* The match of a path that is followed by groups, when the target uses them.
LEMMA MatchOfGroups ==
    ASSUME Written, path.form # "plain", NEW target, containsCaptureGroups(target),
           NEW match, match = convertPathMatch(PathText, pathType, TRUE, {target}),
           pathType # "Exact"
    PROVE  match.type = "PathPrefix" /\ TrimSlashes(match.value) = path.prefix
  <1>1. /\ path.prefix \in Seq(Char)
        /\ \A k \in DOMAIN path.prefix : path.prefix[k] \notin RegexChars
        /\ path.prefix = <<>> \/ Last(path.prefix) # "/"
        /\ path.form \in DOMAIN Forms
    BY PathsAssumption, Texts DEF Written
  <1>2. /\ match.type = "PathPrefix"
        /\ match.value = extractStaticPrefix(path.prefix \o Forms[path.form])
    BY DEF convertPathMatch, PathText
  <1>3. /\ Forms[path.form] \in Seq(Char)
        /\ \E m \in 1 .. Len(Forms[path.form]) :
              /\ Forms[path.form][m] \in RegexChars
              /\ \A k \in 1 .. m - 1 : Forms[path.form][k] = "/"
    <2>1. CASE path.form = "slashOrEnd"
      <3>1. Forms["slashOrEnd"] = <<"(", "/", "|", "$", ")", "(", ".", "*", ")">>
        BY DEF Forms
      <3>2. Forms["slashOrEnd"][1] = "(" /\ 1 \in 1 .. Len(Forms["slashOrEnd"])
        BY <3>1
      <3>3. Forms["slashOrEnd"] \in Seq(Char)
        BY <3>1 DEF Char
      <3>4. "(" \in RegexChars /\ \A k \in 1 .. 1 - 1 : FALSE
        BY DEF RegexChars
      <3> HIDE DEF Forms
      <3> QED
        BY <2>1, <3>2, <3>3, <3>4
    <2>2. CASE path.form = "rest"
      <3>1. Forms["rest"] = <<"/", "(", ".", "*", ")">>
        BY DEF Forms
      <3>2. /\ Forms["rest"][1] = "/" /\ Forms["rest"][2] = "("
            /\ 2 \in 1 .. Len(Forms["rest"])
        BY <3>1
      <3>3. Forms["rest"] \in Seq(Char)
        BY <3>1 DEF Char
      <3>4. "(" \in RegexChars /\ \A k \in 1 .. 2 - 1 : k = 1
        BY DEF RegexChars
      <3> QED
        BY <2>2, <3>2, <3>3, <3>4
    <2>3. CASE path.form = "emptyGroup"
      <3>1. Forms["emptyGroup"] = <<"/", "(", ")", "(", ".", "*", ")">>
        BY DEF Forms
      <3>2. /\ Forms["emptyGroup"][1] = "/" /\ Forms["emptyGroup"][2] = "("
            /\ 2 \in 1 .. Len(Forms["emptyGroup"])
        BY <3>1
      <3>3. Forms["emptyGroup"] \in Seq(Char)
        BY <3>1 DEF Char
      <3>4. "(" \in RegexChars /\ \A k \in 1 .. 2 - 1 : k = 1
        BY DEF RegexChars
      <3> QED
        BY <2>3, <3>2, <3>3, <3>4
    <2> QED
      BY <1>1, <2>1, <2>2, <2>3 DEF Forms
  <1>4. match.value = IF path.prefix = <<>> THEN Slash ELSE path.prefix
    BY <1>1, <1>2, <1>3, StaticPrefix
  <1> QED
    BY <1>1, <1>2, <1>4, PrefixOfMatch

LEMMA RewritesLikeNginx ==
    ASSUME Written
    PROVE  RewriteAsNginx
  <1> SUFFICES ASSUME NEW target \in annots["rewrite-target"], UseRegex,
                      pathType # "Exact", annots["app-root"] = {}, EndsWithGroup(target)
               PROVE  /\ Rule.backend
                      /\ \A request \in Requests, match \in Rule.matches :
                            \A rest \in Captured(request) :
                               /\ Matches(match, request)
                               /\ \A filter \in Rule.rewrite :
                                      Rewritten(match, filter, request) = Front(target) \o rest
    BY DEF RewriteAsNginx
  <1>1. annots["rewrite-target"] = {target} /\ target \in Seq(STRING)
    BY Says, ValuesAssumption DEF Keys
  <1>2. /\ convertCaptureGroups(target) = Front(target)
        /\ Front(target) \in Seq(STRING) /\ Len(Front(target)) \in Nat \ {0}
        /\ Last(Front(target)) = "/"
        /\ \A k \in 2 .. Len(Front(target)) :
               Front(target)[k - 1] = "/" => Front(target)[k] # "/"
    BY <1>1, CleansTo
  <1>3. containsCaptureGroups(target)
    <2>1. Last(target) \in Captures /\ Front(target) # <<>>
      BY DEF EndsWithGroup, LastGroup, Captures
    <2>2. Len(target) \in Nat /\ DOMAIN target = 1 .. Len(target)
      BY <1>1, LenProperties
    <2>3. Len(target) \in DOMAIN target
      BY <2>1, <2>2, SubSeqEmpty DEF Front
    <2> QED
      BY <2>1, <2>3 DEF containsCaptureGroups, Last
  <1>4. /\ Rule.backend
        /\ \A match \in Rule.matches :
               match = convertPathMatch(PathText, pathType, TRUE, {target})
        /\ \A filter \in Rule.rewrite :
               filter.type = "ReplacePrefixMatch" /\ filter.value = Front(target)
    <2>1. Rule = convertPathWithFilters(PathText, pathType, TRUE, {target}, {})
      BY <1>1 DEF Rule
    <2>2. \A matches : addAppRootRedirect(matches, {}) = {}
      BY DEF addAppRootRedirect
    <2>3. addRewriteFilter(target)
             = [type |-> "ReplacePrefixMatch", value |-> Front(target)]
      BY <1>2, <1>3 DEF addRewriteFilter
    <2>4. /\ Rule.backend = TRUE
          /\ Rule.rewrite = {addRewriteFilter(target)}
          /\ Rule.matches = IF PathText = <<>> THEN {}
                            ELSE {convertPathMatch(PathText, pathType, TRUE, {target})}
      BY <2>1, <2>2 DEF convertPathWithFilters
    <2>5. \A filter \in Rule.rewrite : filter = addRewriteFilter(target)
      BY <2>4
    <2>6. \A match \in Rule.matches :
              match = convertPathMatch(PathText, pathType, TRUE, {target})
      BY <2>4
    <2>7. Rule.backend
      BY <2>4
    <2>8. ASSUME NEW filter \in Rule.rewrite
          PROVE  filter.type = "ReplacePrefixMatch" /\ filter.value = Front(target)
      <3>1. filter = [type |-> "ReplacePrefixMatch", value |-> Front(target)]
        BY <2>3, <2>5
      <3> QED
        BY <3>1
    <2> QED
      BY <2>6, <2>7, <2>8
  <1>5. ASSUME NEW request \in Requests, NEW match \in Rule.matches,
               NEW rest \in Captured(request)
        PROVE  /\ Matches(match, request)
               /\ \A filter \in Rule.rewrite :
                      Rewritten(match, filter, request) = Front(target) \o rest
    <2> DEFINE after == After(path.prefix, request)
    <2>1. /\ path.form # "plain" /\ IsPrefix(path.prefix, request)
          /\ after \in Seq(STRING)
          /\ \/ after = <<>> /\ rest = <<>>
             \/ after # <<>> /\ Head(after) = "/" /\ rest = Tail(after)
      BY CapturedRest
    <2> HIDE DEF after
    <2>2. match.type = "PathPrefix" /\ TrimSlashes(match.value) = path.prefix
      BY <1>3, <1>4, <2>1, MatchOfGroups
    <2>3. Matches(match, request)
      BY <2>1, <2>2 DEF Matches, after
    <2>4. ASSUME NEW filter \in Rule.rewrite
          PROVE  Rewritten(match, filter, request) = Front(target) \o rest
      <3>1. Rewritten(match, filter, request)
               = IF after = <<>> THEN Front(target)
                 ELSE TrimSlashes(Front(target)) \o after
        BY <1>4, <2>2 DEF Rewritten, after
      <3>2. CASE after = <<>>
        BY <1>2, <2>1, <3>1, <3>2, ConcatEmptySeq
      <3>3. CASE after # <<>>
        BY <1>2, <2>1, <3>1, <3>3, JoinedByOne
      <3> QED
        BY <3>2, <3>3
    <2> QED
      BY <2>3, <2>4
  <1> QED
    BY <1>4, <1>5

\* convertPathMatch, addRewriteFilter: for every path and target of the documented
\* forms, whatever their texts, a request that nginx rewrites is matched by the rule,
\* keeps its backend, and reaches it under the path that nginx gives it.
THEOREM RewritesAsNginx == Spec => []RewriteAsNginx
  BY RewritesLikeNginx, AlwaysWritten, PTL

----
\* The name of a variable of nginx has no "-".
VariableNames ==
    \A key \in Values["upstream-hash-by"] :
        (Trimmed(key) # <<>> /\ Head(Trimmed(key)) = "$http_") =>
            \A k \in DOMAIN Trimmed(key) : Trimmed(key)[k] # "-"

LEMMA HashesHeader ==
    ASSUME Written, VariableNames
    PROVE  HashAsNginx
  <1> SUFFICES ASSUME NEW key \in annots["upstream-hash-by"],
                      Trimmed(key) # <<>>, Head(Trimmed(key)) = "$http_"
               PROVE  LET name == buildLoadBalancer(key).name
                      IN  /\ \A k \in DOMAIN name : name[k] # "_"
                          /\ [k \in DOMAIN name |-> IF name[k] = "-" THEN "_" ELSE name[k]]
                               = Tail(Trimmed(key))
    BY DEF HashAsNginx
  <1> DEFINE text == Trimmed(key)
             variable == Tail(text)
  <1>1. key \in Values["upstream-hash-by"] /\ key \in Seq(STRING)
    BY Says, ValuesAssumption DEF Keys
  <1>2. text \in Seq(STRING) /\ text # <<>> /\ \A k \in DOMAIN text : text[k] # "-"
    BY <1>1, TrimmedPart DEF VariableNames
  <1>3. variable \in Seq(STRING) /\ \A k \in DOMAIN variable : variable[k] # "-"
    <2> HIDE DEF text
    <2>1. variable \in Seq(STRING) /\ Len(variable) = Len(text) - 1
      BY <1>2
    <2>2. ASSUME NEW k \in DOMAIN variable
          PROVE  variable[k] = text[k + 1] /\ k + 1 \in DOMAIN text
      BY <1>2, <2>1
    <2> QED
      BY <1>2, <2>1, <2>2
  <1>4. buildLoadBalancer(key).name = Dashed(variable)
    <2>1. text \notin {<<"$remote_addr">>, <<"$binary_remote_addr">>}
      OBVIOUS
    <2> QED
      BY <2>1 DEF buildLoadBalancer, HashOf
  <1>5. Tail(Trimmed(key)) = variable
    OBVIOUS
  <1> DEFINE name == Dashed(variable)
  <1> HIDE DEF variable
  <1>6. variable = [k \in DOMAIN variable |-> variable[k]]
    BY <1>3
  <1>7. /\ DOMAIN name = DOMAIN variable
        /\ \A k \in DOMAIN variable :
              name[k] = IF variable[k] = "_" THEN "-" ELSE variable[k]
    BY DEF Dashed
  <1>8. \A k \in DOMAIN name : name[k] # "_"
    BY <1>7
  <1>9. [k \in DOMAIN name |-> IF name[k] = "-" THEN "_" ELSE name[k]] = variable
    BY <1>3, <1>6, <1>7
  <1> QED
    BY <1>4, <1>5, <1>8, <1>9

\* buildLoadBalancer: requests are hashed by the header that nginx keeps in the
\* variable the annotation names, whatever it is.
THEOREM HashesAsNginx ==
    ASSUME VariableNames
    PROVE  Spec => []HashAsNginx
  <1>1. Written => HashAsNginx
    BY HashesHeader
  <1> QED
    BY <1>1, AlwaysWritten, PTL

----
\* A port that is read is the one in the URL, unless it is too large for an int32,
\* which makes it negative; and one that an int32 counts is read.
LEMMA PortRead ==
    ASSUME NEW n \in Nat, n < PortWord
    PROVE  /\ \A p \in parsePort(n) : p > 0 => p = n
           /\ n < PortWord \div 2 => parsePort(n) = {n}
  <1> USE PortAssumption
  <1> DEFINE half == PortWord \div 2
             sum  == n + half
  <1>1. half \in Nat /\ 2 * half <= PortWord /\ PortWord <= 2 * half + 1
    BY Z3
  <1>2. sum \in Nat /\ half <= MaxInt + 1
    BY <1>1
  <1>3. CASE sum < PortWord
    <2>1. sum % PortWord = sum
      BY <1>2, <1>3
    <2> QED
      BY <1>1, <1>2, <2>1 DEF parsePort
  <1>4. CASE sum >= PortWord
    <2>1. sum - PortWord \in 0 .. PortWord - 1 /\ sum = 1 * PortWord + (sum - PortWord)
      BY <1>1, <1>4
    <2>2. sum % PortWord = sum - PortWord
      BY <1>2, <2>1, Z3
    <2> QED
      BY <1>1, <1>2, <1>4, <2>2 DEF parsePort
  <1> QED
    BY <1>2, <1>3, <1>4

LEMMA AuthorizesAtPort ==
    ASSUME Written
    PROVE  AuthPortKept
  <1> SUFFICES ASSUME NEW url \in annots["auth-url"], NEW ref \in buildExtAuth(url),
                      NEW meant, meant = IF url.port # {} THEN url.port ELSE SchemePort(url),
                      \A n \in meant : n < PortWord
               PROVE  /\ ref.port \subseteq meant
                      /\ (\A n \in meant : n \in 1 .. PortWord \div 2 - 1) => ref.port = meant
    BY DEF AuthPortKept
  <1>1. url.port \subseteq Nat
    BY Says, ValuesAssumption DEF Keys
  <1>2. ref.port = AuthPort(url)
    BY DEF buildExtAuth
  <1>3. CASE url.port = {}
    <2>1. \A n \in SchemePort(url) : n > 0
      BY DEF SchemePort
    <2>2. AuthPort(url) = SchemePort(url)
      BY <1>3, <2>1 DEF AuthPort
    <2> QED
      BY <1>2, <1>3, <2>2
  <1>4. CASE url.port # {}
    <2>1. AuthPort(url) = {p \in UNION {parsePort(n) : n \in meant} : p > 0}
      BY <1>4 DEF AuthPort
    <2>2. AuthPort(url) \subseteq meant
      BY <1>1, <1>4, <2>1, PortRead
    <2>3. ASSUME \A n \in meant : n \in 1 .. PortWord \div 2 - 1, NEW n \in meant
          PROVE  n \in AuthPort(url)
      <3>1. n \in Nat /\ n < PortWord /\ n < PortWord \div 2 /\ n > 0
        BY <1>1, <1>4, <2>3, PortAssumption
      <3>2. parsePort(n) = {n}
        BY <3>1, PortRead
      <3> QED
        BY <2>1, <3>1, <3>2
    <2> QED
      BY <1>2, <2>2, <2>3
  <1> QED
    BY <1>3, <1>4

\* buildExtAuth: requests are authorized at the port the auth-url means, or at none,
\* and at none only if an int32 does not count that port.
THEOREM AuthorizesAtMeantPort == Spec => []AuthPortKept
  BY AuthorizesAtPort, AlwaysWritten, PTL

----
\* What does not go once into a duration that is negative.
LEMMA NegativeIsZero ==
    ASSUME NEW d \in Int, d < 0
    PROVE  formatDuration(d) = [h |-> 0, m |-> 0, s |-> 0, ms |-> 0]
  <1>1. ASSUME NEW unit \in Nat \ {0}
        PROVE  Count(d, unit) = 0 /\ Rest(d, unit) = d
    <2>1. (-d) \in Nat /\ (-d) \div unit \in Nat
      BY Z3
    <2>2. ~(Quotient(d, unit) > 0)
      BY <2>1 DEF Quotient
    <2> QED
      BY <2>2 DEF Count, Rest
  <1>2. /\ Hour \in Nat \ {0} /\ Minute \in Nat \ {0}
        /\ Second \in Nat \ {0} /\ Millisecond \in Nat \ {0}
    BY DurationAssumption DEF Hour, Minute, Second
  <1>3. AfterHours(d) = d
    BY <1>1, <1>2 DEF AfterHours
  <1>4. AfterMinutes(d) = d
    BY <1>1, <1>2, <1>3 DEF AfterMinutes
  <1>5. AfterSeconds(d) = d
    BY <1>1, <1>2, <1>4 DEF AfterSeconds
  <1> QED
    BY <1>1, <1>2, <1>3, <1>4, <1>5 DEF formatDuration


LEMMA FormatType ==
    ASSUME NEW d \in Int
    PROVE  formatDuration(d) \in Units
  <1>1. CASE d < 0
    BY <1>1, NegativeIsZero DEF Units
  <1>2. CASE d >= 0
    <2>1. d \in Nat
      BY <1>2
    <2> QED
      BY <2>1, DurationsSurvive
  <1> QED
    BY <1>1, <1>2

\* A product that a word counts is kept.
LEMMA WrapKeeps ==
    ASSUME NEW n \in 0 .. Word \div 2 - 1
    PROVE  Wrap(n) = n
  <1> USE DurationAssumption
  <1> DEFINE half == Word \div 2
  <1>1. half \in Nat /\ 2 * half <= Word
    BY Z3
  <1>2. n + half \in Nat /\ n + half < Word
    BY <1>1
  <1>3. (n + half) % Word = n + half
    BY <1>2
  <1> QED
    BY <1>1, <1>3 DEF Wrap

LEMMA WrapType ==
    ASSUME NEW n \in Int
    PROVE  Wrap(n) \in Int
  BY DurationAssumption DEF Wrap

----
\* The texts of a timeout, and what they were asked for.
LEMMA TimeoutAsked ==
    ASSUME Written, NEW t \in Timeout
    PROVE  \E a \in annots["proxy-read-timeout"] \cup annots["proxy-send-timeout"] :
              /\ a.n \in Int
              /\ \/ a.form = "seconds" /\ t = formatDuration(Wrap(a.n * Second))
                 \/ a.form = "duration" /\ t = formatDuration(a.n)
  <1>1. PICK a \in annots["proxy-read-timeout"] \cup annots["proxy-send-timeout"] :
           t \in GetDuration(a)
    BY DEF Timeout, buildTimeout
  <1>2. a \in [form : {"text", "seconds", "duration"}, n : Int]
    BY Says, ValuesAssumption DEF Keys
  <1> QED
    BY <1>1, <1>2 DEF GetDuration

LEMMA TypeWritten ==
    ASSUME Written
    PROVE  TypeOK
  <1>1. ASSUME NEW key \in Keys
        PROVE  annots[key] \subseteq Values[key] /\ Cardinality(annots[key]) <= 1
    <2>1. CASE annots[key] = {}
      BY <2>1, FS_EmptySet
    <2>2. ASSUME NEW value \in Values[key], annots[key] = {value}
          PROVE  annots[key] \subseteq Values[key] /\ Cardinality(annots[key]) <= 1
      <3>1. Cardinality({value}) = 1
        BY FS_Singleton
      <3> QED
        BY <2>2, <3>1
    <2> QED
      BY <2>1, <2>2 DEF Written
  <1>2. ASSUME NEW t \in Timeout
        PROVE  t \in Units
    <2>1. PICK a \in annots["proxy-read-timeout"] \cup annots["proxy-send-timeout"] :
              /\ a.n \in Int
              /\ t \in {formatDuration(Wrap(a.n * Second)), formatDuration(a.n)}
      BY TimeoutAsked
    <2>2. a.n \in Int
      BY <2>1
    <2>3. a.n * Second \in Int
      BY <2>2, DurationAssumption DEF Second
    <2>4. Wrap(a.n * Second) \in Int
      BY <2>3, WrapType
    <2>5. formatDuration(Wrap(a.n * Second)) \in Units
      BY <2>4, FormatType
    <2>6. \A n \in Int : formatDuration(n) \in Units
      BY FormatType
    <2> DEFINE asked == a.n
    <2>7. asked \in Int /\ t \in {formatDuration(Wrap(a.n * Second)), formatDuration(asked)}
      BY <2>1
    <2> HIDE DEF asked
    <2>8. formatDuration(asked) \in Units
      BY <2>6, <2>7
    <2> QED
      BY <2>5, <2>7, <2>8
  <1> QED
    BY <1>1, <1>2 DEF TypeOK, Written, Units

\* Whatever is written on the Ingress, each number of a timeout is less than one of
\* the next larger unit, whether a word counts the timeout or not.
THEOREM ContentType == Spec => []TypeOK
  BY TypeWritten, AlwaysWritten, PTL

LEMMA KeepsDuration ==
    ASSUME Written
    PROVE  DurationKept
  <1> SUFFICES ASSUME \A asked \in AskedTimeouts : asked \in 0 .. Word \div 2 - 1,
                      NEW t \in Timeout
               PROVE  \E asked \in AskedTimeouts :
                          Meaning(t) <= asked /\ asked < Meaning(t) + Millisecond
    BY DEF DurationKept
  <1>1. PICK a \in annots["proxy-read-timeout"] \cup annots["proxy-send-timeout"] :
           \/ a.form = "seconds" /\ t = formatDuration(Wrap(a.n * Second))
           \/ a.form = "duration" /\ t = formatDuration(a.n)
    BY TimeoutAsked
  <1>2. Asked(a) \subseteq AskedTimeouts
    BY DEF AskedTimeouts
  <1>3. PICK asked \in Asked(a) : t \in {formatDuration(Wrap(asked)), formatDuration(asked)}
    BY <1>1 DEF Asked
  <1>4. asked \in 0 .. Word \div 2 - 1 /\ asked \in AskedTimeouts
    BY <1>2
  <1>5. t = formatDuration(asked) /\ asked \in Nat
    BY <1>3, <1>4, WrapKeeps
  <1> QED
    BY <1>4, <1>5, DurationsSurvive

\* formatDuration and GetDuration: a timeout in the policy is one that was asked for,
\* to the millisecond, however long, as long as a word counts it.
THEOREM TimeoutsSurvive == Spec => []DurationKept
  BY KeepsDuration, AlwaysWritten, PTL
====
