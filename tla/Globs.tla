--------------------------------- MODULE Globs ---------------------------------
(***************************************************************************)
(* The translation of an extended glob to a regular expression             *)
(* (grounded/glob/translate.rs) and the files it selects (expand.rs).      *)
(*                                                                         *)
(* A path is a sequence of characters and a pattern a sequence of tokens.  *)
(* A compiled fragment is what it does to a set of places in a path: the   *)
(* places a match may go on from.  A pattern that opens with `!' negates   *)
(* the whole of the rest, so a pattern cannot open with a `!(...)' token.  *)
(***************************************************************************)
EXTENDS Naturals, FiniteSets, Sequences

CONSTANT Letters        \* the characters of a path other than its slashes

Slash == "/"

Places(path) == 0..Len(path)
At(path, i) == path[i + 1]

(* One character of the set.                                                *)
OneOf(path, from, chars) == {i + 1 : i \in {i \in from : i < Len(path) /\ At(path, i) \in chars}}

(* [^/]*                                                                    *)
WithinSegment(path, from) ==
    {j \in Places(path) : \E i \in from : i <= j /\ \A k \in i..(j - 1) : At(path, k) # Slash}

(* .*                                                                       *)
Onward(path, from) == {j \in Places(path) : \E i \in from : i <= j}

(* (?:/|$)                                                                  *)
SegmentEnds(path, from) == \E i \in from : i = Len(path) \/ At(path, i) = Slash

(* The length of the rest of a segment: what compile_seq_segment_rest takes. *)
SegmentRest(tokens) ==
    LET slashes == {k \in DOMAIN tokens : tokens[k] = [type |-> "char", is |-> Slash]}
    IN  IF slashes = {} THEN Len(tokens) ELSE (CHOOSE k \in slashes : \A l \in slashes : k <= l) - 1

(* compile_seq: where a run of tokens leads from a set of places.           *)
RECURSIVE Leads(_, _, _)

(* compile_group.                                                           *)
AnyOf(alts, path, from) == UNION {Leads(alts[k], path, from) : k \in DOMAIN alts}

RECURSIVE Repeated(_, _, _)
Repeated(alts, path, from) ==
    LET next == from \cup AnyOf(alts, path, from)
    IN  IF next = from THEN from ELSE Repeated(alts, path, next)

(* What one token that is not a negation compiles to.                       *)
Compiled(token, path, from) ==
    CASE token.type = "char"     -> OneOf(path, from, {token.is})
      [] token.type = "?"        -> OneOf(path, from, Letters)
      [] token.type = "class"    -> OneOf(path, from, token.chars)
      [] token.type = "*"        -> WithinSegment(path, from)
      [] token.type = "**"       -> Onward(path, from)
      [] token.type = "**/"      -> from \cup OneOf(path, Onward(path, from), {Slash})
      [] token.type \in {"@()", "{}"} -> AnyOf(token.alts, path, from)
      [] token.type = "?()"      -> from \cup AnyOf(token.alts, path, from)
      [] token.type = "*()"      -> Repeated(token.alts, path, from)
      [] token.type = "+()"      -> AnyOf(token.alts, path, Repeated(token.alts, path, from))

(* The negative lookahead of `!(...)': the excluded text, then the rest of  *)
(* the segment, then its end.                                               *)
Excluded(alts, suffix, path, i) ==
    SegmentEnds(path, Leads(suffix, path, AnyOf(alts, path, {i})))

Negation(alts, suffix, path, from) ==
    LET allowed == {i \in from : /\ SegmentEnds(path, Leads(suffix, path, WithinSegment(path, {i})))
                                 /\ ~Excluded(alts, suffix, path, i)}
    IN  Leads(suffix, path, WithinSegment(path, allowed))

Leads(tokens, path, from) ==
    IF tokens = <<>> THEN from
    ELSE LET rest == Tail(tokens)
             n == SegmentRest(rest)
         IN  IF Head(tokens).type = "!()"
             THEN Leads(SubSeq(rest, n + 1, Len(rest)), path,
                      Negation(Head(tokens).alts, SubSeq(rest, 1, n), path, from))
             ELSE Leads(rest, path, Compiled(Head(tokens), path, from))

(* GlobMatcher::matches.                                                    *)
GlobMatches(pattern, path) ==
    LET whole == Len(path) \in Leads(pattern.tokens, path, {0})
    IN  IF pattern.bang THEN ~whole /\ path # <<>> ELSE whole

(* expand: the files a pattern selects; none is an error.                   *)
Expand(files, pattern) == {path \in files : GlobMatches(pattern, path)}
-----------------------------------------------------------------------------
(* What a pattern means: the texts each token stands for, put together.     *)
Texts(n) == UNION {[1..k -> Letters \cup {Slash}] : k \in 0..n}
Flat(texts) == {s \in texts : \A k \in DOMAIN s : s[k] # Slash}

Joins(A, B, n) == {s \in Texts(n) : \E k \in 0..Len(s) : SubSeq(s, 1, k) \in A /\ SubSeq(s, k + 1, Len(s)) \in B}

RECURSIVE Meaning(_, _)

RECURSIVE Iterated(_, _)
Iterated(A, n) ==
    IF n = 0 THEN {<<>>} ELSE {<<>>} \cup Joins(A, Iterated(A, n - 1), n)

TokenMeans(token, n) ==
    LET Either == UNION {Meaning(token.alts[k], n) : k \in DOMAIN token.alts}
    IN  CASE token.type = "char"  -> {<<token.is>>}
          [] token.type = "?"     -> {<<c>> : c \in Letters}
          [] token.type = "class" -> {<<c>> : c \in token.chars}
          [] token.type = "*"     -> Flat(Texts(n))
          [] token.type = "**"    -> Texts(n)
          [] token.type = "**/"   -> {s \in Texts(n) : s = <<>> \/ s[Len(s)] = Slash}
          [] token.type \in {"@()", "{}"} -> Either
          [] token.type = "?()"   -> {<<>>} \cup Either
          [] token.type = "*()"   -> Iterated(Either, n)
          [] token.type = "+()"   -> Joins(Either, Iterated(Either, n), n)
          [] token.type = "!()"   -> Flat(Texts(n)) \ Either

Meaning(tokens, n) ==
    IF tokens = <<>> THEN {<<>>} ELSE Joins(TokenMeans(Head(tokens), n), Meaning(Tail(tokens), n), n)

(* A negation has one extent when the text after it in its segment has one  *)
(* length.                                                                  *)
OneLength(tokens) == \A k \in DOMAIN tokens : tokens[k].type \in {"char", "?", "class"}

Plain(tokens) ==
    \A k \in DOMAIN tokens :
        tokens[k].type = "!()" =>
            LET rest == SubSeq(tokens, k + 1, Len(tokens)) IN OneLength(SubSeq(rest, 1, SegmentRest(rest)))
===============================================================================
