---------------------------- MODULE PathRulesCheck ----------------------------
(****************************************************************************)
(* PathRules against reference definitions.  The state is one input of each *)
(* algorithm, grown a piece at a time, so TLC evaluates the algorithms on   *)
(* every input within the bounds.                                           *)
(****************************************************************************)
EXTENDS PathRules, Integers, FiniteSets

CONSTANTS
    Letters,        \* characters of a segment
    MaxSegment,     \* bound: characters of a segment and of its pattern
    PatternSegs,    \* segments a rule is built from
    PathSegs,       \* segments a normalized path is built from
    WrittenSegs,    \* written segments a request target is built from
    MaxSegs         \* bound: segments of a rule, a path and a target

ASSUME SegmentsAssumption ==
    /\ Letters \subseteq STRING
    /\ PatternSegs \subseteq Seq(STRING) /\ PathSegs \subseteq Seq(STRING)
    /\ WrittenSegs \subseteq Seq(Written)

VARIABLES
    chars,    \* a segment pattern and a segment: <<pattern, segment>>
    glob,     \* a rule and a path: <<pattern, path>>
    target    \* a request target

inputs == <<chars, glob, target>>

InputInit == chars = <<<<>>, <<>>>> /\ glob = <<<<>>, <<>>>> /\ target = <<>>

\* Only one of the three inputs is grown in a behaviour: they are independent.
GrowChars(i) ==
    /\ glob = <<<<>>, <<>>>> /\ target = <<>>
    /\ Len(chars[i]) < MaxSegment
    /\ \E c \in Letters \cup (IF i = 1 THEN {Star} ELSE {}) :
           chars' = [chars EXCEPT ![i] = Append(@, c)]
    /\ UNCHANGED <<glob, target>>

GrowGlob(i) ==
    /\ chars = <<<<>>, <<>>>> /\ target = <<>>
    /\ Len(glob[i]) < MaxSegs
    /\ \E s \in IF i = 1 THEN PatternSegs ELSE PathSegs :
           glob' = [glob EXCEPT ![i] = Append(@, s)]
    /\ UNCHANGED <<chars, target>>

GrowTarget ==
    /\ chars = <<<<>>, <<>>>> /\ glob = <<<<>>, <<>>>>
    /\ Len(target) < MaxSegs + 1
    /\ \E s \in WrittenSegs : target' = Append(target, s)
    /\ UNCHANGED <<chars, glob>>

InputNext == (\E i \in 1 .. 2 : GrowChars(i) \/ GrowGlob(i)) \/ GrowTarget

InputSpec == InputInit /\ [][InputNext]_inputs

-----------------------------------------------------------------------------
\* The usual meaning of "*", each star stands for some run of characters:
\* rest[i] is where the pattern from its i-th character on matches the rest of
\* the segment.
Rests(pattern, seg) ==
    LET rest[i \in 1 .. Len(pattern) + 1] ==
            IF i > Len(pattern) THEN {Len(seg) + 1}
            ELSE IF pattern[i] = Star
                 THEN {j \in 1 .. Len(seg) + 1 : \E k \in rest[i + 1] : j <= k}
                 ELSE {j \in 1 .. Len(seg) : seg[j] = pattern[i] /\ j + 1 \in rest[i + 1]}
    IN  rest

SegmentMeaning(pattern, seg) == 1 \in Rests(pattern, seg)[1]

\* matchSegment's leftmost search, prefix cut and suffix test accept exactly
\* the segments some choice of runs for the stars would give.
SegmentAgrees ==
    matchSegment(chars[1], chars[2]) = SegmentMeaning(chars[1], chars[2])

\* A rule matches a path when the path's segments can be dealt out, in order,
\* to the rule's segments: any number to "**", exactly one to every other.
GlobMeaning(pattern, path) ==
    \E owner \in [DOMAIN path -> DOMAIN pattern] :
        /\ \A j, k \in DOMAIN path : j <= k => owner[j] <= owner[k]
        /\ \A j \in DOMAIN path :
               pattern[owner[j]] = Cross \/ SegmentMeaning(pattern[owner[j]], path[j])
        /\ \A i \in DOMAIN pattern :
               pattern[i] = Cross \/ \E j \in DOMAIN path :
                                         \A k \in DOMAIN path : owner[k] = i <=> k = j

\* matchGlob's backtracking over "**" accepts exactly those paths, the rest
\* and the empty rest included.
GlobAgrees == matchGlob(glob[1], glob[2]) = GlobMeaning(glob[1], glob[2])

-----------------------------------------------------------------------------
IsName(name) == name \notin {<<>>, Dot, DotDot}

\* Names minus ".." among the names i to j.
Depth(t, i, j) ==
    Cardinality({k \in i .. j : IsName(t[k])}) - Cardinality({k \in i .. j : t[k] = DotDot})

\* A name survives when no later ".." climbs past it.
Survivors(t) ==
    {i \in DOMAIN t : IsName(t[i]) /\ \A j \in i + 1 .. Len(t) : Depth(t, i, j) > 0}

\* Character j of segment i comes before any "?" or "#" written as such.
InPath(t, i, j) ==
    /\ \A h \in 1 .. i - 1 : QueryMarks(t[h]) = {}
    /\ \A k \in 1 .. j : k \notin QueryMarks(t[i])

\* What the segments of a target stand for: the characters before a query and
\* before a ";" of any spelling, each decoded.
NamesOf(t) ==
    [i \in {i \in DOMAIN t : InPath(t, i, 0)} |->
        [j \in {j \in DOMAIN t[i] : InPath(t, i, j) /\ \A k \in 1 .. j : t[i][k].char # ";"}
            |-> t[i][j].char]]

\* NormalizePath refuses exactly the targets that hold something undecodable
\* before their query or climb above the root, and otherwise keeps exactly the
\* names no ".." removes, in their order.  Dots and parameters count however
\* they were written (normalize.go decodes before it looks at segments), a query
\* only when it was written literally.
NormalizeAgrees ==
    target # <<>> =>
        LET out  == NormalizePath(target)
            t    == NamesOf(target)
            kept == Survivors(t)
        IN  /\ out.ok <=> /\ \A i \in DOMAIN target : \A j \in DOMAIN target[i] :
                                 InPath(target, i, j) => ~Undecodable(target[i][j])
                          /\ \A j \in DOMAIN t : Depth(t, 1, j) >= 0
            /\ out.ok => /\ Len(out.segs) = Cardinality(kept)
                         /\ \A i \in kept :
                                out.segs[Cardinality({j \in kept : j <= i})] = t[i]

\* normalize.go: "The returned path always starts with "/" and contains ... no
\* query or fragment."
NoQueryOrFragment ==
    target # <<>> =>
        LET segs == NormalizePath(target).segs
        IN  \A i \in DOMAIN segs : \A j \in DOMAIN segs[i] : segs[i][j] \notin {"?", "#"}
=============================================================================
