------------------------------ MODULE PathRules ------------------------------
(****************************************************************************)
(* Request paths and path rules: internal/policy/normalize.go and the path  *)
(* half of match.go.                                                        *)
(*                                                                          *)
(* A request target is split at the slashes the client wrote, after an      *)
(* optional leading one: a non-empty sequence of written segments, each a   *)
(* sequence of written characters.  A written character is what it stands   *)
(* for and whether it was written as an escape ("%3b") or literally; a "%"  *)
(* that begins no escape is a literal "%".  Control and Nul stand for bytes.*)
(* Escapes never make a separator (they are refused), so the split may come *)
(* before the decoding.                                                     *)
(* A normalized path is its segments, sequences of characters, and the      *)
(* trailing-slash flag, which no rule looks at: MatchPath compares with one *)
(* trailing slash trimmed.                                                  *)
(****************************************************************************)
EXTENDS Naturals, Sequences, SequencesExt

Written == [char : STRING, esc : BOOLEAN]
Targets == Seq(Seq(Written))

Nul == "NUL"
Control == "control"    \* any other control byte

Dot == <<".">>
DotDot == <<".", ".">>
Star == "*"
Cross == <<Star, Star>>    \* the segment "**"

\* What comes before the first of the positions stops.
Until(text, stops) ==
    IF stops = {} THEN text
    ELSE SubSeq(text, 1, (CHOOSE i \in stops : \A j \in stops : i <= j) - 1)

\* Where a query or fragment begins in a written segment.
QueryMarks(seg) == {j \in DOMAIN seg : ~seg[j].esc /\ seg[j].char \in {"?", "#"}}

\* The target without its query and fragment.
PathOf(target) ==
    LET cut  == {i \in DOMAIN target : QueryMarks(target[i]) # {}}
        whole == Until(target, cut)
    IN  IF cut = {} THEN target
        ELSE LET last == target[Len(whole) + 1]
             IN  Append(whole, Until(last, QueryMarks(last)))

\* decodeOnce and the checks around it: literal control bytes, escapes that are
\* malformed or stand for a separator or NUL, and a "%" or backslash that one
\* pass leaves.
Undecodable(w) ==
    \/ ~w.esc /\ w.char \in {Nul, Control}
    \/ w.esc /\ w.char \in {Nul, "/"}
    \/ w.char \in {"%", "\\"}

Decodable(path) == \A i \in DOMAIN path : \A j \in DOMAIN path[i] : ~Undecodable(path[i][j])

\* Mutant of SegmentName: the parameter is cut off before the escapes are decoded.
SegmentNameLateDecode(seg) ==
    LET name == Until(seg, {j \in DOMAIN seg : ~seg[j].esc /\ seg[j].char = ";"})
    IN  [j \in DOMAIN name |-> name[j].char]

\* A decoded segment without its path parameter.
SegmentName(seg) ==
    LET text == [j \in DOMAIN seg |-> seg[j].char]
    IN  Until(text, {j \in DOMAIN text : text[j] = ";"})

Start == [ok |-> TRUE, segs |-> <<>>, slash |-> FALSE]
Refused == [ok |-> FALSE, segs |-> <<>>, slash |-> FALSE]

\* One segment of the loop of NormalizePath: empty and "." segments vanish, ".."
\* removes the segment before it and must have one to remove.
NormalizeStep(out, name) ==
    IF ~out.ok \/ name \in {<<>>, Dot} THEN out
    ELSE IF name # DotDot THEN [out EXCEPT !.segs = Append(@, name)]
    ELSE IF out.segs = <<>> THEN Refused
    ELSE [out EXCEPT !.segs = Front(@)]

\* The loop: out[i] is what it has made of the first i names.
Normalized(names) ==
    LET out[i \in 0 .. Len(names)] ==
            IF i = 0 THEN Start ELSE NormalizeStep(out[i - 1], names[i])
    IN  out

NormalizePath(target) ==
    LET path  == PathOf(target)
        names == [i \in DOMAIN path |-> SegmentName(path[i])]
        out   == Normalized(names)[Len(names)]
    IN  IF ~Decodable(path) THEN Refused
        ELSE [out EXCEPT !.slash = out.segs # <<>> /\ Last(path) = <<>>]

-----------------------------------------------------------------------------
HasStar(text) == \E i \in DOMAIN text : text[i] = Star

\* strings.Index: where part occurs in seg at or after position from.
Occurs(part, seg, from) ==
    {i \in from .. Len(seg) + 1 - Len(part) : SubSeq(seg, i, i + Len(part) - 1) = part}

\* Mutant of ToStar: what a part matched is not consumed.
ToStarAgain(pattern, seg, at, i) ==
    LET part  == SubSeq(pattern, at.star + 1, i - 1)
        found == IF at.star = 0 THEN {1} \cap Occurs(part, seg, 1) ELSE Occurs(part, seg, at.rest)
    IN  [star |-> i, rest |-> IF at.rest = 0 \/ found = {} THEN 0
                              ELSE CHOOSE j \in found : \A k \in found : j <= k]

\* The part of the pattern between two stars: the first has to begin the
\* segment, every other is searched leftmost in what is left of it.  at.star is
\* the star before the part, i the one after it, at.rest where the rest of the
\* segment starts, 0 once a part is missing.
ToStar(pattern, seg, at, i) ==
    LET part  == SubSeq(pattern, at.star + 1, i - 1)
        found == IF at.star = 0 THEN {1} \cap Occurs(part, seg, 1) ELSE Occurs(part, seg, at.rest)
    IN  [star |-> i, rest |-> IF at.rest = 0 \/ found = {} THEN 0
                              ELSE Len(part) + CHOOSE j \in found : \A k \in found : j <= k]

\* The loop over the parts, star by star.
Scanned(pattern, seg) ==
    LET at[i \in 0 .. Len(pattern)] ==
            IF i = 0 THEN [star |-> 0, rest |-> 1]
            ELSE IF pattern[i] = Star THEN ToStar(pattern, seg, at[i - 1], i)
            ELSE at[i - 1]
    IN  at

\* What follows the last star has to end what is left of the segment.
matchSegment(pattern, seg) ==
    IF ~HasStar(pattern) THEN pattern = seg
    ELSE LET at == Scanned(pattern, seg)[Len(pattern)]
         IN  at.rest > 0 /\ IsSuffix(SubSeq(pattern, at.star + 1, Len(pattern)),
                                     SubSeq(seg, at.rest, Len(seg)))

\* Mutant of GlobFrom: "**" stands for at least one segment.
GlobFromNonEmpty(pattern, path) ==
    LET from[i \in 1 .. Len(pattern) + 1] ==
            IF i > Len(pattern) THEN {Len(path) + 1}
            ELSE IF pattern[i] = Cross
                 THEN {j \in 1 .. Len(path) : \E k \in from[i + 1] : j < k}
                 ELSE {j \in 1 .. Len(path) : matchSegment(pattern[i], path[j]) /\ j + 1 \in from[i + 1]}
    IN  from

\* from[i]: where the pattern from its i-th segment on matches the rest of path.
GlobFrom(pattern, path) ==
    LET from[i \in 1 .. Len(pattern) + 1] ==
            IF i > Len(pattern) THEN {Len(path) + 1}
            ELSE IF pattern[i] = Cross
                 THEN {j \in 1 .. Len(path) + 1 :
                           i = Len(pattern) \/ \E k \in j .. Len(path) + 1 : k \in from[i + 1]}
                 ELSE {j \in 1 .. Len(path) : matchSegment(pattern[i], path[j]) /\ j + 1 \in from[i + 1]}
    IN  from

matchGlob(pattern, path) == 1 \in GlobFrom(pattern, path)[1]

\* A rule without wildcards is a prefix that ends at a segment boundary, or the
\* whole path when exact; trailing slashes on either side do not matter.
MatchPath(pattern, exact, path) ==
    IF \E i \in DOMAIN pattern : HasStar(pattern[i]) THEN matchGlob(pattern, path)
    ELSE IF exact THEN path = pattern
    ELSE IsPrefix(pattern, path)

\* An empty method list means any method; method names are folded to one case.
MatchMethod(methods, method) == methods = {} \/ method \in methods
=============================================================================
