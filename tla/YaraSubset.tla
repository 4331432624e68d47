------------------------------- MODULE YaraSubset -------------------------------
(***************************************************************************)
(* The YARA subset (internal/yara/rule.go, eval.go): how a condition is    *)
(* parsed, how its strings are found, how it is evaluated, and the         *)
(* prefilter that skips a rule none of whose literals occur in the file    *)
(* (with evalYara in internal/agent/fsscan.go).                            *)
(*                                                                         *)
(* Pure functions.  Data and texts are sequences of bytes; offsets count   *)
(* from 0, as in the code.  A regular expression is a plain text here, for *)
(* which FindAllIndex returns matches that do not overlap.  Identifiers of *)
(* strings are sequences of characters, because of their wildcards.        *)
(***************************************************************************)
EXTENDS Integers, Sequences, FiniteSets, SequencesExt, FiniteSetsExt

CONSTANTS
    YaraMaxMatches,   \* maxMatchesPerString (64)
    YaraMaxHexSteps   \* maxHexSteps (2,000,000)

ASSUME YaraAssumption == YaraMaxMatches \in Nat \ {0} /\ YaraMaxHexSteps \in Nat \ {0}

-----------------------------------------------------------------------------
(* Strings *)

LowerB(b) == IF b \in 65..90 THEN b + 32 ELSE b

IsWordByte(b) == b = 95 \/ b \in 48..57 \/ b \in 65..90 \/ b \in 97..122

\* UTF-16LE, as the wide modifier looks for it.
ToWide(text) == [i \in 1..2 * Len(text) |-> IF i % 2 = 1 THEN text[(i + 1) \div 2] ELSE 0]

\* The encodings compileRule gives a text string, in this order.
Encodings(str) == (IF str.ascii THEN <<str.text>> ELSE <<>>)
                  \o (IF str.wide THEN <<ToWide(str.text)>> ELSE <<>>)

OccursAt(data, pat, off, fold) ==
    /\ off + Len(pat) <= Len(data)
    /\ \A k \in DOMAIN pat : IF fold THEN LowerB(data[off + k]) = LowerB(pat[k])
                                     ELSE data[off + k] = pat[k]

IsFullWord(data, off, n) ==
    /\ off > 0 => ~IsWordByte(data[off])
    /\ off + n < Len(data) => ~IsWordByte(data[off + n + 1])

InOrder(offsets) == SetToSortSeq(offsets, <)

Prefix(s, n) == SubSeq(s, 1, IF Len(s) < n THEN Len(s) ELSE n)

\* findText: the occurrences of each encoding in turn, overlapping ones too.
FindText(str, data) ==
    LET found(pat) ==
            IF pat = <<>> THEN <<>>
            ELSE InOrder({off \in 0..Len(data) :
                     /\ OccursAt(data, pat, off, str.nocase)
                     /\ str.fullword => IsFullWord(data, off, Len(pat))})
    IN  Prefix(FlattenSeq([i \in DOMAIN Encodings(str) |-> found(Encodings(str)[i])]),
               YaraMaxMatches)

\* FindAllIndex for a plain text: each match starts at or after the end of
\* the one before it.
RECURSIVE FindRegexFrom(_, _, _)
FindRegexFrom(str, data, from) ==
    LET next == {off \in from..Len(data) - 1 : OccursAt(data, str.text, off, str.nocase)}
    IN  IF next = {} THEN <<>>
        ELSE <<Min(next)>> \o FindRegexFrom(str, data, Min(next) + Len(str.text))

\* hexMatchAt: the elements from the front, a jump by its shortest length
\* first; every call takes one step of a budget that all of them share.
RECURSIVE HexMatchAt(_, _, _, _), HexJump(_, _, _, _, _)
HexMatchAt(elems, data, pos, budget) ==
    IF budget <= 0 THEN [ok |-> FALSE, left |-> budget]
    ELSE CASE elems = <<>> -> [ok |-> TRUE, left |-> budget - 1]
           [] elems # <<>> /\ Head(elems).jump ->
                 HexJump(elems, data, pos, Head(elems).min, budget - 1)
           [] elems # <<>> /\ ~Head(elems).jump ->
                 IF pos < Len(data) /\ Head(elems).masks[data[pos + 1]]
                 THEN HexMatchAt(Tail(elems), data, pos + 1, budget - 1)
                 ELSE [ok |-> FALSE, left |-> budget - 1]
HexJump(elems, data, pos, by, budget) ==
    IF by > Head(elems).max \/ pos + by > Len(data) THEN [ok |-> FALSE, left |-> budget]
    ELSE LET r == HexMatchAt(Tail(elems), data, pos + by, budget)
         IN  IF r.ok \/ r.left <= 0 THEN r
             ELSE HexJump(elems, data, pos, by + 1, r.left)

\* findHex: every offset in turn, until enough matches or no budget is left.
RECURSIVE FindHexFrom(_, _, _, _)
FindHexFrom(elems, data, off, sofar) ==
    IF off >= Len(data) \/ Len(sofar.found) >= YaraMaxMatches \/ sofar.left <= 0 THEN sofar
    ELSE LET r == HexMatchAt(elems, data, off, sofar.left)
         IN  FindHexFrom(elems, data, off + 1,
                 [found |-> IF r.ok THEN Append(sofar.found, off) ELSE sofar.found,
                  left |-> r.left])

FindHex(elems, data) == FindHexFrom(elems, data, 0, [found |-> <<>>, left |-> YaraMaxHexSteps])

FindAll(str, data) ==
    CASE str.kind = "text" -> FindText(str, data)
      [] str.kind = "hex" -> FindHex(str.hex, data).found
      [] str.kind = "regex" -> Prefix(FindRegexFrom(str, data, 0), YaraMaxMatches)

-----------------------------------------------------------------------------
(* Conditions.  A node, or a value, is a record whose op says which it is. *)

YaraBool(v) == [op |-> "bool", v |-> v]
YaraAnd(l, r) == [op |-> "and", l |-> l, r |-> r]
YaraOr(l, r) == [op |-> "or", l |-> l, r |-> r]
YaraNot(x) == [op |-> "not", x |-> x]
YaraRule(name) == [op |-> "rule", name |-> name]
YaraStr(id) == [op |-> "str", id |-> id]
YaraStrAt(id, off) == [op |-> "at", id |-> id, off |-> off]
YaraOf(q, n, ids) == [op |-> "of", q |-> q, n |-> n, ids |-> ids]
YaraNear(a, b, dist) == [op |-> "near", a |-> a, b |-> b, dist |-> dist]
YaraCmp(cmp, l, r) == [op |-> "cmp", cmp |-> cmp, l |-> l, r |-> r]
YaraNum(n) == [op |-> "num", n |-> n]
YaraCount(id) == [op |-> "count", id |-> id]
YaraOffset(id) == [op |-> "offset", id |-> id]
YaraFilesize == [op |-> "filesize"]
YaraUint(width, off) == [op |-> "uint", width |-> width, off |-> off]

\* A pattern that ends in a star stands for the strings it is a prefix of.
ExpandWildcards(pats, all) ==
    FlattenSeq([i \in DOMAIN pats |->
        IF Last(pats[i]) # "*" THEN <<pats[i]>>
        ELSE SelectSeq(all, LAMBDA id : IsPrefix(Front(pats[i]), id))])

\* The context of a rule: what each of its strings matched.
Offsets(ctx, id) == IF id \in DOMAIN ctx.offsets THEN ctx.offsets[id] ELSE <<>>
Count(ctx, id) == Len(Offsets(ctx, id))

RECURSIVE EvalValue(_, _)
EvalValue(v, ctx) ==
    CASE v.op = "num" -> v.n
      [] v.op = "count" -> Count(ctx, v.id)
      [] v.op = "offset" -> IF Count(ctx, v.id) > 0 THEN Offsets(ctx, v.id)[1] ELSE -1
      [] v.op = "filesize" -> ctx.size
      [] v.op = "uint" ->
            LET off == EvalValue(v.off, ctx)
                bytes == v.width \div 8
            IN  IF off < 0 \/ off + bytes > Len(ctx.data) THEN 0
                ELSE SumSet({ctx.data[off + k + 1] * 256^k : k \in 0..bytes - 1})

\* evalNear's sweep: both sides in order, and for each offset of the left the
\* first of the right that is not before it, and the one before that.
RECURSIVE NearFrom(_, _, _, _, _)
NearFrom(as, bs, dist, i, j) ==
    IF i > Len(as) THEN FALSE
    ELSE LET at == Min({k \in j..Len(bs) : bs[k] >= as[i]} \cup {Len(bs) + 1})
         IN  \/ at <= Len(bs) /\ bs[at] - as[i] <= dist
             \/ at > 1 /\ as[i] - bs[at - 1] <= dist
             \/ NearFrom(as, bs, dist, i + 1, at)

EvalNear(node, ctx) ==
    LET gather(pats) ==
            LET ids == ExpandWildcards(pats, ctx.ids)
            IN  SortSeq(FlattenSeq([i \in DOMAIN ids |-> Offsets(ctx, ids[i])]), <)
    IN  NearFrom(gather(node.a), gather(node.b), node.dist, 1, 1)

EvalOf(node, ctx) ==
    LET ids == IF node.ids = <<>> THEN ctx.ids ELSE ExpandWildcards(node.ids, ctx.ids)
        matched == Cardinality({i \in DOMAIN ids : Count(ctx, ids[i]) > 0})
    IN  CASE node.q = "any" -> matched > 0
          [] node.q = "all" -> ids # <<>> /\ matched = Len(ids)
          [] node.q = "none" -> matched = 0
          [] node.q = "N" -> matched >= node.n

EvalCmp(cmp, l, r) ==
    CASE cmp = "==" -> l = r [] cmp = "!=" -> l # r [] cmp = "<" -> l < r
      [] cmp = ">" -> l > r [] cmp = "<=" -> l <= r [] cmp = ">=" -> l >= r

RECURSIVE EvalNode(_, _)
EvalNode(node, ctx) ==
    CASE node.op = "bool" -> node.v
      [] node.op = "and" -> EvalNode(node.l, ctx) /\ EvalNode(node.r, ctx)
      [] node.op = "or" -> EvalNode(node.l, ctx) \/ EvalNode(node.r, ctx)
      [] node.op = "not" -> ~EvalNode(node.x, ctx)
      [] node.op = "rule" -> node.name \in ctx.results
      [] node.op = "str" -> Count(ctx, node.id) > 0
      [] node.op = "at" -> Contains(Offsets(ctx, node.id), EvalValue(node.off, ctx))
      [] node.op = "of" -> EvalOf(node, ctx)
      [] node.op = "near" -> EvalNear(node, ctx)
      [] node.op = "cmp" -> EvalCmp(node.cmp, EvalValue(node.l, ctx), EvalValue(node.r, ctx))

-----------------------------------------------------------------------------
(* The prefilter and the scan *)

\* Whatever makes the condition true involves a match of one of its strings.
RECURSIVE RequiresSomeString(_)
RequiresSomeString(node) ==
    CASE node.op \in {"str", "at", "near"} -> TRUE
      [] node.op = "of" -> node.q # "none" /\ ~(node.q = "N" /\ node.n <= 0)
      [] node.op = "and" -> RequiresSomeString(node.l) \/ RequiresSomeString(node.r)
      [] node.op = "or" -> RequiresSomeString(node.l) /\ RequiresSomeString(node.r)
      [] OTHER -> FALSE

\* analyzePrefilter: a rule is a sequence of strings and a condition.
Prefilterable(rule) ==
    /\ rule.strings # <<>>
    /\ \A i \in DOMAIN rule.strings : rule.strings[i].kind = "text" /\ rule.strings[i].ascii
    /\ RequiresSomeString(rule.cond)

\* evalYara's gate: the automaton found one of the rule's literals in the
\* content, whatever its case.
GateOpen(rule, content) ==
    \E i \in DOMAIN rule.strings, off \in 0..Len(content) :
        /\ rule.strings[i].text # <<>>
        /\ OccursAt(content, rule.strings[i].text, off, TRUE)

\* The context of a rule; of two strings of one name the later is kept.
RuleContext(rule, data, results) ==
    [data |-> data, size |-> Len(data), results |-> results,
     ids |-> [i \in DOMAIN rule.strings |-> rule.strings[i].id],
     offsets |->
        [id \in {rule.strings[i].id : i \in DOMAIN rule.strings} |->
            FindAll(rule.strings[Max({i \in DOMAIN rule.strings : rule.strings[i].id = id})],
                    data)]]

\* Scan: the rules in order, each seeing the results of those before it.  It
\* gives the names of the rules that hold, private ones too.
Scan(rules, data, open(_)) ==
    FoldLeft(LAMBDA results, rule :
                 IF /\ Prefilterable(rule) => open(rule)
                    /\ EvalNode(rule.cond, RuleContext(rule, data, results))
                 THEN results \cup {rule.name} ELSE results,
             {}, rules)

\* What evalYara reports: the content is gated, its view without comments is
\* scanned, and private rules are left out.
EvalYara(rules, content, view) ==
    LET held == Scan(rules, view, LAMBDA rule : GateOpen(rule, content))
    IN  {rules[i].name : i \in {k \in DOMAIN rules : rules[k].name \in held /\ ~rules[k].private}}

-----------------------------------------------------------------------------
(* The parser of conditions.  Each operator parses from the front of the   *)
(* tokens and gives the node and the tokens that follow it.                *)

YaraFails == [ok |-> FALSE, node |-> YaraBool(FALSE), rest |-> <<>>]
YaraParsed(node, rest) == [ok |-> TRUE, node |-> node, rest |-> rest]

\* A token is its kind and what it says.
YaraOp(text) == [kind |-> "op", text |-> text]
YaraPunct(text) == [kind |-> "punct", text |-> text]
YaraNumber(n) == [kind |-> "number", n |-> n]
YaraIdent(text) == [kind |-> "ident", text |-> text]
YaraVar(id) == [kind |-> "$", id |-> id]           \* "$", its name and its star
YaraRef(kind, id) == [kind |-> kind, id |-> id]    \* "#" or "@" and a name

At(toks, tok) == toks # <<>> /\ Head(toks) = tok
AtKind(toks, kind) == toks # <<>> /\ Head(toks).kind = kind

YaraWidth == [uint8 |-> 8, uint16 |-> 16, uint32 |-> 32]

YaraCmpOps == {"==", "!=", "<", ">", "<=", ">="}

RECURSIVE ParseValue(_)
ParseValue(toks) ==
    CASE AtKind(toks, "number") -> YaraParsed(YaraNum(Head(toks).n), Tail(toks))
      [] AtKind(toks, "#") -> YaraParsed(YaraCount(Head(toks).id), Tail(toks))
      [] AtKind(toks, "@") -> YaraParsed(YaraOffset(Head(toks).id), Tail(toks))
      [] At(toks, YaraIdent("filesize")) -> YaraParsed(YaraFilesize, Tail(toks))
      [] AtKind(toks, "ident") /\ Head(toks).text \in DOMAIN YaraWidth
            /\ At(Tail(toks), YaraPunct("(")) ->
            LET off == ParseValue(Tail(Tail(toks)))
            IN  IF off.ok /\ At(off.rest, YaraPunct(")"))
                THEN YaraParsed(YaraUint(YaraWidth[Head(toks).text], off.node), Tail(off.rest))
                ELSE YaraFails
      [] OTHER -> YaraFails

\* A bare value stands for its being other than zero.
ParseComparisonTail(left, toks) ==
    IF AtKind(toks, "punct") /\ Head(toks).text \in YaraCmpOps
    THEN LET right == ParseValue(Tail(toks))
         IN  IF right.ok THEN YaraParsed(YaraCmp(Head(toks).text, left, right.node), right.rest)
             ELSE YaraFails
    ELSE YaraParsed(YaraCmp("!=", left, YaraNum(0)), toks)

\* ($a, $b*), from the parenthesis on.
RECURSIVE ParseSetFrom(_, _)
ParseSetFrom(toks, ids) ==
    IF ~AtKind(toks, "$") THEN [ok |-> FALSE, ids |-> <<>>, rest |-> <<>>]
    ELSE LET more == Append(ids, Head(toks).id)
             rest == Tail(toks)
         IN  CASE At(rest, YaraPunct(",")) -> ParseSetFrom(Tail(rest), more)
               [] At(rest, YaraPunct(")")) -> [ok |-> TRUE, ids |-> more, rest |-> Tail(rest)]
               [] OTHER -> [ok |-> FALSE, ids |-> <<>>, rest |-> <<>>]

ParseStringSet(toks) ==
    IF At(toks, YaraPunct("(")) THEN ParseSetFrom(Tail(toks), <<>>)
    ELSE [ok |-> FALSE, ids |-> <<>>, rest |-> <<>>]

\* What follows a quantifier: "of them", or "of" and a set.
ParseOfTail(q, n, toks) ==
    LET set == ParseStringSet(Tail(toks))
    IN  CASE ~At(toks, YaraOp("of")) -> YaraFails
          [] At(toks, YaraOp("of")) /\ At(Tail(toks), YaraOp("them")) ->
                YaraParsed(YaraOf(q, n, <<>>), Tail(Tail(toks)))
          [] OTHER -> IF set.ok THEN YaraParsed(YaraOf(q, n, set.ids), set.rest) ELSE YaraFails

ParseNear(toks) ==
    LET a == ParseStringSet(Tail(toks))
        b == ParseStringSet(Tail(a.rest))
    IN  IF /\ At(toks, YaraPunct("(")) /\ a.ok /\ At(a.rest, YaraPunct(","))
           /\ b.ok /\ At(b.rest, YaraPunct(",")) /\ AtKind(Tail(b.rest), "number")
           /\ At(SubSeq(b.rest, 3, Len(b.rest)), YaraPunct(")"))
        THEN YaraParsed(YaraNear(a.ids, b.ids, b.rest[2].n), SubSeq(b.rest, 4, Len(b.rest)))
        ELSE YaraFails

ParseComparison(toks) ==
    LET left == ParseValue(toks)
    IN  IF left.ok THEN ParseComparisonTail(left.node, left.rest) ELSE YaraFails

\* isValueKeyword goes by a name's first letters, so these are keywords too,
\* and no rule of such a name can be referred to.
YaraMisread == {"entrypoint", "internal"}

YaraValueKeywords == {"filesize"} \cup YaraMisread \cup DOMAIN YaraWidth

RECURSIVE ParseOr(_), ParseOrMore(_), ParseAnd(_), ParseAndMore(_), ParseNot(_), ParsePrimary(_)

\* Operands of "or" and of "and" are taken up from the left.
ParseOr(toks) == ParseOrMore(ParseAnd(toks))
ParseOrMore(left) ==
    IF ~left.ok \/ ~At(left.rest, YaraOp("or")) THEN left
    ELSE LET right == ParseAnd(Tail(left.rest))
         IN  IF right.ok THEN ParseOrMore(YaraParsed(YaraOr(left.node, right.node), right.rest))
             ELSE YaraFails

ParseAnd(toks) == ParseAndMore(ParseNot(toks))
ParseAndMore(left) ==
    IF ~left.ok \/ ~At(left.rest, YaraOp("and")) THEN left
    ELSE LET right == ParseNot(Tail(left.rest))
         IN  IF right.ok THEN ParseAndMore(YaraParsed(YaraAnd(left.node, right.node), right.rest))
             ELSE YaraFails

ParseNot(toks) ==
    IF ~At(toks, YaraOp("not")) THEN ParsePrimary(toks)
    ELSE LET x == ParseNot(Tail(toks))
         IN  IF x.ok THEN YaraParsed(YaraNot(x.node), x.rest) ELSE YaraFails

ParseParenthesised(toks) ==
    LET inner == ParseOr(Tail(toks))
    IN  IF inner.ok /\ At(inner.rest, YaraPunct(")"))
        THEN YaraParsed(inner.node, Tail(inner.rest)) ELSE YaraFails

ParseStringRef(toks) ==
    LET off == ParseValue(Tail(Tail(toks)))
    IN  IF At(Tail(toks), YaraOp("at"))
        THEN IF off.ok THEN YaraParsed(YaraStrAt(Head(toks).id, off.node), off.rest) ELSE YaraFails
        ELSE YaraParsed(YaraStr(Head(toks).id), Tail(toks))

ParsePrimary(toks) ==
    CASE At(toks, YaraPunct("(")) -> ParseParenthesised(toks)
      [] At(toks, YaraOp("true")) \/ At(toks, YaraOp("false")) ->
            YaraParsed(YaraBool(Head(toks).text = "true"), Tail(toks))
      [] AtKind(toks, "op") /\ Head(toks).text \in {"any", "all", "none"} ->
            ParseOfTail(Head(toks).text, 0, Tail(toks))
      [] AtKind(toks, "number") /\ At(Tail(toks), YaraOp("of")) ->
            ParseOfTail("N", Head(toks).n, Tail(toks))
      [] AtKind(toks, "$") -> ParseStringRef(toks)
      [] AtKind(toks, "ident") /\ Head(toks).text = "near" /\ At(Tail(toks), YaraPunct("(")) ->
            ParseNear(Tail(toks))
      [] AtKind(toks, "ident") /\ Head(toks).text \notin YaraValueKeywords ->
            YaraParsed(YaraRule(Head(toks).text), Tail(toks))
      [] OTHER -> ParseComparison(toks)

-----------------------------------------------------------------------------
(* What the functions are for, defined without them *)

\* Two offsets, one of each set, no further apart than the distance.
NearMeans(node, ctx) ==
    LET of(pats) == UNION {ToSet(Offsets(ctx, id)) : id \in ToSet(ExpandWildcards(pats, ctx.ids))}
    IN  \E a \in of(node.a), b \in of(node.b) : a - b <= node.dist /\ b - a <= node.dist

\* The elements of a hex string lie one behind the other.
HexOccurs(elems, data, pos) ==
    \E at \in [1..Len(elems) + 1 -> 0..Len(data)] :
        /\ at[1] = pos
        /\ \A k \in DOMAIN elems :
              IF elems[k].jump THEN at[k + 1] - at[k] \in elems[k].min..elems[k].max
              ELSE /\ at[k] < Len(data) /\ at[k + 1] = at[k] + 1
                   /\ elems[k].masks[data[at[k] + 1]]

\* What a node is written as; a node that binds weaker than its place
\* allows is put in parentheses (0: in "or", 1: in "and", 2: in "not").
Parenthesised(toks) == <<YaraPunct("(")>> \o toks \o <<YaraPunct(")")>>

WrittenSet(ids) ==
    LET tok(i) == IF i % 2 = 1 THEN YaraVar(ids[(i + 1) \div 2]) ELSE YaraPunct(",")
    IN  Parenthesised([i \in 1..2 * Len(ids) - 1 |-> tok(i)])

RECURSIVE WrittenValue(_), Written(_, _)
WrittenValue(v) ==
    CASE v.op = "num" -> <<YaraNumber(v.n)>>
      [] v.op = "count" -> <<YaraRef("#", v.id)>>
      [] v.op = "offset" -> <<YaraRef("@", v.id)>>
      [] v.op = "filesize" -> <<YaraIdent("filesize")>>
      [] v.op = "uint" -> <<YaraIdent(CHOOSE w \in DOMAIN YaraWidth : YaraWidth[w] = v.width)>>
                          \o Parenthesised(WrittenValue(v.off))
Written(node, place) ==
    CASE node.op = "bool" -> <<YaraOp(IF node.v THEN "true" ELSE "false")>>
      [] node.op = "or" ->
            LET toks == Written(node.l, 0) \o <<YaraOp("or")>> \o Written(node.r, 1)
            IN  IF place > 0 THEN Parenthesised(toks) ELSE toks
      [] node.op = "and" ->
            LET toks == Written(node.l, 1) \o <<YaraOp("and")>> \o Written(node.r, 2)
            IN  IF place > 1 THEN Parenthesised(toks) ELSE toks
      [] node.op = "not" -> <<YaraOp("not")>> \o Written(node.x, 2)
      [] node.op = "rule" -> <<YaraIdent(node.name)>>
      [] node.op = "str" -> <<YaraVar(node.id)>>
      [] node.op = "at" -> <<YaraVar(node.id), YaraOp("at")>> \o WrittenValue(node.off)
      [] node.op = "of" ->
            <<IF node.q = "N" THEN YaraNumber(node.n) ELSE YaraOp(node.q), YaraOp("of")>>
            \o (IF node.ids = <<>> THEN <<YaraOp("them")>> ELSE WrittenSet(node.ids))
      [] node.op = "near" ->
            <<YaraIdent("near")>>
            \o Parenthesised(WrittenSet(node.a) \o <<YaraPunct(",")>> \o WrittenSet(node.b)
                             \o <<YaraPunct(","), YaraNumber(node.dist)>>)
      [] node.op = "cmp" -> WrittenValue(node.l) \o <<YaraPunct(node.cmp)>> \o WrittenValue(node.r)

\* A condition is read as it is meant: "not" binds closer than "and", "and"
\* closer than "or", equals from the left.  Names that are misread are refused.
ParsedAsMeant(node) ==
    LET toks == Written(node, 0)
        misread == \E i \in DOMAIN toks : AtKind(<<toks[i]>>, "ident") /\ toks[i].text \in YaraMisread
    IN  ParseOr(toks) = IF misread THEN YaraFails ELSE YaraParsed(node, <<>>)

\* The sweep finds two offsets near one another exactly if there are any.
NearRight(node, ctx) == EvalNear(node, ctx) <=> NearMeans(node, ctx)

\* Hex matches are never invented, and only missed once the budget is spent,
\* all those after it and none before.
HexRight(elems, data) ==
    LET r == FindHex(elems, data)
        all == Prefix(InOrder({pos \in 0..Len(data) - 1 : HexOccurs(elems, data, pos)}),
                      YaraMaxMatches)
    IN  IsPrefix(r.found, all) /\ (r.left > 0 => r.found = all)

\* What the gate knows how to look for: a string in one encoding, for of two
\* it is told the plain one only, without blanks, for it does not see the
\* blanks a comment was replaced by.
GateKnows(rules) ==
    \A i \in DOMAIN rules : \A k \in DOMAIN rules[i].strings :
        LET str == rules[i].strings[k]
        IN  str.kind = "text" => ~(str.ascii /\ str.wide) /\ ~Contains(str.text, 32)

\* "Gating can never cause a rule to silently miss" (fsscan.go): with such
\* strings, what is reported is what would be without the gate.
GateMissesNothing(rules, content, view) ==
    GateKnows(rules) =>
        \A i \in DOMAIN rules :
            ~rules[i].private =>
                (rules[i].name \in EvalYara(rules, content, view)
                    <=> rules[i].name \in Scan(rules, view, LAMBDA rule : TRUE))
=============================================================================
