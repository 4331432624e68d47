--------------------------------- MODULE PhpLexer ---------------------------------
(***************************************************************************)
(* The lexer of PHP files (internal/agent/phplex.go): which bytes are      *)
(* code, which are comments and which are the contents of strings.         *)
(*                                                                         *)
(* Pure functions over sequences of characters.  Offsets count from 0, as  *)
(* in the code; a span goes from its first to behind its last character.   *)
(* The three opening tags are one, "<" and "?".                            *)
(***************************************************************************)
EXTENDS Integers, Sequences, FiniteSets, SequencesExt, FiniteSetsExt

CONSTANTS
    PhpIdent,       \* the characters of labels and names
    PhpMaxChains,   \* bounds how many chains of literals are put together
    PhpMaxValue     \* a chain's value that is longer is cut (512)

ASSUME PhpAssumption == PhpMaxChains \in Nat /\ PhpMaxValue \in Nat

PhpSpace == {" ", "tab"}

\* The character at an offset; there is none behind the last.
CharAt(src, i) == IF i < Len(src) THEN src[i + 1] ELSE "end"

Lies(src, i, chars) == \A k \in DOMAIN chars : CharAt(src, i + k - 1) = chars[k]

\* The first offset from i on that is so, or the end.
FirstFrom(src, i, So(_)) == Min({j \in i..Len(src) - 1 : So(j)} \cup {IF i < Len(src) THEN Len(src) ELSE i})

Span(a, b) == [start |-> a, end |-> b]

-----------------------------------------------------------------------------
(* The ends of comments and strings *)

\* A line comment ends at the line's end or at a close tag.
LineCommentEnd(src, i) ==
    FirstFrom(src, i, LAMBDA j : CharAt(src, j) = "nl" \/ Lies(src, j, <<"?", ">">>))

BlockCommentEnd(src, i) ==
    LET close == FirstFrom(src, i + 2, LAMBDA j : Lies(src, j, <<"*", "/">>))
    IN  IF Lies(src, close, <<"*", "/">>) THEN close + 2 ELSE Len(src)

\* The closing quote, past escaped characters.
RECURSIVE QuoteEnd(_, _, _)
QuoteEnd(src, i, quote) ==
    CASE i >= Len(src) \/ CharAt(src, i) = quote -> i
      [] CharAt(src, i) = "esc" /\ i + 1 < Len(src) -> QuoteEnd(src, i + 2, quote)
      [] OTHER -> QuoteEnd(src, i + 1, quote)

BacktickEnd(src, i) == FirstFrom(src, i, LAMBDA j : CharAt(src, j) = "bt")

\* The label of a heredoc, and the end of the line it is in.
HeredocLabel(src, i) ==
    LET word == FirstFrom(src, i + 3, LAMBDA j : CharAt(src, j) \notin PhpSpace)
        from == IF CharAt(src, word) \in {"sq", "dq"} THEN word + 1 ELSE word
    IN  SubSeq(src, from + 1, FirstFrom(src, from, LAMBDA j : CharAt(src, j) \notin PhpIdent))

HeredocBody(src, i) == FirstFrom(src, i + 3, LAMBDA j : CharAt(src, j) = "nl")

\* findHeredocEnd: behind the label, at the first line that begins with it.
FindHeredocEnd(src, from, label) ==
    LET after(nl) ==
            FirstFrom(src, nl + 1, LAMBDA j : CharAt(src, j) \notin PhpSpace) + Len(label)
        ends(nl) == /\ CharAt(src, nl) = "nl" /\ after(nl) <= Len(src)
                    /\ Lies(src, after(nl) - Len(label), label)
                    /\ CharAt(src, after(nl)) \notin PhpIdent
        nl == FirstFrom(src, from, ends)
    IN  IF label = <<>> \/ ~ends(nl) THEN Len(src) ELSE after(nl)

-----------------------------------------------------------------------------
(* lexPHP *)

PhpView == [blank |-> {}, strs |-> <<>>, comments |-> <<>>]

BlankOut(view, src, a, b) ==
    [view EXCEPT !.blank = @ \cup {j \in a..b - 1 : j < Len(src) /\ CharAt(src, j) # "nl"}]
AddComment(view, src, a, b) ==
    [BlankOut(view, src, a, b) EXCEPT !.comments = Append(@, Span(a, b))]
AddString(view, src, a, b) ==
    [BlankOut(view, src, a, b) EXCEPT !.strs = Append(@, Span(a, b))]

RECURSIVE LexFrom(_, _, _, _)
LexFrom(src, i, inPHP, view) ==
    LET c == CharAt(src, i)
        tag == FirstFrom(src, i, LAMBDA j : Lies(src, j, <<"<", "?">>))
        line == LineCommentEnd(src, i)
        block == BlockCommentEnd(src, i)
        quote == IF c = "bt" THEN BacktickEnd(src, i + 1) ELSE QuoteEnd(src, i + 1, c)
        body == HeredocBody(src, i)
        heredoc == FindHeredocEnd(src, body, HeredocLabel(src, i))
    IN  CASE i >= Len(src) -> view
          [] i < Len(src) /\ ~inPHP ->
                LexFrom(src, tag + 2, TRUE, BlankOut(view, src, i, tag))
          [] inPHP /\ Lies(src, i, <<"?", ">">>) -> LexFrom(src, i + 2, FALSE, view)
          [] inPHP /\ (Lies(src, i, <<"/", "/">>) \/ (c = "#" /\ CharAt(src, i + 1) # "[")) ->
                LexFrom(src, line, TRUE, AddComment(view, src, i, line))
          [] inPHP /\ Lies(src, i, <<"/", "*">>) ->
                LexFrom(src, block, TRUE, AddComment(view, src, i, block))
          [] inPHP /\ c \in {"sq", "dq", "bt"} ->
                LexFrom(src, quote + 1, TRUE, AddString(view, src, i + 1, quote))
          [] inPHP /\ Lies(src, i, <<"<", "<", "<">>) ->
                LexFrom(src, heredoc, TRUE, AddString(view, src, body, heredoc))
          [] OTHER -> LexFrom(src, i + 1, TRUE, view)

LexPHP(src) == LexFrom(src, 0, FALSE, PhpView)

\* The code view: what is blanked out is a blank.
CodeView(view, src) == [k \in DOMAIN src |-> IF k - 1 \in view.blank THEN " " ELSE src[k]]

\* withoutComments: comments are blanked out, strings are kept.
WithoutComments(view, src) ==
    LET inside(j) == \E i \in DOMAIN view.comments :
                        j \in view.comments[i].start..view.comments[i].end - 1
    IN  [k \in DOMAIN src |-> IF inside(k - 1) /\ src[k] # "nl" THEN " " ELSE src[k]]

-----------------------------------------------------------------------------
(* Chains of literals *)

\* stringValues: what the literals hold, so many at most and cut to length.
StringValues(view, src, maxCount, maxLen) ==
    LET some == SelectSeq(view.strs, LAMBDA s : s.start < s.end /\ s.start < Len(src))
    IN  [i \in 1..Min({Len(some), maxCount}) |->
            SubSeq(src, some[i].start + 1, Min({some[i].end, some[i].start + maxLen, Len(src)}))]

\* isConcatGap: one dot, and else quotes and white space.
IsConcatGap(gap) ==
    /\ ToSet(gap) \subseteq {".", "sq", "dq", "nl"} \cup PhpSpace
    /\ Cardinality({i \in DOMAIN gap : gap[i] = "."}) = 1

Joined(src, strs, j) ==
    /\ strs[j].end < strs[j + 1].start /\ strs[j + 1].start <= Len(src)
    /\ IsConcatGap(SubSeq(src, strs[j].end + 1, strs[j + 1].start))

\* concatChains: literals that are joined are put together, from the first, up
\* to the one that makes the value too long; the others count all the same.
RECURSIVE ChainsFrom(_, _, _, _)
ChainsFrom(src, strs, i, chains) ==
    IF i > Len(strs) \/ Len(chains) >= PhpMaxChains THEN chains
    ELSE LET last == Min({j \in i..Len(strs) : j = Len(strs) \/ ~Joined(src, strs, j)})
             parts == last - i + 1
             text(n) == FlattenSeq([k \in 1..n |->
                           SubSeq(src, strs[i + k - 1].start + 1, strs[i + k - 1].end)])
             value == text(Min({n \in 1..parts : n = parts \/ Len(text(n)) > PhpMaxValue}))
         IN  ChainsFrom(src, strs, last + 1,
                 IF last = i THEN chains
                 ELSE Append(chains, [value |-> value, at |-> strs[i].start,
                                      parts |-> parts]))

ConcatChains(view, src) == ChainsFrom(src, view.strs, 1, <<>>)

-----------------------------------------------------------------------------
(* What the functions are for, defined without them *)

\* PHP's rules, character by character: the mode a file is in, how many
\* characters are taken along with the one that was read, and whether each of
\* those is code.  A heredoc is not told apart here.
PhpMode(mode, src, i) ==
    LET c == CharAt(src, i)
    IN  CASE mode = "html" /\ Lies(src, i, <<"<", "?">>) -> [mode |-> "code", code |-> <<TRUE, TRUE>>]
          [] mode = "code" /\ Lies(src, i, <<"?", ">">>) -> [mode |-> "html", code |-> <<TRUE, TRUE>>]
          [] mode = "code" /\ Lies(src, i, <<"/", "*">>) -> [mode |-> "block", code |-> <<FALSE, FALSE>>]
          [] mode = "code" /\ (Lies(src, i, <<"/", "/">>) \/ (c = "#" /\ CharAt(src, i + 1) # "[")) ->
                [mode |-> "line", code |-> <<FALSE>>]
          [] mode = "code" /\ c \in {"sq", "dq", "bt"} -> [mode |-> c, code |-> <<TRUE>>]
          [] mode = "line" /\ c = "nl" -> [mode |-> "code", code |-> <<TRUE>>]
          [] mode = "line" /\ Lies(src, i, <<"?", ">">>) -> [mode |-> "html", code |-> <<TRUE, TRUE>>]
          [] mode = "block" /\ Lies(src, i, <<"*", "/">>) -> [mode |-> "code", code |-> <<FALSE, FALSE>>]
          [] mode \in {"sq", "dq", "bt"} /\ c = mode -> [mode |-> "code", code |-> <<TRUE>>]
          [] mode \in {"sq", "dq"} /\ c = "esc" -> [mode |-> mode, code |-> <<FALSE, FALSE>>]
          [] OTHER -> [mode |-> mode, code |-> <<mode = "code">>]

RECURSIVE PhpCode(_, _, _)
PhpCode(mode, src, i) ==
    IF i >= Len(src) THEN <<>>
    ELSE LET m == PhpMode(mode, src, i) IN m.code \o PhpCode(m.mode, src, i + Len(m.code))

\* "Which bytes are executable code, as opposed to comments or string data?"
\* The lexer's answer is PHP's, at every character but line ends.
LexRight(view, src) ==
    LET code == PhpCode("html", src, 0)
    IN  \A i \in 0..Len(src) - 1 :
            CharAt(src, i) # "nl" => ((i \in view.blank) <=> ~code[i + 1])

\* The view that YARA gets is lexed as the file is: blanking the comments
\* out neither opens nor closes a string, a comment or a tag.
CommentsDoNotMatter(view, src) ==
    LET bare == WithoutComments(view, src)
    IN  CodeView(LexPHP(bare), bare) = CodeView(view, src)

\* A literal is in a chain exactly if one of its neighbours is joined to it,
\* and in one chain with it, as long as the bound on chains is not met.
ChainsRight(view, src) ==
    LET strs == view.strs
        chains == ConcatChains(view, src)
        in(k) == {c \in DOMAIN chains : \E j \in DOMAIN strs :
                     /\ strs[j].start = chains[c].at /\ j <= k /\ k < j + chains[c].parts}
    IN  Len(chains) < PhpMaxChains =>
            \A k \in 1..Len(strs) - 1 : Joined(src, strs, k) <=> in(k) \cap in(k + 1) # {}
=============================================================================
