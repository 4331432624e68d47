------------------------------ MODULE MCFunctions ------------------------------
(***************************************************************************)
(* Questions put to the pure functions of the code, by topic, and whether  *)
(* a function's answer is the one of its reference definition.  MCSafety   *)
(* asks each of them in an initial state that takes no step.               *)
(***************************************************************************)
EXTENDS YaraSubset, RuleMatch, PhpLexer, FileChecks, TLC

\* All sequences of at most n elements of S.
MCUpTo(S, n) == UNION {[1..k -> S] : k \in 0..n}

-----------------------------------------------------------------------------
(* The calendar: days of 24 units, local offsets that change once *)

Calendar == INSTANCE ScheduleCalendar WITH CalDay <- 24

CalZones ==
    {[at |-> at, before |-> b, after |-> b + d] :
        at \in {45, 48, 50, 51, 52}, b \in {-3, 0, 2}, d \in -2..2}

CalCases ==
    [zone : CalZones, minute : {0, 1, 2, 12, 23},
     weekdays : {0..6, {2}, {1, 5}}, from : {20, 21, 24, 44} \cup 47..52 \cup {71, 80}]

\* NextRunAfter (schedules.go) agrees with a search through the coming days:
\* the first moment after "from" that is the given local time on one of the
\* weekdays, across clock changes, unless the change moves local times to another
\* day.
NextRunRight(q) ==
    Calendar!CalKeepsDays(q.zone) =>
        Calendar!NextRunAfter(q.zone, q.minute, q.weekdays, q.from)
            = Calendar!CalNextFiring(q.zone, q.minute, q.weekdays, q.from)

-----------------------------------------------------------------------------
(* YARA: bytes 97 65 98 are a A b; two strings, a private guard rule *)

MCIdA == <<"$", "a">>
MCIdB == <<"$", "a", "b">>

MCText(id, text, ascii, wide, nocase, full) ==
    [id |-> id, kind |-> "text", text |-> text, ascii |-> ascii, wide |-> wide,
     nocase |-> nocase, fullword |-> full, hex |-> <<>>]
MCHex(id, elems) ==
    [MCText(id, <<>>, TRUE, FALSE, FALSE, FALSE) EXCEPT !.kind = "hex", !.hex = elems]
MCRegex(id, text) == [MCText(id, text, TRUE, FALSE, FALSE, FALSE) EXCEPT !.kind = "regex"]

MCMask(set) ==
    [jump |-> FALSE, min |-> 0, max |-> 0, masks |-> [b \in {97, 65, 98, 0, 32} |-> b \in set]]
MCJump(lo, hi) == [MCMask({}) EXCEPT !.jump = TRUE, !.min = lo, !.max = hi]

MCStringsA == {MCText(MCIdA, <<97>>, TRUE, FALSE, FALSE, FALSE),
               MCText(MCIdA, <<97>>, TRUE, FALSE, TRUE, TRUE),
               MCText(MCIdA, <<97>>, FALSE, TRUE, FALSE, FALSE)}
MCStringsB == {MCText(MCIdB, <<97, 98>>, TRUE, FALSE, FALSE, FALSE),
               MCHex(MCIdB, <<MCMask({97, 65}), MCJump(0, 1), MCMask({98})>>),
               MCRegex(MCIdB, <<98>>)}

MCPrimaries ==
    {YaraStr(MCIdA), YaraOf("any", 0, <<>>), YaraOf("all", 0, << <<"$", "a", "*">> >>),
     YaraOf("none", 0, <<MCIdA, MCIdB>>), YaraOf("N", 0, <<>>), YaraOf("N", 2, <<>>),
     YaraNear(<<MCIdA>>, <<MCIdB>>, 1), YaraCmp(">", YaraCount(MCIdA), YaraNum(1)),
     YaraCmp("==", YaraOffset(MCIdB), YaraNum(1)), YaraStrAt(MCIdB, YaraNum(0)),
     YaraCmp("==", YaraUint(8, YaraNum(0)), YaraNum(97)),
     YaraCmp("<", YaraFilesize, YaraNum(3)), YaraRule("guard"), YaraBool(TRUE)}

MCConditions ==
    MCPrimaries \cup {YaraNot(x) : x \in MCPrimaries}
        \cup {YaraAnd(x, y) : x \in MCPrimaries, y \in {YaraStr(MCIdA), YaraNot(YaraStr(MCIdB))}}
        \cup {YaraOr(y, x) : x \in MCPrimaries, y \in {YaraStr(MCIdA), YaraRule("guard")}}

MCRules(a, b, cond) ==
    <<[name |-> "guard", private |-> TRUE, cond |-> YaraStr(MCIdA),
       strings |-> <<MCText(MCIdA, <<98>>, TRUE, FALSE, FALSE, FALSE)>>],
      [name |-> "main", private |-> FALSE, strings |-> <<a, b>>, cond |-> cond]>>

\* A content and its view, in which comments may be blank.
MCContents == MCUpTo({97, 98}, 2) \cup {<<65>>, <<97, 0>>, <<97, 98, 97>>, <<97, 0, 97, 98>>}
MCViews(d) == {d} \cup {[i \in DOMAIN d |-> IF i \in blank THEN 32 ELSE d[i]] : blank \in {{1}, {2}}}

MCCompound(S) ==
    S \cup {YaraNot(x) : x \in S} \cup {YaraAnd(x, y) : x, y \in S} \cup {YaraOr(x, y) : x, y \in S}

GateRight(q) ==
    \A d \in MCContents : \A v \in MCViews(d) : GateMissesNothing(MCRules(q.a, q.b, q.cond), d, v)

HexesRight(elems) == \A d \in MCUpTo({97, 98}, 4) : HexRight(elems, d)

NearsRight(q) ==
    NearRight(YaraNear(<<MCIdA>>, <<MCIdB>>, q.dist),
              [ids |-> <<MCIdA, MCIdB>>,
               offsets |-> MCIdA :> InOrder(q.a) @@ MCIdB :> InOrder(q.b)])

-----------------------------------------------------------------------------
(* Rule packs *)

MCLiterals == {<<97>>, <<97, 98>>, <<98, 97>>, <<98, 66>>, <<65, 98, 97>>, <<98, 98, 97>>, <<>>}

MCRule(id, gate, within) ==
    [id |-> id, gate |-> gate, not |-> <<"n">>, all |-> <<"x", "y">>, allCode |-> <<>>,
     any |-> <<>>, anyCode |-> <<>>, within |-> within, scope |-> "raw", exts |-> {},
     minSize |-> 0, maxSize |-> 3, pathNot |-> {}, pathAny |-> {}]

MCPacks ==
    [rules : MCUpTo({MCRule(id, gate, w) : id \in {"r1", "r2"},
                        gate \in {{<<97>>}, {<<66, 97>>}}, w \in {0, 2}}, 1),
     iocs : {<<>>, <<<<97, 98>>>>}]

MCFile(content) ==
    [content |-> content, ext |-> "php", size |-> 2, path |-> {"p"},
     raw |-> [n |-> <<>>, x |-> <<0, 4>>, y |-> <<2>>],
     code |-> [n |-> <<>>, x |-> <<0>>, y |-> <<2>>]]

LiteralsRight(literals) == \A d \in MCUpTo({97, 98, 66}, 4) : MatchSetRight(literals, d)

WindowsRight(q) ==
    WindowRight([i \in DOMAIN q.groups |-> SetToSortSeq(q.groups[i], <)], q.within)

PacksRight(packs) ==
    PacksMerged(packs) /\ \A c \in MCUpTo({97, 98, 66}, 2) : RuleAlone(packs, MCFile(c))

-----------------------------------------------------------------------------
(* PHP *)

MCOpenTag == <<"<", "?">>

MCSources ==
    MCUpTo({"<", "?", ">", "/", "*", "sq", "x", "nl", "#", "esc"}, 3)
        \cup {MCOpenTag \o s : s \in MCUpTo({"?", ">", "/", "*", "sq", "nl", "esc"}, 4)}
MCHeredocs ==
    {MCOpenTag \o <<"<", "<", "<", "x", "nl">> \o s : s \in MCUpTo({"x", "nl", "sq", " "}, 4)}
MCChains ==
    {MCOpenTag \o <<"sq">> \o s \o <<"sq">> : s \in MCUpTo({"sq", ".", "dq", "x", " "}, 4)}

\* Where a string begins and ends, and what a comment or a chain of literals
\* does to what the rules see.
ViewRight(view, src) ==
    /\ CommentsDoNotMatter(view, src) /\ ChainsRight(view, src)
    /\ src \notin MCHeredocs => LexRight(view, src)

-----------------------------------------------------------------------------
(* Files taken together *)

MCMeta(i, dir, mtime, ctime) ==
    [name |-> i, dir |-> dir, mtime |-> mtime, ctime |-> ctime, verified |-> FALSE,
     state |-> FALSE, writable |-> i = 1, exists |-> i # 2,
     mode |-> IF i \in {1, 3, 4} THEN "world" ELSE "own"]

\* Four files of which those in "old" carry a time of long ago.
MCStomps ==
    {q \in [dir : [1..4 -> {<<"a", "x">>, <<"a", "y">>, <<>>}],
            ctime : [1..4 -> {5, 6, 8, 9}], old : {1..4, 1..3, {1, 3, 4}}] :
        \A i \in 1..3 : q.ctime[i] <= q.ctime[i + 1]}
MCStomped(q) ==
    {MCMeta(i, q.dir[i], IF i \in q.old THEN 0 ELSE q.ctime[i], q.ctime[i]) : i \in 1..4}

MCPolyglots ==
    [full : BOOLEAN, short : BOOLEAN, fullReal : BOOLEAN, shortReal : BOOLEAN,
     starts : BOOLEAN, magic : BOOLEAN, marker : BOOLEAN]

\* Neighbours' times, late writes and modes of at most six files.  Which of
\* the first five neighbours is which makes no difference.
NeighboursRight(times) == OutliersRight({MCMeta(i, <<"a">>, times[i], 0) : i \in DOMAIN times})
LateRight(q) ==
    /\ RuntimeWritesRight({MCMeta(i, <<"a">>, 0, q[i]) : i \in DOMAIN q}, 0)
    /\ WorldWritableRight([i \in DOMAIN q |-> MCMeta(q[i], <<"a">>, i, i)])

\* A file, and the same file when its size was taken before its last byte.
ProbeRight(content) ==
    \A size \in {Len(content), Len(content) - 1} \cap Nat : AppendedIsRead(content, size)

-----------------------------------------------------------------------------
Questions ==
    [calendar |-> CalCases,
     yara_gate |-> [a : MCStringsA, b : MCStringsB, cond : MCConditions],
     yara_parse |-> MCCompound(MCCompound({YaraStr(MCIdA), YaraRule("guard"),
                        YaraCmp("<", YaraFilesize, YaraNum(3))}))
                    \cup MCConditions \cup MCCompound({YaraStr(MCIdA), YaraRule("internal")}),
     yara_hex |-> MCUpTo({MCMask({97}), MCMask({97, 98}), MCJump(0, 2), MCJump(1, 1)}, 3) \ {<<>>},
     yara_near |-> [a : SUBSET (0..3), b : SUBSET (0..3), dist : 0..2],
     literals |-> {s \in SUBSET MCLiterals : Cardinality(s) <= 3},
     windows |-> [groups : [1..2 -> SUBSET (0..4)] \cup [1..3 -> SUBSET (0..2)], within : 1..3],
     packs |-> MCUpTo(MCPacks, 2),
     php |-> MCSources \cup MCChains \cup MCHeredocs,
     stomps |-> MCStomps,
     neighbours |-> {t \in [1..6 -> 0..3] : \A i \in 1..4 : t[i] <= t[i + 1]},
     late |-> [1..4 -> 0..4],
     polyglot |-> MCPolyglots,
     probe |-> MCUpTo({"<", "?", "x"}, 6)]

AnswerRight(topic, q) ==
    CASE topic = "calendar" -> NextRunRight(q)
      [] topic = "yara_gate" -> GateRight(q)
      [] topic = "yara_parse" -> ParsedAsMeant(q)
      [] topic = "yara_hex" -> HexesRight(q)
      [] topic = "yara_near" -> NearsRight(q)
      [] topic = "literals" -> LiteralsRight(q)
      [] topic = "windows" -> WindowsRight(q)
      [] topic = "packs" -> PacksRight(q)
      [] topic = "php" -> ViewRight(LexPHP(q), q)
      [] topic = "stomps" -> TimestompsRight(MCStomped(q))
      [] topic = "neighbours" -> NeighboursRight(q)
      [] topic = "late" -> LateRight(q)
      [] topic = "polyglot" -> PolyglotRight(q)
      [] topic = "probe" -> ProbeRight(q)
=============================================================================
