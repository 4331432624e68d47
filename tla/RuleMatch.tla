-------------------------------- MODULE RuleMatch --------------------------------
(***************************************************************************)
(* The rule packs (internal/rules): how packs are merged into one set, the *)
(* Aho-Corasick automaton (ahocorasick.go) that finds the literals of all  *)
(* rules in one pass, and how a rule is matched (rules.go).                *)
(*                                                                         *)
(* Pure functions.  Literals and contents are sequences of bytes; a node   *)
(* of the automaton is the prefix it stands for.  A regular expression is  *)
(* a name, and a view of a file gives the offsets of its matches, in       *)
(* order.                                                                  *)
(***************************************************************************)
EXTENDS Integers, Sequences, FiniteSets, SequencesExt, FiniteSetsExt

CONSTANT RuleMaxProx     \* maxProxMatches (512)

ASSUME RuleAssumption == RuleMaxProx \in Nat \ {0}

-----------------------------------------------------------------------------
(* The automaton *)

LowerByte(b) == IF b \in 65..90 THEN b + 32 ELSE b
LowerBytes(lit) == [i \in DOMAIN lit |-> LowerByte(lit[i])]

\* The patterns of the automaton: the literals without their case.
AcPatterns(literals) == {LowerBytes(lit) : lit \in literals \ {<<>>}}

AcNodes(patterns) == UNION {{SubSeq(p, 1, n) : n \in 0..Len(p)} : p \in patterns} \cup {<<>>}

\* The transitions: down the trie where it has an edge, and where it has none
\* those of the failure node, of which the root's lead to itself.
RECURSIVE AcNext(_, _, _), AcFail(_, _)
AcNext(nodes, node, c) ==
    CASE Append(node, c) \in nodes -> Append(node, c)
      [] Append(node, c) \notin nodes /\ node = <<>> -> <<>>
      [] OTHER -> AcNext(nodes, AcFail(nodes, node), c)
AcFail(nodes, node) ==
    IF Len(node) <= 1 THEN <<>>
    ELSE AcNext(nodes, AcFail(nodes, Front(node)), Last(node))

\* A node's own pattern and what its failure node puts out.
RECURSIVE AcOut(_, _, _)
AcOut(patterns, nodes, node) ==
    IF node = <<>> THEN {}
    ELSE ({node} \cap patterns) \cup AcOut(patterns, nodes, AcFail(nodes, node))

\* MatchSet: one walk over the data.
MatchSet(patterns, data) ==
    LET nodes == AcNodes(patterns)
        walk == FoldLeft(LAMBDA at, b :
                    LET node == AcNext(nodes, at.node, LowerByte(b))
                    IN  [node |-> node, hit |-> at.hit \cup AcOut(patterns, nodes, node)],
                    [node |-> <<>>, hit |-> {}], data)
    IN  walk.hit

-----------------------------------------------------------------------------
(* Packs *)

AppendUnique(dst, src) ==
    FoldLeft(LAMBDA acc, s : IF Contains(acc, s) THEN acc ELSE Append(acc, s), dst, src)

\* Compile: rules in the order in which their names first come up, each as
\* the last pack has it; the indicators of all packs.
CompileRules(packs) ==
    LET add(acc, rule) ==
            [order |-> IF rule.id \in DOMAIN acc.byID THEN acc.order ELSE Append(acc.order, rule.id),
             byID |-> [id \in DOMAIN acc.byID \cup {rule.id} |->
                           IF id = rule.id THEN rule ELSE acc.byID[id]]]
        start == [order |-> <<>>, byID |-> [id \in {} |-> {}]]
        all == FoldLeft(LAMBDA acc, pack : FoldLeft(add, acc, pack.rules), start, packs)
    IN  [i \in DOMAIN all.order |-> all.byID[all.order[i]]]

CompileIOCs(packs) == FoldLeft(LAMBDA acc, pack : AppendUnique(acc, pack.iocs), <<>>, packs)

\* Every literal that needs the prefilter: gates and indicators.
CompileLiterals(packs) ==
    UNION {rule.gate : rule \in ToSet(CompileRules(packs))} \cup ToSet(CompileIOCs(packs))

\* IOCHits: the indicators whose pattern was found.
IOCHits(packs, hit) ==
    {ioc \in ToSet(CompileIOCs(packs)) : LowerBytes(ioc) \in hit}

-----------------------------------------------------------------------------
(* One rule *)

\* The filters that need no content.
PathEligible(rule, file) ==
    /\ rule.exts # {} => file.ext \in rule.exts
    /\ rule.minSize > 0 => file.size >= rule.minSize
    /\ rule.maxSize > 0 => file.size <= rule.maxSize
    /\ rule.pathNot \cap file.path = {}
    /\ rule.pathAny # {} => rule.pathAny \cap file.path # {}

GatesFired(rule, hit) == AcPatterns(rule.gate) \subseteq hit

\* smallestWindow: the group that holds the least offset moves on, until the
\* offsets lie within the window or a group has no more of them.
RECURSIVE WindowFrom(_, _, _)
WindowFrom(groups, within, idx) ==
    IF \E g \in DOMAIN groups : idx[g] > Len(groups[g]) THEN [ok |-> FALSE, start |-> 0]
    ELSE LET at == {groups[g][idx[g]] : g \in DOMAIN groups}
             least == Min({g \in DOMAIN groups : groups[g][idx[g]] = Min(at)})
         IN  IF Max(at) - Min(at) <= within THEN [ok |-> TRUE, start |-> Min(at)]
             ELSE WindowFrom(groups, within, [idx EXCEPT ![least] = @ + 1])

SmallestWindow(groups, within) == WindowFrom(groups, within, [g \in DOMAIN groups |-> 1])

\* The matches of a list of expressions, each in one of the views.
MatchesOf(res, view) == [i \in DOMAIN res |-> view[res[i]]]

\* The first match of the first expression that has any.
FirstOf(matches) ==
    LET some == {i \in DOMAIN matches : matches[i] # <<>>}
    IN  IF some = {} THEN -1 ELSE matches[Min(some)][1]

\* MatchContent: no "not" matches, all of the AND-set do, near one another if
\* the rule has a window, and one of the OR-set; raw is the file, code its
\* view without comments and strings.
MatchContent(rule, raw, code) ==
    LET view == IF rule.scope = "code" THEN code ELSE raw
        alls == MatchesOf(rule.all, view) \o MatchesOf(rule.allCode, code)
        anys == MatchesOf(rule.any, view) \o MatchesOf(rule.anyCode, code)
        near == rule.within > 0 /\ Len(alls) > 1
        groups == [i \in DOMAIN alls |->
                      SubSeq(alls[i], 1, Min({Len(alls[i]), RuleMaxProx}))]
        window == SmallestWindow(groups, rule.within)
        ok == /\ \A i \in DOMAIN rule.not : view[rule.not[i]] = <<>>
              /\ \A i \in DOMAIN alls : alls[i] # <<>>
              /\ near => window.ok
              /\ anys # <<>> => FirstOf(anys) >= 0
    IN  [ok |-> ok,
         off |-> CASE ~ok -> -1
                   [] ok /\ near -> window.start
                   [] ok /\ ~near /\ alls # <<>> -> Min({alls[i][1] : i \in DOMAIN alls})
                   [] ok /\ alls = <<>> /\ anys # <<>> -> FirstOf(anys)
                   [] OTHER -> 0]

\* The rules of the packs that match a file, as evalRules goes through them.
RulesMatched(packs, file) ==
    LET hit == MatchSet(AcPatterns(CompileLiterals(packs)), file.content)
    IN  {rule \in ToSet(CompileRules(packs)) :
            /\ PathEligible(rule, file) /\ GatesFired(rule, hit)
            /\ MatchContent(rule, file.raw, file.code).ok}

-----------------------------------------------------------------------------
(* What the functions are for, defined without them *)

Occurs(pattern, data) ==
    \E off \in 0..Len(data) - Len(pattern) :
        \A k \in DOMAIN pattern : LowerByte(data[off + k]) = pattern[k]

\* One pass finds the literals that a search for each would.
MatchSetRight(literals, data) ==
    MatchSet(AcPatterns(literals), data) = {p \in AcPatterns(literals) : Occurs(p, data)}

\* A window is found exactly if one offset of each group lies in one, and its
\* start is the earliest there is.
WindowRight(groups, within) ==
    LET fits == {at \in [DOMAIN groups -> UNION {ToSet(groups[g]) : g \in DOMAIN groups}] :
                    /\ \A g \in DOMAIN groups : at[g] \in ToSet(groups[g])
                    /\ \A g, h \in DOMAIN groups : at[g] - at[h] <= within}
        w == SmallestWindow(groups, within)
    IN  /\ w.ok <=> fits # {}
        /\ w.ok => w.start = Min({at[g] : at \in fits, g \in DOMAIN groups})

\* A later pack replaces a rule of its name and adds to what is looked for;
\* it takes nothing from the rules it does not name.
PacksMerged(packs) ==
    LET given == FlattenSeq([i \in DOMAIN packs |-> packs[i].rules])
        rules == CompileRules(packs)
        literals == CompileLiterals(packs)
    IN  /\ \A i, j \in DOMAIN rules : i # j => rules[i].id # rules[j].id
        /\ ToSet(rules) = {given[i] : i \in {k \in DOMAIN given :
                              \A l \in k + 1..Len(given) : given[l].id # given[k].id}}
        /\ \A i \in DOMAIN packs : \A k \in DOMAIN packs[i].iocs :
              packs[i].iocs[k] \in literals

\* A rule of the set matches a file if it would alone: what other rules and
\* packs look for in the same pass makes no difference.
RuleAlone(packs, file) ==
    \A rule \in ToSet(CompileRules(packs)) :
        rule \in RulesMatched(packs, file)
            <=> rule \in RulesMatched(<<[rules |-> <<rule>>, iocs |-> <<>>]>>, file)
=============================================================================
