------------------------------- MODULE MCSafety -------------------------------
(***************************************************************************)
(* Small instances of the components whose promises say what never         *)
(* happens, in one run: "subject" is chosen initially, and from then on    *)
(* that component alone takes steps.  They share no state, so each has the *)
(* states of its own specification, no more and no less.  A question put   *)
(* to a function is an initial state that takes no step.                   *)
(***************************************************************************)
EXTENDS SafetyTypes, MCFunctions

VARIABLES
    subject,   \* the component that runs
    asked      \* the question put to a function

sumVars == <<subject, asked, accVars, enrVars, conVars, ingVars, limVars, govVars, upgVars,
             provVars, baseVars>>

\* Two processes on one host.
MCEnrHost == "r1" :> "h1" @@ "r2" :> "h1"

\* Two agents on one machine, one on another, and one of a second estate.
MCConMachine == "a1" :> "m1" @@ "a2" :> "m1" @@ "a3" :> "m2" @@ "b1" :> "m3"
MCConEstate == "a1" :> 1 @@ "a2" :> 1 @@ "a3" :> 1 @@ "b1" :> 2
MCConTree == "p" :> "divi" @@ "u" :> ""

MCIngBodies == {<<"k1", "b", "k2">>, <<"k2", "k1">>, <<"b", "b", "k1", "k2">>}

\* Newer, newer and unsigned, older, without a version, newer and broken.
MCRelease(v, s, r) == [version |-> v, signed |-> s, runs |-> r]
MCUpgReleases ==
    {MCRelease(<<1, 3>>, TRUE, TRUE), MCRelease(<<1, 3>>, FALSE, TRUE),
     MCRelease(<<1, 1, 9>>, TRUE, TRUE), MCRelease(<<-1>>, TRUE, TRUE),
     MCRelease(<<2>>, TRUE, FALSE)}
MCUpgInstalled == MCRelease(<<1, 2>>, TRUE, TRUE)
MCUpgOutgoing == MCRelease(<<1, 1>>, TRUE, TRUE)

\* The core's tree with a file of the release and one that is in none, a
\* plugin that the core brings along, there in the core's older release, and a
\* bought one.
MCProvTree == <<"a/x", "b/y", "inc", "new">>
MCProvIn == "a/x" :> "a" @@ "b/y" :> "b" @@ "inc" :> "core" @@ "new" :> "core"
MCProvListed == "core" :> {"inc", "a/x"} @@ "a" :> {"a/x"} @@ "b" :> {}
MCProvAttested == {<<"b/y", "patch">>}

MCBaseTree == <<"x", "y">>

\* Whoever works side by side in a component (handlers, requests, goroutines,
\* workers) is p1 or p2; no definition tells the two apart.
MCSymmetry == Permutations(AccHandlers)

-----------------------------------------------------------------------------
Subjects == {"accounts", "enrollment", "consensus", "ingest", "limiter", "governor", "upgrade",
             "provenance", "baseline"}

Nothing == <<>>

Init ==
    /\ \/ subject \in Subjects /\ asked = Nothing
       \/ subject \in DOMAIN Questions /\ asked \in Questions[subject]
    /\ IF subject = "provenance"
          THEN \E b \in {ProvCore, "patch"} :
                  provBytes = "a/x" :> ProvCore @@ "inc" :> b @@ "b/y" :> "patch" @@ "new" :> "patch"
          ELSE provBytes = [p \in ProvPaths |-> "patch"] /\ provCache = [a \in ProvArtefacts |-> "none"]
    /\ IF subject = "baseline" THEN TRUE ELSE baseSite = [f \in BaseFiles |-> "v1"]
    /\ AccInit /\ EnrInit /\ ConInit /\ IngInit /\ LimInit /\ GovInit /\ UpgInit
    /\ ProvInit /\ BaseInit
    /\ (subject # "governor" => ~govThrottled)

Next ==
    /\ UNCHANGED <<subject, asked>>
    /\ \/ /\ subject = "accounts" /\ AccNext
          /\ UNCHANGED <<enrVars, conVars, ingVars, limVars, govVars, upgVars, provVars, baseVars>>
       \/ /\ subject = "enrollment" /\ EnrNext
          /\ UNCHANGED <<accVars, conVars, ingVars, limVars, govVars, upgVars, provVars, baseVars>>
       \/ /\ subject = "consensus" /\ ConNext
          /\ UNCHANGED <<accVars, enrVars, ingVars, limVars, govVars, upgVars, provVars, baseVars>>
       \/ /\ subject = "ingest" /\ IngNext
          /\ UNCHANGED <<accVars, enrVars, conVars, limVars, govVars, upgVars, provVars, baseVars>>
       \/ /\ subject = "limiter" /\ LimNext
          /\ UNCHANGED <<accVars, enrVars, conVars, ingVars, govVars, upgVars, provVars, baseVars>>
       \/ /\ subject = "governor" /\ GovNext
          /\ UNCHANGED <<accVars, enrVars, conVars, ingVars, limVars, upgVars, provVars, baseVars>>
       \/ /\ subject = "upgrade" /\ UpgNext
          /\ UNCHANGED <<accVars, enrVars, conVars, ingVars, limVars, govVars, provVars, baseVars>>
       \/ /\ subject = "provenance" /\ ProvNext
          /\ UNCHANGED <<accVars, enrVars, conVars, ingVars, limVars, govVars, upgVars, baseVars>>
       \/ /\ subject = "baseline" /\ BaseNext
          /\ UNCHANGED <<accVars, enrVars, conVars, ingVars, limVars, govVars, upgVars, provVars>>

Spec == Init /\ [][Next]_sumVars

-----------------------------------------------------------------------------
(* Properties *)

\* Each pure function of the code (the calendar of schedules, the YARA subset,
\* the rule packs, the view of PHP, the checks of many files) gives what its
\* reference definition gives.
FunctionsAgree == subject \in DOMAIN Questions => AnswerRight(subject, asked)

\* "Clusters are collapsed into one finding that still names every path,
\* suppressing nothing" (fsscan.go): every backdated file is named once.
NothingIsSuppressed == subject = "stomps" => NothingSuppressed(MCStomped(asked))
=============================================================================
