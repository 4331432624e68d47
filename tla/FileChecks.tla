-------------------------------- MODULE FileChecks --------------------------------
(***************************************************************************)
(* What a scan concludes from the files of a webroot taken together, or    *)
(* from one file's name, times and mode (internal/agent/fsscan.go,         *)
(* worldwritable.go): backdated times, files newer than their neighbours,  *)
(* code written after a container started, world-writable code, media with *)
(* PHP in it, and the probe that decides whether media is read at all.     *)
(*                                                                         *)
(* Pure functions.  Time counts in units; a path is the sequence of the    *)
(* directories above a file and a name.                                    *)
(***************************************************************************)
EXTENDS Integers, Sequences, FiniteSets, SequencesExt, FiniteSetsExt

CONSTANTS
    FileDiverge,      \* mtime this much older than ctime is backdated (a week)
    FileWindow,       \* timestompClusterWindow (15 minutes)
    FileClusterMin,   \* timestompClusterMin (5)
    FileSiblings,     \* minSiblings of detectMtimeOutliers (6)
    FileGap,          \* its gap (30 days)
    FileBoot,         \* what the start of a container may take (90 seconds)
    FileBulk,         \* late writes reported one by one (50)
    FileWwMax,        \* wwIndividualMax (10)
    FileWwSample,     \* wwSampleMax (25)
    FileHead,         \* what is probed of the head (1 KB) and
    FileTail          \* of the tail (8 KB)

ASSUME FileAssumption ==
    /\ {FileDiverge, FileWindow, FileClusterMin, FileSiblings, FileGap, FileBoot, FileBulk,
        FileHead, FileTail} \subseteq Nat
    /\ FileWwMax \in Nat /\ FileWwSample \in FileWwMax..FileWwMax + 100

Finding(rule, path, names) == [rule |-> rule, path |-> path, names |-> names]

\* emit: of two findings of one rule and path the second is left out.
EmitAll(findings) ==
    FoldLeft(LAMBDA acc, f :
                 IF \E i \in DOMAIN acc : acc[i].rule = f.rule /\ acc[i].path = f.path
                 THEN acc ELSE Append(acc, f),
             <<>>, findings)

-----------------------------------------------------------------------------
(* Backdated files *)

\* Files whose inode changed long after the time they claim, which are not
\* published and not state that the site rewrites.
Backdated(metas) ==
    {m \in metas : m.ctime - m.mtime >= FileDiverge /\ ~m.verified /\ ~m.state}

\* The candidates in the order of their ctime, a group from each that is too
\* late for the group before it.
Operations(cands) ==
    LET from[rest \in SUBSET cands] ==
            IF rest = {} THEN <<>>
            ELSE LET first == Min({c.ctime : c \in rest})
                     group == {c \in rest : c.ctime - first <= FileWindow}
                 IN  <<group>> \o from[rest \ group]
    IN  from[cands]

\* path.Dir of a file in the root is ".", which is a directory of its own.
DirOf(c) == IF c.dir = <<>> THEN <<".">> ELSE c.dir

\* The directories that all of the paths have in common.
CommonDir(dirs) ==
    LET common(n) == \A d, e \in dirs : Len(d) >= n /\ SubSeq(d, 1, n) = SubSeq(e, 1, n)
        some == CHOOSE d \in dirs : TRUE
    IN  SubSeq(some, 1, Max({n \in 0..Len(some) : common(n)}))

MultipleTrees == <<"(multiple trees)">>

GroupFindings(group) ==
    LET root == CommonDir({DirOf(c) : c \in group})
    IN  IF Cardinality(group) < FileClusterMin
        THEN [i \in 1..Cardinality(group) |->
                 LET c == SetToSeq(group)[i] IN Finding("timestomp", Append(c.dir, c.name), {c})]
        ELSE <<Finding("timestomp_bulk", IF root = <<>> THEN MultipleTrees ELSE root, group)>>

DetectTimestomps(metas) ==
    LET groups == Operations(Backdated(metas))
    IN  EmitAll(FlattenSeq([i \in DOMAIN groups |-> GroupFindings(groups[i])]))

-----------------------------------------------------------------------------
(* Files newer than their neighbours, and than their container *)

\* The element in the middle of the sorted times, times[len(times)/2].
MedianTime(files) ==
    LET half == Cardinality(files) \div 2
    IN  CHOOSE t \in {f.mtime : f \in files} :
            /\ Cardinality({f \in files : f.mtime < t}) <= half
            /\ Cardinality({f \in files : f.mtime <= t}) > half

\* The PHP files of one directory of a vendor's tree.  A file that is gone by
\* now is not named.
DetectMtimeOutliers(files) ==
    LET median == MedianTime(files)
        outliers == {f \in files : f.mtime - median > FileGap}
    IN  IF \/ Cardinality(files) < FileSiblings
           \/ Cardinality(outliers) > Cardinality(files) \div 3
        THEN {} ELSE {f \in outliers : f.exists}

\* Code whose inode changed after the container had started.  A file that is
\* gone by now is not named.
DetectRuntimeWrites(metas, started) ==
    LET late == {m \in metas : ~m.writable /\ m.ctime > started + FileBoot}
    IN  CASE late = {} -> {}
          [] late # {} /\ Cardinality(late) > FileBulk ->
                {Finding("bulk_runtime_write", <<>>, late)}
          [] OTHER -> {Finding("written_after_deploy", Append(m.dir, m.name), {m}) :
                          m \in {x \in late : x.exists}}

-----------------------------------------------------------------------------
(* World-writable code *)

\* add, for the files in the order in which the workers come to them.
WwAdd(acc, m) ==
    [n |-> acc.n + 1,
     paths |-> IF Len(acc.paths) < FileWwSample THEN Append(acc.paths, m) ELSE acc.paths,
     trees |-> acc.trees \cup {m.dir}]

EmitWorldWritable(metas) ==
    LET acc == FoldLeft(WwAdd, [n |-> 0, paths |-> <<>>, trees |-> {}],
                        SelectSeq(metas, LAMBDA m : m.mode = "world"))
    IN  CASE acc.n = 0 -> [named |-> {}, count |-> 0]
          [] acc.n > 0 /\ acc.n <= FileWwMax -> [named |-> ToSet(acc.paths), count |-> 0]
          [] OTHER -> [named |-> {}, count |-> acc.n]

-----------------------------------------------------------------------------
(* Media with PHP in it *)

\* findPHPTag: a full tag wherever it is, else a short one.
FindPHPTag(c) == IF c.full THEN "full" ELSE IF c.short THEN "short" ELSE "none"

PayloadIsReal(c) == IF c.full THEN c.fullReal ELSE c.shortReal

PolyFinding(rule, severity, confidence, actionable) ==
    [rule |-> rule, severity |-> severity, confidence |-> confidence, actionable |-> actionable]

\* checkPolyglot, for a file whose extension is never PHP.
CheckPolyglot(c) ==
    LET kind == FindPHPTag(c)
    IN  CASE kind = "none" \/ (kind = "short" /\ ~PayloadIsReal(c)) -> {}
          [] kind # "none" /\ (kind = "full" \/ PayloadIsReal(c)) ->
                {CASE c.starts /\ ~c.magic ->
                        PolyFinding("fake_extension_shell", "critical", "confirmed", c.marker)
                   [] c.magic /\ kind = "full" /\ c.marker ->
                        PolyFinding("polyglot_file", "critical", "confirmed", TRUE)
                   [] c.magic /\ kind = "full" /\ ~c.marker ->
                        PolyFinding("polyglot_file", "high", "likely", FALSE)
                   [] c.magic /\ kind = "short" ->
                        PolyFinding("polyglot_file", "medium", "review", FALSE)
                   [] OTHER -> PolyFinding("asset_contains_php", "high", "likely", FALSE)}

\* The middle of a name is a PHP extension, its end is not, and there is PHP
\* in the file's first bytes.
DoubleExtension(parts, phpExt, startsPHP) ==
    /\ Len(parts) > 2 /\ Last(parts) \notin phpExt /\ startsPHP
    /\ \E i \in 2..Len(parts) - 1 : parts[i] \in phpExt

-----------------------------------------------------------------------------
(* The probe of media *)

\* probeHeadAndTail: a small file whole, of another the first and the last
\* bytes, by the size it had when the walk came by.
ProbeHeadAndTail(content, size) ==
    LET upto(a, b) == SubSeq(content, a + 1, IF b < Len(content) THEN b ELSE Len(content))
    IN  IF size <= FileHead + FileTail THEN upto(0, size)
        ELSE upto(0, FileHead) \o upto(size - FileTail, size)

PHPTag == <<"<", "?">>
HasTag(bytes) == \E i \in 1..Len(bytes) - 1 : SubSeq(bytes, i, i + 1) = PHPTag

\* analyzeFile: media is read only if the probe finds an open tag.
MediaIsRead(content, size) == HasTag(ProbeHeadAndTail(content, size))

-----------------------------------------------------------------------------
(* What the functions are for, defined without them *)

\* "Suppressing nothing, while refusing to call a deployment an intrusion":
\* every backdated file is named by what is reported, once.
NothingSuppressed(metas) ==
    LET reported == DetectTimestomps(metas)
    IN  \A c \in Backdated(metas) :
            Cardinality({i \in DOMAIN reported : c \in reported[i].names}) = 1

\* No two bulk operations are under one directory: the second would be taken
\* for a repetition of the first.
OneBulkPerTree(metas) ==
    LET groups == Operations(Backdated(metas))
        roots == [i \in DOMAIN groups |-> GroupFindings(groups[i])[1]]
    IN  \A i, j \in DOMAIN groups :
            i # j => \/ roots[i].rule # "timestomp_bulk" \/ roots[j].rule # "timestomp_bulk"
                     \/ roots[i].path # roots[j].path

\* A file is called part of an operation only if enough others changed within
\* the window of one another, and a file that stands alone in time is not.
AloneStandsOut(metas) ==
    LET cands == Backdated(metas)
        reported == DetectTimestomps(metas)
        near(c) == {d \in cands : d.ctime - c.ctime \in -FileWindow..FileWindow}
    IN  \A c \in cands, i \in DOMAIN reported :
            (c \in reported[i].names /\ reported[i].rule = "timestomp_bulk") =>
                /\ Cardinality(near(c)) >= FileClusterMin
                /\ \A d, e \in reported[i].names : d.ctime - e.ctime <= FileWindow

TimestompsRight(metas) ==
    AloneStandsOut(metas) /\ (OneBulkPerTree(metas) => NothingSuppressed(metas))

\* Who is called an outlier is newer, by more than the gap, than half of the
\* directory, and so is every file as new that is still there; they are a third
\* at most.
OutliersRight(files) ==
    LET out == DetectMtimeOutliers(files)
        older(f) == {g \in files : f.mtime - g.mtime > FileGap}
        standsApart == {f \in files : 2 * Cardinality(older(f)) > Cardinality(files)}
    IN  /\ out \subseteq standsApart /\ 3 * Cardinality(out) <= Cardinality(files)
        /\ (Cardinality(files) >= FileSiblings /\ 3 * Cardinality(standsApart) <= Cardinality(files))
              => out = {f \in standsApart : f.exists}

\* Every late write is named, or counted with the others.
RuntimeWritesRight(metas, started) ==
    \A m \in metas :
        (~m.writable /\ m.exists /\ m.ctime > started + FileBoot)
            <=> \E f \in DetectRuntimeWrites(metas, started) : m \in f.names /\ m.exists

\* World-writable files are named each, or counted all.
WorldWritableRight(metas) ==
    LET world == {m \in ToSet(metas) : m.mode = "world"}
        r == EmitWorldWritable(metas)
    IN  r.named = world \/ r.count = Cardinality(world)

\* A finding that lets containment act has malware vocabulary behind it, and
\* a tag that may be chance leads no queue; a full tag is always reported.
PolyglotRight(c) ==
    /\ \A f \in CheckPolyglot(c) :
          /\ f.actionable => c.marker /\ f.confidence = "confirmed"
          /\ (f.rule = "polyglot_file" /\ ~c.full) => f.severity = "medium" /\ c.shortReal
    /\ c.full => CheckPolyglot(c) # {}
    /\ (~c.full /\ ~c.shortReal) => CheckPolyglot(c) = {}

\* "Appending is how polyglots are built": a tag that lies in what is appended
\* to a file has it read, whatever is before, unless the file grew since.
AppendedIsRead(content, size) ==
    (size = Len(content) /\ HasTag(SubSeq(content, Max({0, size - FileTail}) + 1, size)))
        => MediaIsRead(content, size)
=============================================================================
