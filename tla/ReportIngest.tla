---------------------------- MODULE ReportIngest ----------------------------
(***************************************************************************)
(* How a scan's report is indexed (handleReport and handleEvents in        *)
(* internal/console/ingest.go, InsertReport and UpsertFinding in           *)
(* internal/store/store.go).  A request the rate limiter refuses does not   *)
(* get here.                                                               *)
(*                                                                         *)
(* One agent.  Requests are served by handlers that run at the same time;  *)
(* each statement of a handler is a step.  A finding is a key, or Blank    *)
(* for one without a rule.  UpsertFinding is an UPDATE and, when that      *)
(* touches no row, an INSERT that a unique index may refuse.               *)
(***************************************************************************)
EXTENDS Naturals, Sequences, FiniteSets

CONSTANTS
    IngKeys,         \* dedupe keys of findings
    IngBlank,        \* a finding without a rule id
    IngBodies,       \* bodies: sequences of findings
    IngHandlers,     \* handlers that may run at the same time
    IngCap,          \* maxFindingsPerReport
    IngBatch,        \* maxBatch of events
    IngMaxFaults     \* bound on statements that fail

ASSUME IngConstantsAssumption ==
    /\ IngBlank \notin IngKeys
    /\ IngBodies \subseteq Seq(IngKeys \cup {IngBlank})
    /\ {IngCap, IngBatch, IngMaxFaults} \subseteq Nat

VARIABLES
    ingRows,    \* keys in the table findings
    ingReq,     \* handler -> the request it serves
    ingSiem,    \* keys handed to the forwarder
    ingFaults

ingVars == <<ingRows, ingReq, ingSiem, ingFaults>>

IngIdle == [pc |-> "idle"]

IngInit ==
    /\ ingRows = {}
    /\ ingReq = [h \in IngHandlers |-> IngIdle]
    /\ ingSiem = {}
    /\ ingFaults = 0

-----------------------------------------------------------------------------
(* The handlers *)

\* A request begins with what is kept of the findings sent.
IngBegins(h, kind, sent, body, pc) ==
    /\ ingReq[h].pc = "idle"
    /\ ingReq' = [ingReq EXCEPT ![h] =
          [pc |-> pc, kind |-> kind, sent |-> sent, body |-> body, i |-> 1,
           accepted |-> 0, failed |-> 0, dropped |-> 0]]
    /\ UNCHANGED <<ingRows, ingSiem, ingFaults>>

\* How many of n events are looked at.
IngWithin(n) == IF n > IngBatch THEN IngBatch ELSE n

\* A report first stores its envelope; events are cut to maxBatch.
HandleReport(h, body) == IngBegins(h, "report", Len(body), body, "envelope")
HandleEvents(h, body) ==
    IngBegins(h, "events", Len(body), SubSeq(body, 1, IngWithin(Len(body))), "next")

IngGoes(h, pc) == ingReq' = [ingReq EXCEPT ![h].pc = pc]

IngFault ==
    /\ ingFaults < IngMaxFaults
    /\ ingFaults' = ingFaults + 1

\* InsertReport, then the summary to the SIEM; on an error nothing is indexed.
InsertReport(h) ==
    /\ ingReq[h].pc = "envelope"
    /\ \/ IngGoes(h, "next") /\ UNCHANGED ingFaults
       \/ ingReq' = [ingReq EXCEPT ![h] = IngIdle] /\ IngFault
    /\ UNCHANGED <<ingRows, ingSiem>>

\* The head of the loop: the cap, then findings without a rule are skipped.
\* The cap of a report counts what was accepted; dropped is what was not.
IngNextFinding(h) ==
    LET r == ingReq[h]
    IN  /\ r.pc = "next"
        /\ ingReq' = [ingReq EXCEPT ![h] =
              IF r.i > Len(r.body) THEN [r EXCEPT !.pc = "answer"]
              ELSE IF r.kind = "report" /\ r.accepted >= IngCap
                THEN [r EXCEPT !.pc = "answer", !.dropped = Len(r.body) - r.accepted]
              ELSE IF r.body[r.i] = IngBlank THEN [r EXCEPT !.i = @ + 1]
              ELSE [r EXCEPT !.pc = "update"]]
        /\ UNCHANGED <<ingRows, ingSiem, ingFaults>>

\* One finding is done with.
IngCounted(h, how) ==
    ingReq' = [ingReq EXCEPT ![h].pc = "next", ![h].i = @ + 1, ![h][how] = @ + 1]

\* UpsertFinding: the UPDATE.
UpsertUpdate(h) ==
    /\ ingReq[h].pc = "update"
    /\ \/ /\ IngGoes(h, IF ingReq[h].body[ingReq[h].i] \in ingRows THEN "forward" ELSE "insert")
          /\ UNCHANGED ingFaults
       \/ IngFault /\ IngCounted(h, "failed")
    /\ UNCHANGED <<ingRows, ingSiem>>

\* A mutant of UpsertInsert: its error is not looked at.
UpsertInsertBlind(h) ==
    LET key == ingReq[h].body[ingReq[h].i]
    IN  /\ ingReq[h].pc = "insert"
        /\ IngGoes(h, "forward")
        /\ \/ ingRows' = ingRows \cup {key} /\ UNCHANGED ingFaults
           \/ IngFault /\ UNCHANGED ingRows
        /\ UNCHANGED ingSiem

\* UpsertFinding: the INSERT, which the unique index refuses when another
\* handler was faster.
UpsertInsert(h) ==
    LET key == ingReq[h].body[ingReq[h].i]
    IN  /\ ingReq[h].pc = "insert"
        /\ \/ /\ key \notin ingRows
              /\ ingRows' = ingRows \cup {key}
              /\ IngGoes(h, "forward")
              /\ UNCHANGED ingFaults
           \/ /\ key \in ingRows
              /\ IngCounted(h, "failed")
              /\ UNCHANGED <<ingRows, ingFaults>>
           \/ IngFault /\ IngCounted(h, "failed") /\ UNCHANGED ingRows
        /\ UNCHANGED ingSiem

\* What was stored goes to the SIEM and is counted as accepted.
ForwardFinding(h) ==
    /\ ingReq[h].pc = "forward"
    /\ ingSiem' = ingSiem \cup {ingReq[h].body[ingReq[h].i]}
    /\ IngCounted(h, "accepted")
    /\ UNCHANGED <<ingRows, ingFaults>>

\* The counts are written to the agent.
IngAnswer(h) ==
    /\ ingReq[h].pc = "answer"
    /\ ingReq' = [ingReq EXCEPT ![h] = IngIdle]
    /\ UNCHANGED <<ingRows, ingSiem, ingFaults>>

IngNext ==
    \E h \in IngHandlers :
        \/ \E body \in IngBodies : HandleReport(h, body) \/ HandleEvents(h, body)
        \/ InsertReport(h) \/ IngNextFinding(h) \/ UpsertUpdate(h) \/ UpsertInsert(h)
        \/ ForwardFinding(h) \/ IngAnswer(h)

IngSpec == IngInit /\ [][IngNext]_ingVars

-----------------------------------------------------------------------------
(* Properties *)

IngTypeOK ==
    /\ ingRows \subseteq IngKeys /\ ingSiem \subseteq IngKeys
    /\ \A h \in IngHandlers : ingReq[h].pc \in {"idle", "envelope", "next", "update", "insert",
                                            "forward", "answer"}

\* The findings sent that a finished request never got to.
IngUnseen(r) == r.sent - (r.i - 1)
IngBlanks(r) == Cardinality({k \in 1..(r.i - 1) : r.body[k] = IngBlank})

\* "Never silent": the answer to a report accounts for every finding sent -
\* those seen were accepted, failed or blank, and whatever the cap cut is
\* reported as dropped.  (dropped may also count findings that failed or were
\* blank.)  The answer to events accounts for the first maxBatch of them, and
\* says nothing of the rest.
IngAnswerAdds ==
    \A h \in IngHandlers :
        LET r == ingReq[h]
        IN  r.pc = "answer" =>
               /\ r.accepted + r.failed + IngBlanks(r) = r.i - 1
               /\ r.kind = "report" => /\ r.dropped >= IngUnseen(r)
                                       /\ r.dropped > 0 => IngUnseen(r) > 0
               /\ r.kind = "events" => r.i - 1 = IngWithin(r.sent)

\* "Counting it as accepted told the agent its webshell had landed while the
\* row was never written and the SIEM never saw it": as many findings of a
\* body are in the table and were forwarded as its answer calls accepted, and
\* one counted as failed for want of nothing but the race is stored as well.
IngAcceptedIsStored ==
    \A h \in IngHandlers :
        LET r == ingReq[h]
        IN  r.pc = "answer" =>
               /\ r.accepted <= Cardinality({k \in 1..(r.i - 1) : r.body[k] \in ingRows \cap ingSiem})
               /\ ingFaults = 0 => \A k \in 1..(r.i - 1) :
                                      r.body[k] # IngBlank => r.body[k] \in ingRows

\* An answer tells the truth about the findings it counts, and counts all that
\* a report holds.
IngSafe == IngAnswerAdds /\ IngAcceptedIsStored
=============================================================================
