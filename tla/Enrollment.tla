----------------------------- MODULE Enrollment -----------------------------
(***************************************************************************)
(* How a host joins the fleet: a token is minted by hand or stamped into   *)
(* an installer (internal/console/installer.go, api.go), a run of the      *)
(* agent exchanges it for a credential (internal/agent/client.go Enroll,   *)
(* cmd/wordeye-agent/installer.go) and the console consumes one use and    *)
(* creates the agent in two statements (internal/console/ingest.go,        *)
(* internal/store/store.go).                                               *)
(*                                                                         *)
(* A run is one process on a host; two runs may be on the same host.  The  *)
(* consequence of a token, an estate, a grant to contain, is kept; labels  *)
(* and secrets are not.                                                    *)
(***************************************************************************)
EXTENDS Naturals, FiniteSets

CONSTANTS
    EnrTokens,      \* identifiers of tokens
    EnrEstates,     \* identifiers of estates; 0 is no estate
    EnrRuns,        \* processes that enroll
    EnrHost,        \* the host each run is on
    EnrSlots,       \* identifiers of requests: bounds those served at one time
    EnrUses,        \* uses a token may be created with
    EnrMaxAgents,   \* bound on the agents created
    EnrMaxFaults    \* bound on lost answers, failed statements and failed saves

ASSUME EnrConstantsAssumption ==
    0 \notin EnrEstates /\ EnrUses \subseteq Nat \ {0} /\ IsFiniteSet(EnrRuns)
    /\ EnrMaxAgents \in Nat /\ EnrMaxFaults \in Nat

VARIABLES
    enrToken,    \* token -> its row, or EnrUnminted
    enrMint,     \* token -> stage of the request creating it
    enrAgents,   \* rows of the table agents
    enrReq,      \* requests being served: slot, run, whether it still waits, stage
    enrRun,      \* run -> idle, asking or running
    enrState,    \* host -> agent id in its credential file, 0 for no file
    enrFaults    \* faults so far

enrVars == <<enrToken, enrMint, enrAgents, enrReq, enrRun, enrState, enrFaults>>

EnrHosts == {EnrHost[r] : r \in EnrRuns}
EnrUnminted == [minted |-> FALSE]

EnrInit ==
    /\ enrToken = [t \in EnrTokens |-> EnrUnminted]
    /\ enrMint = [t \in EnrTokens |-> [pc |-> "none"]]
    /\ enrAgents = {}
    /\ enrReq = {}
    /\ enrRun = [r \in EnrRuns |-> "idle"]
    /\ enrState = [h \in EnrHosts |-> 0]
    /\ enrFaults = 0

EnrFault ==
    /\ enrFaults < EnrMaxFaults
    /\ enrFaults' = enrFaults + 1

-----------------------------------------------------------------------------
(* The console mints tokens *)

CreateEnrollToken(t, uses, contain) ==
    /\ enrToken[t] = EnrUnminted
    /\ enrToken' = [enrToken EXCEPT ![t] =
          [minted |-> TRUE, allowed |-> uses, consumed |-> 0, contain |-> contain,
           estate |-> 0, revoked |-> FALSE, expired |-> FALSE]]

\* handleGenerateInstaller, after its checks: the grant is always refused.
GenerateInstaller(t, uses, estate) ==
    /\ CreateEnrollToken(t, uses, FALSE)
    /\ enrMint' = [enrMint EXCEPT ![t] = [pc |-> "scope", by |-> "installer", estate |-> estate]]
    /\ UNCHANGED <<enrAgents, enrReq, enrRun, enrState, enrFaults>>

\* handleCreateToken: scoped only when a customer was named.
CreateToken(t, uses, contain, estate) ==
    /\ CreateEnrollToken(t, uses, contain)
    /\ enrMint' = [enrMint EXCEPT ![t] =
          [pc |-> IF estate = 0 THEN "given" ELSE "scope", by |-> "hand", estate |-> estate]]
    /\ UNCHANGED <<enrAgents, enrReq, enrRun, enrState, enrFaults>>

\* SetTokenEstate; an installer still has to be stamped.
SetTokenEstate(t) ==
    /\ enrMint[t].pc = "scope"
    /\ enrToken' = [enrToken EXCEPT ![t].estate = enrMint[t].estate]
    /\ enrMint' = [enrMint EXCEPT ![t].pc =
          IF enrMint[t].by = "installer" THEN "stamp" ELSE "given"]
    /\ UNCHANGED <<enrAgents, enrReq, enrRun, enrState, enrFaults>>

\* Stamp and the download: the token leaves the console.
StampInstaller(t) ==
    /\ enrMint[t].pc = "stamp"
    /\ enrMint' = [enrMint EXCEPT ![t].pc = "given"]
    /\ UNCHANGED <<enrToken, enrAgents, enrReq, enrRun, enrState, enrFaults>>

\* No estate of that number, no public URL, a binary that cannot be stamped.
MintFails(t) ==
    /\ enrMint[t].pc \in {"scope", "stamp"}
    /\ EnrFault
    /\ enrMint' = [enrMint EXCEPT ![t].pc = "failed"]
    /\ UNCHANGED <<enrToken, enrAgents, enrReq, enrRun, enrState>>

\* RevokeEnrollToken, or the time to live runs out.
RevokeEnrollToken(t) ==
    /\ enrToken[t].minted
    /\ \E how \in {"revoked", "expired"} : enrToken' = [enrToken EXCEPT ![t][how] = TRUE]
    /\ UNCHANGED <<enrMint, enrAgents, enrReq, enrRun, enrState, enrFaults>>

-----------------------------------------------------------------------------
(* A run on a host *)

\* LoadState finds a credential: the run connects with it.
ReuseCredential(r) ==
    /\ enrRun[r] = "idle"
    /\ enrState[EnrHost[r]] # 0
    /\ enrRun' = [enrRun EXCEPT ![r] = "running"]
    /\ UNCHANGED <<enrToken, enrMint, enrAgents, enrReq, enrState, enrFaults>>

\* Enroll: no credential, so the token is presented; the host decides optIn.
Enroll(r, t, optIn) ==
    /\ enrRun[r] = "idle"
    /\ enrState[EnrHost[r]] = 0
    /\ enrMint[t].pc = "given"
    /\ enrMint[t].by = "installer" => ~optIn
    /\ enrRun' = [enrRun EXCEPT ![r] = "asking"]
    /\ \E slot \in EnrSlots \ {q.slot : q \in enrReq} :
          enrReq' = enrReq \cup
             {[slot |-> slot, run |-> r, waits |-> TRUE, pc |-> "consume", token |-> t,
               optIn |-> optIn, contain |-> FALSE, estate |-> 0, agent |-> 0]}
    /\ UNCHANGED <<enrToken, enrMint, enrAgents, enrState, enrFaults>>

\* A mutant of TokenRefused: one use too many.
TokenRefusedLate(t) ==
    \/ enrToken[t].revoked
    \/ enrToken[t].expired
    \/ enrToken[t].consumed > enrToken[t].allowed

\* The transaction of ConsumeEnrollToken refuses.
TokenRefused(t) ==
    \/ enrToken[t].revoked
    \/ enrToken[t].expired
    \/ enrToken[t].consumed >= enrToken[t].allowed

\* One request goes to its next stage, or ends.
EnrGoes(q, pc) == enrReq' = (enrReq \ {q}) \cup {[q EXCEPT !.pc = pc]}
EnrEnds(q) == enrReq' = enrReq \ {q}

ConsumeEnrollToken(q) ==
    /\ q.pc = "consume"
    /\ IF TokenRefused(q.token)
          THEN /\ EnrGoes(q, "refuse")
               /\ UNCHANGED enrToken
          ELSE /\ enrToken' = [enrToken EXCEPT ![q.token].consumed = @ + 1]
               /\ enrReq' = (enrReq \ {q}) \cup
                     {[q EXCEPT !.pc = "create", !.contain = enrToken[q.token].contain,
                                !.estate = enrToken[q.token].estate]}
    /\ UNCHANGED <<enrMint, enrAgents, enrRun, enrState, enrFaults>>

\* EnrollAgent inserts the row with what the token said when it was consumed.
EnrollAgent(q) ==
    /\ q.pc = "create"
    /\ Cardinality(enrAgents) < EnrMaxAgents
    /\ LET id == Cardinality(enrAgents) + 1
       IN  /\ enrAgents' = enrAgents \cup
                 {[id |-> id, host |-> EnrHost[q.run], via |-> q.token,
                   allow |-> q.contain, optIn |-> q.optIn, estate |-> q.estate]}
           /\ enrReq' = (enrReq \ {q}) \cup {[q EXCEPT !.pc = "answer", !.agent = id]}
    /\ UNCHANGED <<enrToken, enrMint, enrRun, enrState, enrFaults>>

\* The INSERT fails, or the console stops: the use is spent all the same.
EnrollAgentFails(q) ==
    /\ q.pc = "create"
    /\ EnrFault
    /\ EnrGoes(q, "refuse")
    /\ UNCHANGED <<enrToken, enrMint, enrAgents, enrRun, enrState>>

\* The answer reaches the run that waits for it: SaveState, or an exit.  One
\* that nobody waits for any more is dropped.
EnrAnswer(q) ==
    /\ q.pc \in {"refuse", "answer"}
    /\ EnrEnds(q)
    /\ \/ /\ q.waits /\ q.pc = "answer"
          /\ enrState' = [enrState EXCEPT ![EnrHost[q.run]] = q.agent]
          /\ enrRun' = [enrRun EXCEPT ![q.run] = "running"]
       \/ /\ q.waits /\ q.pc = "refuse"
          /\ enrRun' = [enrRun EXCEPT ![q.run] = "idle"]
          /\ UNCHANGED enrState
       \/ /\ ~q.waits
          /\ UNCHANGED <<enrRun, enrState>>
    /\ UNCHANGED <<enrToken, enrMint, enrAgents, enrFaults>>

\* The minute of the context passes, the answer is lost or the file cannot be
\* written: the run exits, and somebody may start it again.
EnrollFails(q) ==
    /\ q.waits
    /\ EnrFault
    /\ enrRun' = [enrRun EXCEPT ![q.run] = "idle"]
    /\ enrReq' = (enrReq \ {q}) \cup {[q EXCEPT !.waits = FALSE]}
    /\ UNCHANGED <<enrToken, enrMint, enrAgents, enrState>>

EnrStop(r) ==
    /\ enrRun[r] = "running"
    /\ enrRun' = [enrRun EXCEPT ![r] = "idle"]
    /\ UNCHANGED <<enrToken, enrMint, enrAgents, enrReq, enrState, enrFaults>>

EnrNext ==
    \/ \E t \in EnrTokens :
          \/ \E uses \in EnrUses, e \in EnrEstates : GenerateInstaller(t, uses, e)
          \/ \E uses \in EnrUses, contain \in BOOLEAN, e \in EnrEstates \cup {0} :
                CreateToken(t, uses, contain, e)
          \/ SetTokenEstate(t) \/ StampInstaller(t) \/ MintFails(t) \/ RevokeEnrollToken(t)
    \/ \E r \in EnrRuns :
          \/ ReuseCredential(r) \/ EnrStop(r)
          \/ \E t \in EnrTokens, optIn \in BOOLEAN : Enroll(r, t, optIn)
    \/ \E q \in enrReq :
          \/ ConsumeEnrollToken(q) \/ EnrollAgent(q) \/ EnrollAgentFails(q)
          \/ EnrAnswer(q) \/ EnrollFails(q)

EnrSpec == EnrInit /\ [][EnrNext]_enrVars

-----------------------------------------------------------------------------
(* Properties *)

EnrTypeOK ==
    /\ \A t \in EnrTokens :
          enrToken[t].minted => enrToken[t].consumed \in Nat /\ enrToken[t].allowed \in EnrUses
    /\ \A a \in enrAgents : a.via \in EnrTokens /\ a.estate \in EnrEstates \cup {0}
    /\ \A q \in enrReq : q.slot \in EnrSlots /\ q.run \in EnrRuns
    /\ enrRun \in [EnrRuns -> {"idle", "asking", "running"}]
    /\ enrState \in [EnrHosts -> 0..EnrMaxAgents]
    /\ enrFaults \in 0..EnrMaxFaults

\* "Two agents racing on a single-use token cannot both succeed": no token
\* brings in more agents than it has uses, counting those on their way.
EnrUsesBound ==
    \A t \in EnrTokens : enrToken[t].minted =>
        Cardinality({a \in enrAgents : a.via = t})
            + Cardinality({q \in enrReq : q.pc = "create" /\ q.token = t})
            <= enrToken[t].allowed

\* "Enrollment is idempotent": however often the installer is run on a host,
\* the host becomes one agent per process that was started before there was a
\* credential, and one more per fault.
EnrIdempotent ==
    \A h \in EnrHosts :
        Cardinality({a \in enrAgents : a.host = h})
            <= Cardinality({r \in EnrRuns : EnrHost[r] = h}) + enrFaults

\* A host lands with the customer its token was made for, though the token
\* is minted in one statement and scoped in a second.
EnrScoped == \A a \in enrAgents : a.estate = enrMint[a.via].estate

\* What a token is worth, across racing hosts, lost answers and failures: its
\* uses, one agent per host, and the customer it was made for.
EnrSafe == EnrUsesBound /\ EnrIdempotent /\ EnrScoped
=============================================================================
