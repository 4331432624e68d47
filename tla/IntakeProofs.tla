--------------------------- MODULE IntakeProofs ---------------------------
(***************************************************************************)
(* Proofs about what the console takes in from hosts, the hosts themselves *)
(* and their reports, and about the two limiters: on what a client may try *)
(* and on what a scan may take from its host.                              *)
(***************************************************************************)
EXTENDS Enrollment, ReportIngest, Limits, FiniteSetTheorems, SequenceTheorems, TLAPS

-----------------------------------------------------------------------------
(***************************************************************************)
(* Enrollment, for any number of tokens, hosts, runs on them and faults.   *)
(***************************************************************************)

EnrRow ==
    [minted : {TRUE}, allowed : EnrUses, consumed : Nat, contain : BOOLEAN,
     estate : EnrEstates \cup {0}, revoked : BOOLEAN, expired : BOOLEAN]
EnrMinting ==
    [pc : {"none"}]
      \cup [pc : {"scope", "stamp", "given", "failed"}, by : {"installer", "hand"},
            estate : EnrEstates \cup {0}]
EnrAgent ==
    [id : Nat \ {0}, host : EnrHosts, via : EnrTokens, allow : BOOLEAN, optIn : BOOLEAN,
     estate : EnrEstates \cup {0}]
EnrRequest ==
    [slot : EnrSlots, run : EnrRuns, waits : BOOLEAN,
     pc : {"consume", "create", "refuse", "answer"}, token : EnrTokens, optIn : BOOLEAN,
     contain : BOOLEAN, estate : EnrEstates \cup {0}, agent : Nat]

EnrTyped ==
    /\ enrToken \in [EnrTokens -> {EnrUnminted} \cup EnrRow]
    /\ enrMint \in [EnrTokens -> EnrMinting]
    /\ enrAgents \subseteq EnrAgent /\ IsFiniteSet(enrAgents)
    /\ enrReq \subseteq EnrRequest /\ IsFiniteSet(enrReq)
    /\ enrRun \in [EnrRuns -> {"idle", "asking", "running"}]
    /\ enrState \in [EnrHosts -> Nat]
    /\ enrFaults \in Nat

(* A slot serves one request, a run waits for one answer. *)
EnrOneEach ==
    /\ \A q \in enrReq : q.waits => enrRun[q.run] = "asking"
    /\ \A p, q \in enrReq :
          p.slot = q.slot \/ (p.waits /\ q.waits /\ p.run = q.run) => p = q
    /\ \A q \in enrReq : q.pc = "answer" => q.agent # 0

(* Where a token came from, and what it is worth since. *)
EnrTokenScoped ==
    /\ \A t \in EnrTokens :
          /\ enrMint[t].pc = "none" <=> ~enrToken[t].minted
          /\ enrMint[t].pc \in {"stamp", "given"} => enrToken[t].estate = enrMint[t].estate
    /\ \A q \in enrReq :
          /\ enrMint[q.token].pc = "given"
          /\ q.pc = "create" => q.estate = enrMint[q.token].estate
    /\ \A a \in enrAgents : enrMint[a.via].pc = "given"

EnrVia(t) == {a \in enrAgents : a.via = t}
EnrOnTheWay(t) == {q \in enrReq : q.pc = "create" /\ q.token = t}

(* Each use is an agent, a request on its way to one, or spent. *)
EnrUsesCount ==
    \A t \in EnrTokens : enrToken[t].minted =>
        /\ Cardinality(EnrVia(t)) + Cardinality(EnrOnTheWay(t)) <= enrToken[t].consumed
        /\ enrToken[t].consumed <= enrToken[t].allowed

EnrOn(h) == {a \in enrAgents : a.host = h}
EnrOpen(h) == {q \in enrReq : q.pc \in {"consume", "create"} /\ EnrHost[q.run] = h}
EnrHoping(h) ==
    {r \in EnrRuns : EnrHost[r] = h /\ \E q \in enrReq : q.run = r /\ q.waits /\ q.pc # "refuse"}
EnrRunsOn(h) == {r \in EnrRuns : EnrHost[r] = h}

(* Agents a host has or may still get.  Without a credential each of them is
   somebody's who waits, or a fault's; with one no request begins. *)
EnrHostCount ==
    \A h \in EnrHosts :
        LET n == Cardinality(EnrOn(h)) + Cardinality(EnrOpen(h))
        IN  /\ n <= Cardinality(EnrRunsOn(h)) + enrFaults
            /\ enrState[h] = 0 => n <= Cardinality(EnrHoping(h)) + enrFaults

EnrInv ==
    /\ EnrTyped /\ EnrOneEach /\ EnrScoped /\ EnrTokenScoped
    /\ EnrUsesCount /\ EnrHostCount

(* What is counted is finite, before and after a step. *)
LEMMA EnrHostsCounted ==
  ASSUME NEW h \in EnrHosts
  PROVE  /\ IsFiniteSet(EnrRunsOn(h)) /\ Cardinality(EnrRunsOn(h)) \in Nat
         /\ IsFiniteSet(EnrHoping(h)) /\ Cardinality(EnrHoping(h)) \in Nat
         /\ Cardinality(EnrHoping(h)) <= Cardinality(EnrRunsOn(h))
         /\ IsFiniteSet(EnrHoping(h)') /\ Cardinality(EnrHoping(h)') \in Nat
         /\ Cardinality(EnrHoping(h)') <= Cardinality(EnrRunsOn(h))
<1>1. IsFiniteSet(EnrRunsOn(h))
  BY EnrConstantsAssumption, FS_Subset DEF EnrRunsOn
<1>2. EnrHoping(h) \in SUBSET EnrRunsOn(h) /\ EnrHoping(h)' \in SUBSET EnrRunsOn(h)
  BY DEF EnrHoping, EnrRunsOn
<1>3. QED BY <1>1, <1>2, FS_Subset, FS_CardinalityType

\* The sets the bounds count are finite.
LEMMA EnrSetsCounted ==
  ASSUME EnrTyped
  PROVE  /\ \A t : /\ IsFiniteSet(EnrVia(t)) /\ Cardinality(EnrVia(t)) \in Nat
                   /\ IsFiniteSet(EnrOnTheWay(t)) /\ Cardinality(EnrOnTheWay(t)) \in Nat
         /\ \A h : /\ IsFiniteSet(EnrOn(h)) /\ Cardinality(EnrOn(h)) \in Nat
                   /\ IsFiniteSet(EnrOpen(h)) /\ Cardinality(EnrOpen(h)) \in Nat
<1>1. \A t : EnrVia(t) \in SUBSET enrAgents /\ EnrOnTheWay(t) \in SUBSET enrReq
  BY DEF EnrVia, EnrOnTheWay
<1>2. \A h : EnrOn(h) \in SUBSET enrAgents /\ EnrOpen(h) \in SUBSET enrReq
  BY DEF EnrOn, EnrOpen
<1>3. \A S \in SUBSET enrAgents : IsFiniteSet(S) /\ Cardinality(S) \in Nat
  BY FS_Subset, FS_CardinalityType DEF EnrTyped
<1>4. \A S \in SUBSET enrReq : IsFiniteSet(S) /\ Cardinality(S) \in Nat
  BY FS_Subset, FS_CardinalityType DEF EnrTyped
<1>5. QED BY <1>1, <1>2, <1>3, <1>4

\* EnrInv holds initially.
LEMMA EnrInitInv == EnrInit => EnrInv
<1> SUFFICES ASSUME EnrInit PROVE EnrInv
  OBVIOUS
<1>1. EnrTyped
  BY FS_EmptySet DEF EnrInit, EnrTyped, EnrMinting
<1>2. EnrOneEach /\ EnrScoped /\ EnrTokenScoped
  BY DEF EnrInit, EnrOneEach, EnrScoped, EnrTokenScoped, EnrUnminted
<1>3. EnrUsesCount
  BY DEF EnrInit, EnrUsesCount, EnrUnminted
<1>4. EnrHostCount
  <2> SUFFICES ASSUME NEW h \in EnrHosts
               PROVE  /\ Cardinality(EnrOn(h)) + Cardinality(EnrOpen(h)) = 0
                      /\ enrFaults = 0
    BY EnrHostsCounted DEF EnrHostCount
  <2>1. EnrOn(h) = {} /\ EnrOpen(h) = {} /\ enrFaults = 0
    BY DEF EnrInit, EnrOn, EnrOpen
  <2>2. QED BY <2>1, FS_EmptySet
<1>5. QED BY <1>1, <1>2, <1>3, <1>4 DEF EnrInv

\* The same of the next state.
LEMMA EnrSetsCountedNext ==
  ASSUME EnrTyped'
  PROVE  /\ \A t : /\ IsFiniteSet(EnrVia(t)') /\ Cardinality(EnrVia(t)') \in Nat
                   /\ IsFiniteSet(EnrOnTheWay(t)') /\ Cardinality(EnrOnTheWay(t)') \in Nat
         /\ \A h : /\ IsFiniteSet(EnrOn(h)') /\ Cardinality(EnrOn(h)') \in Nat
                   /\ IsFiniteSet(EnrOpen(h)') /\ Cardinality(EnrOpen(h)') \in Nat
<1>1. \A t : EnrVia(t)' \in SUBSET enrAgents' /\ EnrOnTheWay(t)' \in SUBSET enrReq'
  BY DEF EnrVia, EnrOnTheWay
<1>2. \A h : EnrOn(h)' \in SUBSET enrAgents' /\ EnrOpen(h)' \in SUBSET enrReq'
  BY DEF EnrOn, EnrOpen
<1>3. \A S \in SUBSET enrAgents' : IsFiniteSet(S) /\ Cardinality(S) \in Nat
  BY FS_Subset, FS_CardinalityType DEF EnrTyped
<1>4. \A S \in SUBSET enrReq' : IsFiniteSet(S) /\ Cardinality(S) \in Nat
  BY FS_Subset, FS_CardinalityType DEF EnrTyped
<1>5. QED BY <1>1, <1>2, <1>3, <1>4

\* One more element makes a set larger by one at most.
LEMMA EnrGrowsByOne ==
  ASSUME NEW S, IsFiniteSet(S), NEW y
  PROVE  Cardinality(S \cup {y}) \in Nat /\ Cardinality(S \cup {y}) <= Cardinality(S) + 1
<1>1. Cardinality(S) \in Nat /\ Cardinality(S \cup {y}) = IF y \in S THEN Cardinality(S) ELSE Cardinality(S) + 1
  BY FS_CardinalityType, FS_AddElement
<1>2. QED BY <1>1

(* A set that swaps one element is no larger. *)
LEMMA EnrSwapCounts ==
  ASSUME NEW S, IsFiniteSet(S), NEW x \in S, NEW y
  PROVE  Cardinality((S \ {x}) \cup {y}) <= Cardinality(S)
<1> DEFINE T == S \ {x}
<1>1. IsFiniteSet(T) /\ Cardinality(T) = Cardinality(S) - 1 /\ Cardinality(S) \in Nat
  BY FS_RemoveElement, FS_CardinalityType
<1> HIDE DEF T
<1>2. Cardinality(T \cup {y}) = IF y \in T THEN Cardinality(T) ELSE Cardinality(T) + 1
  BY <1>1, FS_AddElement
<1>3. Cardinality(T \cup {y}) <= Cardinality(S)
  BY <1>1, <1>2
<1>4. QED BY <1>3 DEF T

(* If at most one run stops hoping, the count falls by at most one. *)
LEMMA EnrHopingFalls ==
  ASSUME NEW h \in EnrHosts, NEW r, EnrHoping(h) \ {r} \subseteq EnrHoping(h)'
  PROVE  Cardinality(EnrHoping(h)) <= Cardinality(EnrHoping(h)') + 1
<1>1. /\ IsFiniteSet(EnrHoping(h)) /\ IsFiniteSet(EnrHoping(h)')
      /\ Cardinality(EnrHoping(h)) \in Nat /\ Cardinality(EnrHoping(h)') \in Nat
  BY EnrHostsCounted
<1>2. Cardinality(EnrHoping(h) \ {r}) <= Cardinality(EnrHoping(h)')
  BY <1>1, FS_Subset
<1>3. Cardinality(EnrHoping(h)) <= Cardinality(EnrHoping(h) \ {r}) + 1
  BY <1>1, FS_RemoveElement
<1>4. Cardinality(EnrHoping(h) \ {r}) \in Nat
  BY <1>1, FS_RemoveElement, FS_CardinalityType
<1>5. QED BY <1>1, <1>2, <1>3, <1>4

-----------------------------------------------------------------------------
(* The console mints tokens; nothing is counted differently. *)
LEMMA EnrCountsStay ==
  ASSUME EnrInv, UNCHANGED <<enrAgents, enrReq, enrState>>, enrFaults' \in Nat, enrFaults' >= enrFaults
  PROVE  EnrHostCount'
<1> SUFFICES ASSUME NEW h \in EnrHosts
             PROVE  LET n == Cardinality(EnrOn(h)') + Cardinality(EnrOpen(h)')
                    IN  /\ n <= Cardinality(EnrRunsOn(h)) + enrFaults'
                        /\ enrState'[h] = 0 => n <= Cardinality(EnrHoping(h)') + enrFaults'
  BY DEF EnrHostCount, EnrRunsOn
<1>1. EnrOn(h)' = EnrOn(h) /\ EnrOpen(h)' = EnrOpen(h) /\ EnrHoping(h)' = EnrHoping(h)
  BY DEF EnrOn, EnrOpen, EnrHoping
<1>2. /\ Cardinality(EnrOn(h)) \in Nat /\ Cardinality(EnrOpen(h)) \in Nat /\ enrFaults \in Nat
      /\ Cardinality(EnrRunsOn(h)) \in Nat /\ Cardinality(EnrHoping(h)) \in Nat
  BY EnrSetsCounted, EnrHostsCounted DEF EnrInv, EnrTyped
<1>3. LET n == Cardinality(EnrOn(h)) + Cardinality(EnrOpen(h))
      IN  /\ n <= Cardinality(EnrRunsOn(h)) + enrFaults
          /\ enrState[h] = 0 => n <= Cardinality(EnrHoping(h)) + enrFaults
  BY DEF EnrInv, EnrHostCount
<1>4. QED BY <1>1, <1>2, <1>3

(* What a step of minting does to its token. *)
EnrMinted(t) ==
    /\ UNCHANGED <<enrAgents, enrReq, enrRun, enrState>>
    /\ enrFaults' \in Nat /\ enrFaults' >= enrFaults
    /\ enrToken' \in [EnrTokens -> {EnrUnminted} \cup EnrRow]
    /\ enrMint' \in [EnrTokens -> EnrMinting]
    /\ \A u \in EnrTokens \ {t} : enrToken'[u] = enrToken[u] /\ enrMint'[u] = enrMint[u]
    /\ enrMint[t].pc = "given" => enrMint'[t] = enrMint[t]
    /\ enrToken'[t].minted /\ enrMint'[t].pc # "none"
    /\ enrMint'[t].pc \in {"stamp", "given"} => enrToken'[t].estate = enrMint'[t].estate
    /\ enrMint[t].pc # "none" => /\ enrToken'[t].consumed = enrToken[t].consumed
                                 /\ enrToken'[t].allowed = enrToken[t].allowed
    /\ enrMint[t].pc = "none" => enrToken'[t].consumed = 0
    /\ enrToken'[t].allowed \in Nat

\* What happens to a token before it is used keeps the types.
LEMMA EnrMintTypes ==
  ASSUME EnrInv, NEW t \in EnrTokens,
         \/ \E uses \in EnrUses, e \in EnrEstates : GenerateInstaller(t, uses, e)
         \/ \E uses \in EnrUses, contain \in BOOLEAN, e \in EnrEstates \cup {0} :
               CreateToken(t, uses, contain, e)
         \/ SetTokenEstate(t) \/ StampInstaller(t) \/ MintFails(t) \/ RevokeEnrollToken(t)
  PROVE  EnrMinted(t)
<1>0. /\ enrToken[t] \in {EnrUnminted} \cup EnrRow /\ enrMint[t] \in EnrMinting
      /\ enrFaults \in Nat /\ EnrUses \subseteq Nat
      /\ enrMint[t].pc = "none" <=> ~enrToken[t].minted
      /\ enrMint[t].pc \in {"stamp", "given"} => enrToken[t].estate = enrMint[t].estate
  BY EnrConstantsAssumption DEF EnrInv, EnrTyped, EnrTokenScoped
<1>1. ASSUME NEW uses \in EnrUses, NEW contain \in BOOLEAN, NEW m \in EnrMinting,
             CreateEnrollToken(t, uses, contain),
             m.pc # "none", m.pc \in {"stamp", "given"} => m.estate = 0,
             enrMint' = [enrMint EXCEPT ![t] = m],
             UNCHANGED <<enrAgents, enrReq, enrRun, enrState, enrFaults>>
      PROVE  EnrMinted(t)
  <2> DEFINE row == [minted |-> TRUE, allowed |-> uses, consumed |-> 0, contain |-> contain,
                     estate |-> 0, revoked |-> FALSE, expired |-> FALSE]
  <2>1. row \in EnrRow /\ row.minted /\ row.estate = 0 /\ row.consumed = 0 /\ row.allowed \in Nat
    BY <1>0, <1>1 DEF EnrRow
  <2>2. enrToken[t] = EnrUnminted /\ enrToken' = [enrToken EXCEPT ![t] = row]
    BY <1>1 DEF CreateEnrollToken
  <2>3. enrMint[t].pc = "none"
    BY <1>0, <2>2 DEF EnrUnminted
  <2> HIDE DEF row
  <2>4. /\ enrToken' \in [EnrTokens -> {EnrUnminted} \cup EnrRow] /\ enrToken'[t] = row
        /\ \A u \in EnrTokens \ {t} : enrToken'[u] = enrToken[u]
    BY <2>1, <2>2 DEF EnrInv, EnrTyped
  <2>5. /\ enrMint' \in [EnrTokens -> EnrMinting] /\ enrMint'[t] = m
        /\ \A u \in EnrTokens \ {t} : enrMint'[u] = enrMint[u]
    BY <1>1 DEF EnrInv, EnrTyped
  <2>6. QED BY <1>0, <1>1, <2>1, <2>3, <2>4, <2>5 DEF EnrMinted
<1>2. ASSUME NEW uses \in EnrUses, NEW e \in EnrEstates, GenerateInstaller(t, uses, e)
      PROVE  EnrMinted(t)
  <2> DEFINE m == [pc |-> "scope", by |-> "installer", estate |-> e]
  <2>1. m \in EnrMinting /\ m.pc = "scope"
    BY DEF EnrMinting
  <2>2. QED BY <1>1, <1>2, <2>1 DEF GenerateInstaller
<1>3. ASSUME NEW uses \in EnrUses, NEW contain \in BOOLEAN, NEW e \in EnrEstates \cup {0},
             CreateToken(t, uses, contain, e)
      PROVE  EnrMinted(t)
  <2> DEFINE m == [pc |-> IF e = 0 THEN "given" ELSE "scope", by |-> "hand", estate |-> e]
  <2>1. m \in EnrMinting /\ m.pc \in {"given", "scope"} /\ (m.pc = "given" => m.estate = 0)
    BY DEF EnrMinting
  <2>2. QED BY <1>1, <1>3, <2>1 DEF CreateToken
<1>4. CASE SetTokenEstate(t)
  <2>1. enrMint[t].pc = "scope" /\ enrToken[t] \in EnrRow
    BY <1>0, <1>4 DEF SetTokenEstate, EnrUnminted
  <2>2. enrMint[t].estate \in EnrEstates \cup {0} /\ enrMint[t] \in EnrMinting \ [pc : {"none"}]
    BY <1>0, <2>1 DEF EnrMinting
  <2>3. /\ enrToken' \in [EnrTokens -> {EnrUnminted} \cup EnrRow]
        /\ enrToken'[t] = [enrToken[t] EXCEPT !.estate = enrMint[t].estate]
        /\ \A u \in EnrTokens \ {t} : enrToken'[u] = enrToken[u]
    BY <1>4, <2>1, <2>2 DEF EnrInv, EnrTyped, SetTokenEstate, EnrRow
  <2>4. /\ enrMint' \in [EnrTokens -> EnrMinting]
        /\ enrMint'[t].estate = enrMint[t].estate /\ enrMint'[t].pc \in {"stamp", "given"}
        /\ \A u \in EnrTokens \ {t} : enrMint'[u] = enrMint[u]
    BY <1>4, <2>2 DEF EnrInv, EnrTyped, SetTokenEstate, EnrMinting
  <2>5. /\ enrToken'[t].minted /\ enrToken'[t].estate = enrMint[t].estate
        /\ enrToken'[t].consumed = enrToken[t].consumed
        /\ enrToken'[t].allowed = enrToken[t].allowed /\ enrToken[t].allowed \in Nat
    BY <1>0, <2>1, <2>3 DEF EnrRow
  <2>6. UNCHANGED <<enrAgents, enrReq, enrRun, enrState, enrFaults>>
    BY <1>4 DEF SetTokenEstate
  <2>7. QED BY <1>0, <2>1, <2>3, <2>4, <2>5, <2>6 DEF EnrMinted
<1>5. CASE StampInstaller(t) \/ MintFails(t)
  <2>1. enrMint[t].pc \in {"scope", "stamp"} /\ enrToken[t] \in EnrRow
    BY <1>0, <1>5 DEF StampInstaller, MintFails, EnrUnminted
  <2>2. enrMint[t] \in EnrMinting \ [pc : {"none"}]
    BY <1>0, <2>1 DEF EnrMinting
  <2>3. /\ enrMint' \in [EnrTokens -> EnrMinting]
        /\ enrMint'[t].estate = enrMint[t].estate
        /\ enrMint'[t].pc \in {"given", "failed"}
        /\ enrMint'[t].pc = "given" => enrMint[t].pc = "stamp"
        /\ \A u \in EnrTokens \ {t} : enrMint'[u] = enrMint[u]
    BY <1>5, <2>2 DEF EnrInv, EnrTyped, StampInstaller, MintFails, EnrMinting
  <2>4. /\ UNCHANGED <<enrToken, enrAgents, enrReq, enrRun, enrState>>
        /\ enrFaults' \in Nat /\ enrFaults' >= enrFaults
    BY <1>0, <1>5 DEF StampInstaller, MintFails, EnrFault
  <2>5. enrToken[t].minted /\ enrToken[t].allowed \in Nat
    BY <1>0, <2>1 DEF EnrRow
  <2>6. enrToken \in [EnrTokens -> {EnrUnminted} \cup EnrRow]
    BY DEF EnrInv, EnrTyped
  <2>7. QED BY <1>0, <2>1, <2>3, <2>4, <2>5, <2>6 DEF EnrMinted
<1>6. CASE RevokeEnrollToken(t)
  <2>1. enrToken[t] \in EnrRow
    BY <1>0, <1>6 DEF RevokeEnrollToken, EnrUnminted
  <2>2. PICK how \in {"revoked", "expired"} : enrToken' = [enrToken EXCEPT ![t][how] = TRUE]
    BY <1>6 DEF RevokeEnrollToken
  <2>3. /\ enrToken' \in [EnrTokens -> {EnrUnminted} \cup EnrRow]
        /\ enrToken'[t].minted /\ enrToken'[t].estate = enrToken[t].estate
        /\ enrToken'[t].consumed = enrToken[t].consumed
        /\ enrToken'[t].allowed = enrToken[t].allowed /\ enrToken[t].allowed \in Nat
        /\ \A u \in EnrTokens \ {t} : enrToken'[u] = enrToken[u]
    BY <1>0, <2>1, <2>2 DEF EnrInv, EnrTyped, EnrRow
  <2>4. UNCHANGED <<enrMint, enrAgents, enrReq, enrRun, enrState, enrFaults>>
    BY <1>6 DEF RevokeEnrollToken
  <2>5. enrMint \in [EnrTokens -> EnrMinting] /\ enrMint[t].pc # "none"
    BY <1>0, <2>1 DEF EnrInv, EnrTyped, EnrRow
  <2>6. QED BY <1>0, <2>1, <2>3, <2>4, <2>5 DEF EnrMinted
<1>7. QED BY <1>2, <1>3, <1>4, <1>5, <1>6

\* What happens to a token before it is used keeps EnrInv.
LEMMA EnrMintStep ==
  ASSUME EnrInv, NEW t \in EnrTokens, EnrMinted(t)
  PROVE  EnrInv'
<1>1. EnrTyped'
  BY DEF EnrInv, EnrTyped, EnrMinted
<1>2. EnrOneEach'
  BY DEF EnrInv, EnrOneEach, EnrMinted
<1>3. \A u \in EnrTokens : enrMint[u].pc = "given" => enrMint'[u] = enrMint[u]
  BY DEF EnrMinted
<1>4. EnrScoped' /\ EnrTokenScoped'
  <2>1. \A a \in enrAgents : a.via \in EnrTokens /\ enrMint'[a.via] = enrMint[a.via]
    BY <1>3 DEF EnrInv, EnrTyped, EnrAgent, EnrTokenScoped
  <2>2. \A q \in enrReq : q.token \in EnrTokens /\ enrMint'[q.token] = enrMint[q.token]
    BY <1>3 DEF EnrInv, EnrTyped, EnrRequest, EnrTokenScoped
  <2>3. \A u \in EnrTokens :
           /\ enrMint'[u].pc = "none" <=> ~enrToken'[u].minted
           /\ enrMint'[u].pc \in {"stamp", "given"} => enrToken'[u].estate = enrMint'[u].estate
    BY DEF EnrInv, EnrTokenScoped, EnrMinted
  <2>4. QED BY <2>1, <2>2, <2>3 DEF EnrInv, EnrScoped, EnrTokenScoped, EnrMinted
<1>5. EnrUsesCount'
  <2> SUFFICES ASSUME NEW u \in EnrTokens, enrToken'[u].minted
               PROVE  /\ Cardinality(EnrVia(u)) + Cardinality(EnrOnTheWay(u)) <= enrToken'[u].consumed
                      /\ enrToken'[u].consumed <= enrToken'[u].allowed
    BY DEF EnrUsesCount, EnrMinted, EnrVia, EnrOnTheWay
  <2>1. CASE u # t \/ enrMint[t].pc # "none"
    BY <2>1 DEF EnrInv, EnrUsesCount, EnrTokenScoped, EnrMinted
  <2>2. CASE u = t /\ enrMint[t].pc = "none"
    <3>1. EnrVia(u) = {} /\ EnrOnTheWay(u) = {}
      BY <2>2 DEF EnrInv, EnrTokenScoped, EnrVia, EnrOnTheWay
    <3>2. Cardinality(EnrVia(u)) = 0 /\ Cardinality(EnrOnTheWay(u)) = 0
      BY <3>1, FS_EmptySet
    <3>3. enrToken'[u].consumed = 0 /\ enrToken'[u].allowed \in Nat
      BY <2>2 DEF EnrMinted
    <3>4. QED BY <3>2, <3>3
  <2>3. QED BY <2>1, <2>2
<1>6. EnrHostCount'
  BY EnrCountsStay DEF EnrMinted
<1>7. QED BY <1>1, <1>2, <1>4, <1>5, <1>6 DEF EnrInv

(* A run connects with what it has, or stops. *)
LEMMA EnrRunStep ==
  ASSUME EnrInv, NEW r \in EnrRuns, ReuseCredential(r) \/ EnrStop(r)
  PROVE  EnrInv'
<1>1. /\ UNCHANGED <<enrToken, enrMint, enrAgents, enrReq, enrState, enrFaults>>
      /\ enrRun[r] # "asking"
      /\ enrRun' \in [EnrRuns -> {"idle", "asking", "running"}]
      /\ \A o \in EnrRuns \ {r} : enrRun'[o] = enrRun[o]
  BY DEF EnrInv, EnrTyped, ReuseCredential, EnrStop
<1>2. EnrTyped'
  BY <1>1 DEF EnrInv, EnrTyped
<1>3. EnrOneEach'
  BY <1>1 DEF EnrInv, EnrOneEach, EnrTyped, EnrRequest
<1>4. EnrScoped' /\ EnrTokenScoped' /\ EnrUsesCount'
  BY <1>1 DEF EnrInv, EnrScoped, EnrTokenScoped, EnrUsesCount, EnrVia, EnrOnTheWay
<1>5. EnrHostCount'
  BY <1>1, EnrCountsStay DEF EnrInv, EnrTyped
<1>6. QED BY <1>2, <1>3, <1>4, <1>5 DEF EnrInv

(* A request begins: one more may become an agent, one more run hopes. *)
LEMMA EnrollStep ==
  ASSUME EnrInv, NEW r \in EnrRuns, NEW t \in EnrTokens, NEW optIn \in BOOLEAN, Enroll(r, t, optIn)
  PROVE  EnrInv'
<1>1. PICK slot \in EnrSlots \ {q.slot : q \in enrReq} :
         enrReq' = enrReq \cup
             {[slot |-> slot, run |-> r, waits |-> TRUE, pc |-> "consume", token |-> t,
               optIn |-> optIn, contain |-> FALSE, estate |-> 0, agent |-> 0]}
  BY DEF Enroll
<1> DEFINE new == [slot |-> slot, run |-> r, waits |-> TRUE, pc |-> "consume", token |-> t,
                   optIn |-> optIn, contain |-> FALSE, estate |-> 0, agent |-> 0]
<1>2. /\ new \in EnrRequest /\ new.slot = slot /\ new.run = r /\ new.waits /\ new.pc = "consume"
      /\ new.token = t
  BY DEF EnrRequest
<1>3. enrReq' = enrReq \cup {new} /\ new \notin enrReq
  BY <1>1
<1> HIDE DEF new
<1>4. /\ UNCHANGED <<enrToken, enrMint, enrAgents, enrState, enrFaults>>
      /\ enrRun[r] = "idle" /\ enrState[EnrHost[r]] = 0 /\ enrMint[t].pc = "given"
      /\ enrRun' \in [EnrRuns -> {"idle", "asking", "running"}] /\ enrRun'[r] = "asking"
      /\ \A o \in EnrRuns \ {r} : enrRun'[o] = enrRun[o]
  BY DEF EnrInv, EnrTyped, Enroll
<1>5. EnrTyped'
  BY <1>2, <1>3, <1>4, FS_AddElement DEF EnrInv, EnrTyped
<1>6. \A q \in enrReq : q.waits => q.run # r
  BY <1>4 DEF EnrInv, EnrOneEach
<1>7. EnrOneEach'
  <2>1. \A q \in enrReq : q.run \in EnrRuns /\ q.slot # slot
    BY <1>1 DEF EnrInv, EnrTyped, EnrRequest
  <2>2. \A q \in enrReq' : q.waits => enrRun'[q.run] = "asking"
    BY <1>2, <1>3, <1>4, <1>6, <2>1 DEF EnrInv, EnrOneEach
  <2>3. \A q \in enrReq' : q.pc = "answer" => q.agent # 0
    BY <1>2, <1>3 DEF EnrInv, EnrOneEach
  <2>4. \A p, q \in enrReq' : p.slot = q.slot \/ (p.waits /\ q.waits /\ p.run = q.run) => p = q
    BY <1>2, <1>3, <1>6, <2>1 DEF EnrInv, EnrOneEach
  <2>5. QED BY <2>2, <2>3, <2>4 DEF EnrOneEach
<1>8. EnrScoped' /\ EnrTokenScoped'
  BY <1>2, <1>3, <1>4 DEF EnrInv, EnrScoped, EnrTokenScoped
<1>9. EnrUsesCount'
  <2>1. \A u \in EnrTokens : EnrVia(u)' = EnrVia(u) /\ EnrOnTheWay(u)' = EnrOnTheWay(u)
    BY <1>2, <1>3, <1>4 DEF EnrVia, EnrOnTheWay
  <2>2. QED BY <1>4, <2>1 DEF EnrInv, EnrUsesCount
<1>10. EnrHostCount'
  <2> SUFFICES ASSUME NEW h \in EnrHosts
               PROVE  LET n == Cardinality(EnrOn(h)') + Cardinality(EnrOpen(h)')
                      IN  /\ n <= Cardinality(EnrRunsOn(h)) + enrFaults
                          /\ enrState[h] = 0 => n <= Cardinality(EnrHoping(h)') + enrFaults
    BY <1>4 DEF EnrHostCount, EnrRunsOn
  <2>1. /\ Cardinality(EnrOn(h)) \in Nat /\ Cardinality(EnrOpen(h)) \in Nat /\ enrFaults \in Nat
        /\ Cardinality(EnrRunsOn(h)) \in Nat
        /\ Cardinality(EnrHoping(h)) \in Nat /\ Cardinality(EnrHoping(h)') \in Nat
        /\ Cardinality(EnrHoping(h)') <= Cardinality(EnrRunsOn(h))
    BY EnrSetsCounted, EnrHostsCounted DEF EnrInv, EnrTyped
  <2>2. LET n == Cardinality(EnrOn(h)) + Cardinality(EnrOpen(h))
        IN  /\ n <= Cardinality(EnrRunsOn(h)) + enrFaults
            /\ enrState[h] = 0 => n <= Cardinality(EnrHoping(h)) + enrFaults
    BY DEF EnrInv, EnrHostCount
  <2>3. EnrOn(h)' = EnrOn(h)
    BY <1>4 DEF EnrOn
  <2>4. CASE EnrHost[r] = h
    <3>1. EnrOpen(h)' = EnrOpen(h) \cup {new} /\ new \notin EnrOpen(h)
      BY <1>2, <1>3, <2>4 DEF EnrOpen
    <3>2. Cardinality(EnrOpen(h)') = Cardinality(EnrOpen(h)) + 1
      BY <3>1, FS_AddElement, EnrSetsCounted DEF EnrInv
    <3>3. EnrHoping(h)' = EnrHoping(h) \cup {r} /\ r \notin EnrHoping(h)
      BY <1>2, <1>3, <1>6, <2>4 DEF EnrHoping
    <3>4. Cardinality(EnrHoping(h)') = Cardinality(EnrHoping(h)) + 1
      BY <3>3, FS_AddElement, EnrHostsCounted
    <3>5. enrState[h] = 0
      BY <1>4, <2>4
    <3>6. QED BY <2>1, <2>2, <2>3, <3>2, <3>4, <3>5
  <2>5. CASE EnrHost[r] # h
    <3>1. EnrOpen(h)' = EnrOpen(h)
      BY <1>2, <1>3, <2>5 DEF EnrOpen
    <3>2. EnrHoping(h)' = EnrHoping(h)
      BY <1>2, <1>3, <2>5 DEF EnrHoping
    <3>3. QED BY <2>1, <2>2, <2>3, <3>1, <3>2
  <2>6. QED BY <2>4, <2>5
<1>11. QED BY <1>5, <1>7, <1>8, <1>9, <1>10 DEF EnrInv

-----------------------------------------------------------------------------
(* The console serves a request *)

(* A request goes to its next stage: what does not depend on the stage. *)
LEMMA EnrRequestGoes ==
  ASSUME EnrInv, NEW q \in enrReq, NEW q2 \in EnrRequest,
         q2.slot = q.slot, q2.run = q.run, q2.token = q.token, q2.waits => q.waits,
         q2.pc = "answer" => q2.agent # 0,
         q2.pc = "create" => q2.estate = enrMint[q.token].estate,
         enrReq' = (enrReq \ {q}) \cup {q2}, UNCHANGED enrMint,
         \A o \in EnrRuns \ {q.run} : enrRun'[o] = enrRun[o],
         ~q.waits \/ q2.waits => enrRun'[q.run] = enrRun[q.run]
  PROVE  /\ enrReq' \subseteq EnrRequest /\ IsFiniteSet(enrReq')
         /\ EnrOneEach'
         /\ \A p \in enrReq' :
               /\ enrMint'[p.token].pc = "given"
               /\ p.pc = "create" => p.estate = enrMint'[p.token].estate
<1>1. enrReq' \subseteq EnrRequest /\ IsFiniteSet(enrReq')
  <2>1. IsFiniteSet(enrReq \ {q})
    BY FS_RemoveElement DEF EnrInv, EnrTyped
  <2>2. QED BY <2>1, FS_AddElement DEF EnrInv, EnrTyped
<1>2. \A p \in enrReq \ {q} : p.waits => enrRun'[p.run] = "asking"
  <2> SUFFICES ASSUME NEW p \in enrReq \ {q}, p.waits PROVE enrRun'[p.run] = "asking"
    OBVIOUS
  <2>1. enrRun[p.run] = "asking" /\ p.run \in EnrRuns
    BY DEF EnrInv, EnrOneEach, EnrTyped, EnrRequest
  <2>2. CASE p.run # q.run
    BY <2>1, <2>2
  <2>3. CASE p.run = q.run
    <3>1. ~q.waits
      BY <2>3 DEF EnrInv, EnrOneEach
    <3>2. QED BY <2>1, <2>3, <3>1
  <2>4. QED BY <2>2, <2>3
<1>3. \A p \in enrReq' : p.waits => enrRun'[p.run] = "asking"
  BY <1>2 DEF EnrInv, EnrOneEach
<1>4. EnrOneEach'
  BY <1>3 DEF EnrInv, EnrOneEach
<1>5. QED BY <1>1, <1>4 DEF EnrInv, EnrTokenScoped

(* The sum of agents and open requests of a host grows only with the faults,
   and without a credential only with the runs that hope. *)
LEMMA EnrHostCountKept ==
  ASSUME EnrInv, EnrTyped',
         \A h \in EnrHosts :
            LET n == Cardinality(EnrOn(h)) + Cardinality(EnrOpen(h))
                m == Cardinality(EnrOn(h)') + Cardinality(EnrOpen(h)')
            IN  /\ m + enrFaults <= n + enrFaults'
                /\ enrState'[h] = 0 =>
                      /\ enrState[h] = 0
                      /\ m + Cardinality(EnrHoping(h)) + enrFaults
                            <= n + Cardinality(EnrHoping(h)') + enrFaults'
  PROVE  EnrHostCount'
<1> SUFFICES ASSUME NEW h \in EnrHosts
             PROVE  LET m == Cardinality(EnrOn(h)') + Cardinality(EnrOpen(h)')
                    IN  /\ m <= Cardinality(EnrRunsOn(h)) + enrFaults'
                        /\ enrState'[h] = 0 => m <= Cardinality(EnrHoping(h)') + enrFaults'
  BY DEF EnrHostCount, EnrRunsOn
<1> DEFINE n == Cardinality(EnrOn(h)) + Cardinality(EnrOpen(h))
           m == Cardinality(EnrOn(h)') + Cardinality(EnrOpen(h)')
           runs == Cardinality(EnrRunsOn(h))
           hoped == Cardinality(EnrHoping(h))
           hope == Cardinality(EnrHoping(h)')
<1>1. n \in Nat /\ m \in Nat /\ runs \in Nat /\ hoped \in Nat /\ hope \in Nat
  BY EnrSetsCounted, EnrSetsCountedNext, EnrHostsCounted DEF EnrInv
<1>2. enrFaults \in Nat /\ enrFaults' \in Nat
  BY DEF EnrInv, EnrTyped
<1>3. n <= runs + enrFaults /\ (enrState[h] = 0 => n <= hoped + enrFaults)
  BY DEF EnrInv, EnrHostCount
<1>4. /\ m + enrFaults <= n + enrFaults'
      /\ enrState'[h] = 0 => enrState[h] = 0 /\ m + hoped + enrFaults <= n + hope + enrFaults'
  OBVIOUS
<1>5. \A a, b, c, f, g \in Nat : a + f <= b + g /\ b <= c + f => a <= c + g
  OBVIOUS
<1>6. \A a, b, c, d, f, g \in Nat : a + c + f <= b + d + g /\ b <= c + f => a <= d + g
  OBVIOUS
<1>7. m <= runs + enrFaults'
  BY <1>1, <1>2, <1>3, <1>4, <1>5
<1>8. enrState'[h] = 0 => m <= hope + enrFaults'
  BY <1>1, <1>2, <1>3, <1>4, <1>6
<1>9. QED BY <1>7, <1>8

\* A minted token has a row with numbers in it.
LEMMA EnrMintedRow ==
  ASSUME EnrInv, NEW t \in EnrTokens, enrToken[t].minted
  PROVE  /\ enrToken[t] \in EnrRow
         /\ enrToken[t].consumed \in Nat /\ enrToken[t].allowed \in Nat
<1>1. enrToken[t] \in EnrRow
  BY DEF EnrInv, EnrTyped, EnrUnminted
<1>2. QED BY <1>1, EnrConstantsAssumption DEF EnrRow

(* A use of a token. *)
LEMMA EnrUsed ==
  ASSUME NEW row \in EnrRow
  PROVE  LET used == [row EXCEPT !.consumed = @ + 1]
         IN  /\ used \in EnrRow /\ used.minted /\ row.minted
             /\ used.consumed = row.consumed + 1
             /\ used.allowed = row.allowed /\ used.estate = row.estate
             /\ row.consumed \in Nat /\ row.allowed \in Nat
<1>1. row.consumed \in Nat /\ row.allowed \in Nat /\ row.minted
  BY EnrConstantsAssumption DEF EnrRow
<1> DEFINE n == row.consumed + 1
<1>2. n \in Nat
  BY <1>1
<1> HIDE DEF n
<1>3. /\ [row EXCEPT !.consumed = n] \in EnrRow
      /\ [row EXCEPT !.consumed = n].minted
      /\ [row EXCEPT !.consumed = n].consumed = n
      /\ [row EXCEPT !.consumed = n].allowed = row.allowed
      /\ [row EXCEPT !.consumed = n].estate = row.estate
  BY <1>2 DEF EnrRow
<1>4. QED BY <1>1, <1>3 DEF n

\* Consuming a use (ConsumeEnrollToken) keeps EnrInv.
LEMMA EnrConsumeStep ==
  ASSUME EnrInv, NEW q \in enrReq, ConsumeEnrollToken(q)
  PROVE  EnrInv'
<1>0. q \in EnrRequest /\ q.pc = "consume" /\ q.token \in EnrTokens /\ q.run \in EnrRuns
  BY DEF ConsumeEnrollToken, EnrInv, EnrTyped, EnrRequest
<1>1. UNCHANGED <<enrMint, enrAgents, enrRun, enrState, enrFaults>>
  BY DEF ConsumeEnrollToken
<1>2. enrMint[q.token].pc = "given" /\ enrToken[q.token] \in EnrRow
      /\ enrToken[q.token].estate = enrMint[q.token].estate
  BY <1>0 DEF EnrInv, EnrTyped, EnrTokenScoped, EnrUnminted
<1>3. /\ Cardinality(EnrVia(q.token)) \in Nat /\ Cardinality(EnrOnTheWay(q.token)) \in Nat
      /\ \A h : Cardinality(EnrOn(h)) \in Nat /\ Cardinality(EnrOpen(h)) \in Nat
  BY EnrSetsCounted DEF EnrInv
<1>4. \A h \in EnrHosts : Cardinality(EnrHoping(h)) \in Nat /\ Cardinality(EnrHoping(h)') \in Nat
  BY EnrHostsCounted
<1>5. \A h : EnrOn(h)' = EnrOn(h)
  BY <1>1 DEF EnrOn
<1>6. CASE TokenRefused(q.token)
  <2> DEFINE q2 == [q EXCEPT !.pc = "refuse"]
  <2>1. /\ q2 \in EnrRequest /\ q2.slot = q.slot /\ q2.run = q.run /\ q2.token = q.token
        /\ q2.waits = q.waits /\ q2.pc = "refuse"
    BY <1>0 DEF EnrRequest
  <2>2. enrReq' = (enrReq \ {q}) \cup {q2} /\ UNCHANGED enrToken
    BY <1>6 DEF ConsumeEnrollToken, EnrGoes
  <2> HIDE DEF q2
  <2>3. /\ enrReq' \subseteq EnrRequest /\ IsFiniteSet(enrReq') /\ EnrOneEach'
        /\ \A p \in enrReq' :
              /\ enrMint'[p.token].pc = "given"
              /\ p.pc = "create" => p.estate = enrMint'[p.token].estate
    BY <1>1, <2>1, <2>2, EnrRequestGoes
  <2>4. EnrTyped'
    BY <1>1, <2>2, <2>3 DEF EnrInv, EnrTyped
  <2>5. EnrScoped' /\ EnrTokenScoped'
    <3>1. EnrScoped'
      BY <1>1 DEF EnrInv, EnrScoped
    <3>2. EnrTokenScoped'
      BY <1>1, <2>2, <2>3 DEF EnrInv, EnrTokenScoped
    <3>3. QED BY <3>1, <3>2
  <2>6. EnrUsesCount'
    <3>1. \A u \in EnrTokens : EnrVia(u)' = EnrVia(u) /\ EnrOnTheWay(u)' = EnrOnTheWay(u)
      BY <1>0, <1>1, <2>1, <2>2 DEF EnrVia, EnrOnTheWay
    <3>2. QED BY <2>2, <3>1 DEF EnrInv, EnrUsesCount
  <2>7. EnrHostCount'
    <3>1. ASSUME NEW h \in EnrHosts
          PROVE  /\ Cardinality(EnrOpen(h)') <= Cardinality(EnrOpen(h))
                 /\ Cardinality(EnrOpen(h)') + Cardinality(EnrHoping(h))
                       <= Cardinality(EnrOpen(h)) + Cardinality(EnrHoping(h)')
                 /\ Cardinality(EnrOpen(h)') \in Nat
      <4>1. CASE EnrHost[q.run] = h
        <5>1. EnrOpen(h)' = EnrOpen(h) \ {q} /\ q \in EnrOpen(h)
          BY <1>0, <2>1, <2>2, <4>1 DEF EnrOpen
        <5>2. Cardinality(EnrOpen(h)') = Cardinality(EnrOpen(h)) - 1 /\ Cardinality(EnrOpen(h)') \in Nat
          BY <5>1, FS_RemoveElement, FS_CardinalityType, EnrSetsCounted DEF EnrInv
        <5>3. EnrHoping(h) \ {q.run} \subseteq EnrHoping(h)'
          BY <2>2 DEF EnrHoping
        <5>4. Cardinality(EnrHoping(h)) <= Cardinality(EnrHoping(h)') + 1
          BY <5>3, EnrHopingFalls
        <5>5. QED BY <1>3, <1>4, <5>2, <5>4
      <4>2. CASE EnrHost[q.run] # h
        <5>1. EnrOpen(h)' = EnrOpen(h)
          BY <2>1, <2>2, <4>2 DEF EnrOpen
        <5>2. EnrHoping(h)' = EnrHoping(h)
          BY <2>1, <2>2, <4>2 DEF EnrHoping
        <5>3. QED BY <1>3, <1>4, <5>1, <5>2
      <4>3. QED BY <4>1, <4>2
    <3>2. enrFaults \in Nat
      BY DEF EnrInv, EnrTyped
    <3>3. QED BY <1>1, <1>3, <1>4, <1>5, <2>4, <3>1, <3>2, EnrHostCountKept
  <2>8. QED BY <2>3, <2>4, <2>5, <2>6, <2>7 DEF EnrInv
<1>7. CASE ~TokenRefused(q.token)
  <2> DEFINE q2 == [q EXCEPT !.pc = "create", !.contain = enrToken[q.token].contain,
                             !.estate = enrToken[q.token].estate]
  <2>1. /\ q2 \in EnrRequest /\ q2.slot = q.slot /\ q2.run = q.run /\ q2.token = q.token
        /\ q2.waits = q.waits /\ q2.pc = "create" /\ q2.estate = enrMint[q.token].estate
    BY <1>0, <1>2 DEF EnrRequest, EnrRow
  <2>2. /\ enrReq' = (enrReq \ {q}) \cup {q2}
        /\ enrToken' = [enrToken EXCEPT ![q.token].consumed = @ + 1]
    BY <1>7 DEF ConsumeEnrollToken
  <2> HIDE DEF q2
  <2>3. /\ enrReq' \subseteq EnrRequest /\ IsFiniteSet(enrReq') /\ EnrOneEach'
        /\ \A p \in enrReq' :
              /\ enrMint'[p.token].pc = "given"
              /\ p.pc = "create" => p.estate = enrMint'[p.token].estate
    BY <1>1, <2>1, <2>2, EnrRequestGoes
  <2>4. /\ enrToken' \in [EnrTokens -> {EnrUnminted} \cup EnrRow]
        /\ enrToken'[q.token].minted /\ enrToken[q.token].minted
        /\ enrToken'[q.token].consumed = enrToken[q.token].consumed + 1
        /\ enrToken'[q.token].allowed = enrToken[q.token].allowed
        /\ enrToken'[q.token].estate = enrToken[q.token].estate
        /\ enrToken[q.token].consumed \in Nat /\ enrToken[q.token].allowed \in Nat
        /\ \A u \in EnrTokens \ {q.token} : enrToken'[u] = enrToken[u]
    <3> DEFINE row == [enrToken[q.token] EXCEPT !.consumed = @ + 1]
    <3>1. /\ row \in EnrRow /\ row.minted /\ enrToken[q.token].minted
          /\ row.consumed = enrToken[q.token].consumed + 1
          /\ row.allowed = enrToken[q.token].allowed /\ row.estate = enrToken[q.token].estate
          /\ enrToken[q.token].consumed \in Nat /\ enrToken[q.token].allowed \in Nat
      BY <1>2, EnrUsed
    <3>2. enrToken' = [enrToken EXCEPT ![q.token] = row]
      BY <2>2
    <3> HIDE DEF row
    <3>3. QED BY <1>0, <3>1, <3>2 DEF EnrInv, EnrTyped
  <2>5. EnrTyped'
    BY <1>1, <2>3, <2>4 DEF EnrInv, EnrTyped
  <2>6. EnrScoped' /\ EnrTokenScoped'
    <3>1. EnrScoped'
      BY <1>1 DEF EnrInv, EnrScoped
    <3>2. \A u \in EnrTokens :
             /\ enrMint'[u].pc = "none" <=> ~enrToken'[u].minted
             /\ enrMint'[u].pc \in {"stamp", "given"} => enrToken'[u].estate = enrMint'[u].estate
      BY <1>0, <1>1, <1>2, <2>4 DEF EnrInv, EnrTokenScoped
    <3>3. EnrTokenScoped'
      BY <1>1, <2>3, <3>2 DEF EnrInv, EnrTokenScoped
    <3>4. QED BY <3>1, <3>3
  <2>7. enrToken[q.token].consumed < enrToken[q.token].allowed
    BY <1>7, <2>4 DEF TokenRefused
  <2>8. EnrUsesCount'
    <3>1. \A u \in EnrTokens : EnrVia(u)' = EnrVia(u)
      BY <1>1 DEF EnrVia
    <3>2. \A u \in EnrTokens \ {q.token} : EnrOnTheWay(u)' = EnrOnTheWay(u)
      BY <1>0, <2>1, <2>2 DEF EnrOnTheWay
    <3>3. EnrOnTheWay(q.token)' = EnrOnTheWay(q.token) \cup {q2}
      BY <1>0, <2>1, <2>2 DEF EnrOnTheWay
    <3>4. /\ Cardinality(EnrOnTheWay(q.token)') <= Cardinality(EnrOnTheWay(q.token)) + 1
          /\ Cardinality(EnrOnTheWay(q.token)') \in Nat
      <4>1. IsFiniteSet(EnrOnTheWay(q.token))
        BY EnrSetsCounted DEF EnrInv
      <4>2. QED BY <1>3, <3>3, <4>1, EnrGrowsByOne
    <3>5. /\ Cardinality(EnrVia(q.token)) + Cardinality(EnrOnTheWay(q.token))
               <= enrToken[q.token].consumed
      BY <1>0, <2>4 DEF EnrInv, EnrUsesCount
    <3>6. /\ Cardinality(EnrVia(q.token)') + Cardinality(EnrOnTheWay(q.token)')
               <= enrToken'[q.token].consumed
          /\ enrToken'[q.token].consumed <= enrToken'[q.token].allowed
      BY <1>0, <1>3, <2>4, <2>7, <3>1, <3>4, <3>5
    <3>7. \A u \in EnrTokens \ {q.token} : enrToken'[u].minted =>
             /\ Cardinality(EnrVia(u)') + Cardinality(EnrOnTheWay(u)') <= enrToken'[u].consumed
             /\ enrToken'[u].consumed <= enrToken'[u].allowed
      BY <2>4, <3>1, <3>2 DEF EnrInv, EnrUsesCount
    <3>8. QED BY <3>6, <3>7 DEF EnrUsesCount
  <2>9. EnrHostCount'
    <3>1. ASSUME NEW h \in EnrHosts
          PROVE  /\ Cardinality(EnrOpen(h)') <= Cardinality(EnrOpen(h))
                 /\ Cardinality(EnrOpen(h)') \in Nat
                 /\ EnrHoping(h)' = EnrHoping(h)
      <4>1. EnrOpen(h)' = EnrOpen(h) \/ (q \in EnrOpen(h) /\ EnrOpen(h)' = (EnrOpen(h) \ {q}) \cup {q2})
        BY <1>0, <2>1, <2>2 DEF EnrOpen
      <4>2. Cardinality(EnrOpen(h)') <= Cardinality(EnrOpen(h)) /\ Cardinality(EnrOpen(h)') \in Nat
        <5>1. IsFiniteSet(EnrOpen(h)) /\ Cardinality(EnrOpen(h)') \in Nat
          BY <2>5, EnrSetsCounted, EnrSetsCountedNext DEF EnrInv
        <5>2. CASE EnrOpen(h)' = EnrOpen(h)
          BY <1>3, <5>2
        <5>3. CASE q \in EnrOpen(h) /\ EnrOpen(h)' = (EnrOpen(h) \ {q}) \cup {q2}
          <6>1. Cardinality((EnrOpen(h) \ {q}) \cup {q2}) <= Cardinality(EnrOpen(h))
            BY <5>1, <5>3, EnrSwapCounts
          <6>2. QED BY <5>1, <5>3, <6>1
        <5>4. QED BY <4>1, <5>2, <5>3
      <4>3. EnrHoping(h)' = EnrHoping(h)
        BY <1>0, <2>1, <2>2 DEF EnrHoping
      <4>4. QED BY <4>2, <4>3
    <3>2. enrFaults \in Nat
      BY DEF EnrInv, EnrTyped
    <3>3. QED BY <1>1, <1>3, <1>4, <1>5, <2>5, <3>1, <3>2, EnrHostCountKept
  <2>10. QED BY <2>3, <2>5, <2>6, <2>8, <2>9 DEF EnrInv
<1>8. QED BY <1>6, <1>7

(* The use becomes an agent: what was counted on the way is counted there. *)
LEMMA EnrollAgentStep ==
  ASSUME EnrInv, NEW q \in enrReq, EnrollAgent(q)
  PROVE  EnrInv'
<1>0. /\ q \in EnrRequest /\ q.pc = "create" /\ q.token \in EnrTokens /\ q.run \in EnrRuns
      /\ q.estate = enrMint[q.token].estate /\ enrMint[q.token].pc = "given"
      /\ EnrHost[q.run] \in EnrHosts
  BY DEF EnrollAgent, EnrInv, EnrTyped, EnrTokenScoped, EnrRequest, EnrHosts
<1>1. UNCHANGED <<enrToken, enrMint, enrRun, enrState, enrFaults>> /\ enrFaults \in Nat
  BY DEF EnrollAgent, EnrInv, EnrTyped
<1>2. /\ IsFiniteSet(enrAgents) /\ Cardinality(enrAgents) \in Nat
      /\ \A t : /\ IsFiniteSet(EnrVia(t)) /\ Cardinality(EnrVia(t)) \in Nat
                /\ IsFiniteSet(EnrOnTheWay(t)) /\ Cardinality(EnrOnTheWay(t)) \in Nat
      /\ \A h : /\ IsFiniteSet(EnrOn(h)) /\ Cardinality(EnrOn(h)) \in Nat
                /\ IsFiniteSet(EnrOpen(h)) /\ Cardinality(EnrOpen(h)) \in Nat
  BY EnrSetsCounted, FS_CardinalityType DEF EnrInv, EnrTyped
<1> DEFINE id == Cardinality(enrAgents) + 1
           new == [id |-> id, host |-> EnrHost[q.run], via |-> q.token,
                   allow |-> q.contain, optIn |-> q.optIn, estate |-> q.estate]
           q2 == [q EXCEPT !.pc = "answer", !.agent = id]
<1>3. id \in Nat /\ id # 0
  BY <1>2
<1>4. enrAgents' = enrAgents \cup {new} /\ enrReq' = (enrReq \ {q}) \cup {q2}
  BY DEF EnrollAgent
<1> HIDE DEF id
<1>5. /\ new \in EnrAgent /\ new.host = EnrHost[q.run] /\ new.via = q.token /\ new.estate = q.estate
  BY <1>0, <1>3 DEF EnrAgent, EnrRequest
<1>6. /\ q2 \in EnrRequest /\ q2.slot = q.slot /\ q2.run = q.run /\ q2.token = q.token
      /\ q2.waits = q.waits /\ q2.pc = "answer" /\ q2.agent # 0
  BY <1>0, <1>3 DEF EnrRequest
<1> HIDE DEF new, q2
<1>7. /\ enrReq' \subseteq EnrRequest /\ IsFiniteSet(enrReq') /\ EnrOneEach'
      /\ \A p \in enrReq' :
            /\ enrMint'[p.token].pc = "given"
            /\ p.pc = "create" => p.estate = enrMint'[p.token].estate
  BY <1>1, <1>4, <1>6, EnrRequestGoes
<1>8. EnrTyped'
  BY <1>1, <1>2, <1>4, <1>5, <1>7, FS_AddElement DEF EnrInv, EnrTyped
<1>9. EnrScoped' /\ EnrTokenScoped'
  <2>1. EnrScoped'
    BY <1>0, <1>1, <1>4, <1>5 DEF EnrInv, EnrScoped
  <2>2. EnrTokenScoped'
    BY <1>0, <1>1, <1>4, <1>5, <1>7 DEF EnrInv, EnrTokenScoped
  <2>3. QED BY <2>1, <2>2
<1>10. EnrUsesCount'
  <2>1. \A u \in EnrTokens \ {q.token} : EnrVia(u)' = EnrVia(u) /\ EnrOnTheWay(u)' = EnrOnTheWay(u)
    BY <1>0, <1>4, <1>5, <1>6 DEF EnrVia, EnrOnTheWay
  <2>2. EnrVia(q.token)' = EnrVia(q.token) \cup {new}
    BY <1>4, <1>5 DEF EnrVia
  <2>3. EnrOnTheWay(q.token)' = EnrOnTheWay(q.token) \ {q} /\ q \in EnrOnTheWay(q.token)
    BY <1>0, <1>4, <1>6 DEF EnrOnTheWay
  <2>4. /\ Cardinality(EnrVia(q.token)') <= Cardinality(EnrVia(q.token)) + 1
        /\ Cardinality(EnrVia(q.token)') \in Nat
    BY <1>2, <2>2, EnrGrowsByOne
  <2>5. Cardinality(EnrOnTheWay(q.token)') = Cardinality(EnrOnTheWay(q.token)) - 1
    BY <1>2, <2>3, FS_RemoveElement
  <2>6. enrToken[q.token].minted /\ enrToken[q.token].consumed \in Nat
    <3>1. enrToken[q.token].minted
      BY <1>0 DEF EnrInv, EnrTyped, EnrTokenScoped, EnrRow, EnrUnminted
    <3>2. QED BY <1>0, <3>1, EnrMintedRow
  <2>7. /\ Cardinality(EnrVia(q.token)) + Cardinality(EnrOnTheWay(q.token)) <= enrToken[q.token].consumed
        /\ enrToken[q.token].consumed <= enrToken[q.token].allowed
    BY <1>0, <2>6 DEF EnrInv, EnrUsesCount
  <2>8. Cardinality(EnrVia(q.token)') + Cardinality(EnrOnTheWay(q.token)') <= enrToken[q.token].consumed
    BY <1>2, <2>4, <2>5, <2>6, <2>7
  <2>9. QED BY <1>1, <2>1, <2>7, <2>8 DEF EnrInv, EnrUsesCount
<1>11. EnrHostCount'
  <2>1. ASSUME NEW h \in EnrHosts
        PROVE  /\ Cardinality(EnrOn(h)') + Cardinality(EnrOpen(h)')
                     <= Cardinality(EnrOn(h)) + Cardinality(EnrOpen(h))
               /\ Cardinality(EnrOn(h)') \in Nat /\ Cardinality(EnrOpen(h)') \in Nat
               /\ EnrHoping(h)' = EnrHoping(h)
    <3>1. EnrHoping(h)' = EnrHoping(h)
      BY <1>0, <1>4, <1>6 DEF EnrHoping
    <3>2. CASE EnrHost[q.run] = h
      <4>1. EnrOn(h)' = EnrOn(h) \cup {new}
        BY <1>4, <1>5, <3>2 DEF EnrOn
      <4>2. EnrOpen(h)' = EnrOpen(h) \ {q} /\ q \in EnrOpen(h)
        BY <1>0, <1>4, <1>6, <3>2 DEF EnrOpen
      <4>3. Cardinality(EnrOn(h)') <= Cardinality(EnrOn(h)) + 1 /\ Cardinality(EnrOn(h)') \in Nat
        BY <1>2, <4>1, EnrGrowsByOne
      <4>4. Cardinality(EnrOpen(h)') = Cardinality(EnrOpen(h)) - 1 /\ Cardinality(EnrOpen(h)') \in Nat
        BY <1>2, <4>2, FS_RemoveElement, FS_CardinalityType
      <4>5. QED BY <1>2, <3>1, <4>3, <4>4
    <3>3. CASE EnrHost[q.run] # h
      <4>1. EnrOn(h)' = EnrOn(h)
        BY <1>4, <1>5, <3>3 DEF EnrOn
      <4>2. EnrOpen(h)' = EnrOpen(h)
        BY <1>4, <1>6, <3>3 DEF EnrOpen
      <4>3. QED BY <1>2, <3>1, <4>1, <4>2
    <3>4. QED BY <3>2, <3>3
  <2>2. \A h \in EnrHosts : Cardinality(EnrHoping(h)) \in Nat
    BY EnrHostsCounted
  <2>3. QED BY <1>1, <1>2, <1>8, <2>1, <2>2, EnrHostCountKept
<1>12. QED BY <1>7, <1>8, <1>9, <1>10, <1>11 DEF EnrInv

(* A fault: a use is spent for nothing, or nobody waits any more. *)
LEMMA EnrFaultStep ==
  ASSUME EnrInv, NEW q \in enrReq, EnrollAgentFails(q) \/ EnrollFails(q)
  PROVE  EnrInv'
<1>0. /\ q \in EnrRequest /\ q.token \in EnrTokens /\ q.run \in EnrRuns
      /\ q.pc = "create" => q.estate = enrMint[q.token].estate
      /\ q.pc = "answer" => q.agent # 0
  BY DEF EnrInv, EnrTyped, EnrTokenScoped, EnrOneEach, EnrRequest
<1>1. /\ UNCHANGED <<enrToken, enrMint, enrAgents, enrState>>
      /\ enrFaults \in Nat /\ enrFaults' = enrFaults + 1
      /\ enrRun' \in [EnrRuns -> {"idle", "asking", "running"}]
      /\ \A o \in EnrRuns \ {q.run} : enrRun'[o] = enrRun[o]
  BY <1>0 DEF EnrollAgentFails, EnrollFails, EnrFault, EnrInv, EnrTyped
<1>2. PICK q2 \in EnrRequest :
         /\ q2.slot = q.slot /\ q2.run = q.run /\ q2.token = q.token /\ q2.estate = q.estate
         /\ q2.agent = q.agent /\ q2.pc \in {q.pc, "refuse"} /\ (q2.waits => q.waits)
         /\ ~q.waits \/ q2.waits => enrRun'[q.run] = enrRun[q.run]
         /\ enrReq' = (enrReq \ {q}) \cup {q2}
  <2>1. CASE EnrollAgentFails(q)
    <3> DEFINE q2 == [q EXCEPT !.pc = "refuse"]
    <3>1. /\ q2 \in EnrRequest /\ q2.slot = q.slot /\ q2.run = q.run /\ q2.token = q.token
          /\ q2.estate = q.estate /\ q2.agent = q.agent /\ q2.pc = "refuse" /\ q2.waits = q.waits
      BY <1>0 DEF EnrRequest
    <3>2. enrReq' = (enrReq \ {q}) \cup {q2} /\ UNCHANGED enrRun
      BY <2>1 DEF EnrollAgentFails, EnrGoes
    <3>3. QED BY <3>1, <3>2
  <2>2. CASE EnrollFails(q)
    <3> DEFINE q2 == [q EXCEPT !.waits = FALSE]
    <3>1. /\ q2 \in EnrRequest /\ q2.slot = q.slot /\ q2.run = q.run /\ q2.token = q.token
          /\ q2.estate = q.estate /\ q2.agent = q.agent /\ q2.pc = q.pc /\ ~q2.waits
      BY <1>0 DEF EnrRequest
    <3>2. enrReq' = (enrReq \ {q}) \cup {q2} /\ q.waits
      BY <2>2 DEF EnrollFails
    <3>3. QED BY <3>1, <3>2
  <2>3. QED BY <2>1, <2>2
<1>3. /\ enrReq' \subseteq EnrRequest /\ IsFiniteSet(enrReq') /\ EnrOneEach'
      /\ \A p \in enrReq' :
            /\ enrMint'[p.token].pc = "given"
            /\ p.pc = "create" => p.estate = enrMint'[p.token].estate
  <2>1. q2.pc = "answer" => q2.agent # 0
    BY <1>0, <1>2
  <2>2. q2.pc = "create" => q2.estate = enrMint[q.token].estate
    BY <1>0, <1>2
  <2>3. QED BY <1>1, <1>2, <2>1, <2>2, EnrRequestGoes
<1>4. EnrTyped'
  BY <1>1, <1>3 DEF EnrInv, EnrTyped
<1>5. EnrScoped' /\ EnrTokenScoped'
  <2>1. EnrScoped'
    BY <1>1 DEF EnrInv, EnrScoped
  <2>2. EnrTokenScoped'
    BY <1>1, <1>3 DEF EnrInv, EnrTokenScoped
  <2>3. QED BY <2>1, <2>2
<1>6. /\ \A t : /\ IsFiniteSet(EnrOnTheWay(t)) /\ Cardinality(EnrOnTheWay(t)) \in Nat
                /\ Cardinality(EnrVia(t)) \in Nat /\ Cardinality(EnrOnTheWay(t)') \in Nat
      /\ \A h : /\ IsFiniteSet(EnrOpen(h)) /\ Cardinality(EnrOpen(h)) \in Nat
                /\ Cardinality(EnrOn(h)) \in Nat /\ Cardinality(EnrOpen(h)') \in Nat
  BY <1>4, EnrSetsCounted, EnrSetsCountedNext DEF EnrInv
<1>7. EnrUsesCount'
  <2>1. ASSUME NEW u \in EnrTokens
        PROVE  /\ EnrVia(u)' = EnrVia(u)
               /\ Cardinality(EnrOnTheWay(u)') <= Cardinality(EnrOnTheWay(u))
    <3>1. EnrVia(u)' = EnrVia(u)
      BY <1>1 DEF EnrVia
    <3>2. \/ EnrOnTheWay(u)' \subseteq EnrOnTheWay(u)
          \/ q \in EnrOnTheWay(u) /\ EnrOnTheWay(u)' = (EnrOnTheWay(u) \ {q}) \cup {q2}
      BY <1>2 DEF EnrOnTheWay
    <3>3. CASE EnrOnTheWay(u)' \subseteq EnrOnTheWay(u)
      BY <1>6, <3>1, <3>3, FS_Subset
    <3>4. CASE q \in EnrOnTheWay(u) /\ EnrOnTheWay(u)' = (EnrOnTheWay(u) \ {q}) \cup {q2}
      <4>1. Cardinality((EnrOnTheWay(u) \ {q}) \cup {q2}) <= Cardinality(EnrOnTheWay(u))
        BY <1>6, <3>4, EnrSwapCounts
      <4>2. QED BY <3>1, <3>4, <4>1
    <3>5. QED BY <3>2, <3>3, <3>4
  <2> SUFFICES ASSUME NEW u \in EnrTokens, enrToken[u].minted
               PROVE  /\ Cardinality(EnrVia(u)') + Cardinality(EnrOnTheWay(u)') <= enrToken[u].consumed
                      /\ enrToken[u].consumed <= enrToken[u].allowed
    BY <1>1 DEF EnrUsesCount
  <2>2. enrToken[u].consumed \in Nat
    BY EnrMintedRow
  <2>3. /\ Cardinality(EnrVia(u)) + Cardinality(EnrOnTheWay(u)) <= enrToken[u].consumed
        /\ enrToken[u].consumed <= enrToken[u].allowed
    BY DEF EnrInv, EnrUsesCount
  <2>4. QED BY <1>6, <2>1, <2>2, <2>3
<1>8. EnrHostCount'
  <2>1. ASSUME NEW h \in EnrHosts
        PROVE  /\ EnrOn(h)' = EnrOn(h)
               /\ Cardinality(EnrOpen(h)') <= Cardinality(EnrOpen(h))
               /\ Cardinality(EnrHoping(h)) <= Cardinality(EnrHoping(h)') + 1
    <3>1. EnrOn(h)' = EnrOn(h)
      BY <1>1 DEF EnrOn
    <3>2. \/ EnrOpen(h)' \subseteq EnrOpen(h)
          \/ q \in EnrOpen(h) /\ EnrOpen(h)' = (EnrOpen(h) \ {q}) \cup {q2}
      BY <1>2 DEF EnrOpen
    <3>3. Cardinality(EnrOpen(h)') <= Cardinality(EnrOpen(h))
      <4>1. CASE EnrOpen(h)' \subseteq EnrOpen(h)
        BY <1>6, <4>1, FS_Subset
      <4>2. CASE q \in EnrOpen(h) /\ EnrOpen(h)' = (EnrOpen(h) \ {q}) \cup {q2}
        <5>1. Cardinality((EnrOpen(h) \ {q}) \cup {q2}) <= Cardinality(EnrOpen(h))
          BY <1>6, <4>2, EnrSwapCounts
        <5>2. QED BY <4>2, <5>1
      <4>3. QED BY <3>2, <4>1, <4>2
    <3>4. EnrHoping(h) \ {q.run} \subseteq EnrHoping(h)'
      BY <1>2 DEF EnrHoping
    <3>5. QED BY <3>1, <3>3, <3>4, EnrHopingFalls
  <2>2. \A h \in EnrHosts : Cardinality(EnrHoping(h)) \in Nat /\ Cardinality(EnrHoping(h)') \in Nat
    BY EnrHostsCounted
  <2>3. QED BY <1>1, <1>4, <1>6, <2>1, <2>2, EnrHostCountKept
<1>9. QED BY <1>3, <1>4, <1>5, <1>7, <1>8 DEF EnrInv

(* The request is over: a run it answered is running, and its host has a
   credential. *)
LEMMA EnrAnswerStep ==
  ASSUME EnrInv, NEW q \in enrReq, EnrAnswer(q)
  PROVE  EnrInv'
<1>0. /\ q \in EnrRequest /\ q.run \in EnrRuns /\ q.pc \in {"refuse", "answer"}
      /\ q.pc = "answer" => q.agent # 0
      /\ q.agent \in Nat /\ EnrHost[q.run] \in EnrHosts
  BY DEF EnrAnswer, EnrInv, EnrTyped, EnrOneEach, EnrRequest, EnrHosts
<1>1. /\ UNCHANGED <<enrToken, enrMint, enrAgents, enrFaults>> /\ enrReq' = enrReq \ {q}
  BY DEF EnrAnswer, EnrEnds
<1>2. /\ enrRun' \in [EnrRuns -> {"idle", "asking", "running"}]
      /\ enrState' \in [EnrHosts -> Nat]
      /\ \A o \in EnrRuns \ {q.run} : enrRun'[o] = enrRun[o]
      /\ ~q.waits => enrRun' = enrRun /\ enrState' = enrState
      /\ \A h \in EnrHosts : enrState'[h] = 0 =>
            /\ enrState[h] = 0
            /\ EnrHost[q.run] = h => ~q.waits \/ q.pc = "refuse"
  BY <1>0 DEF EnrAnswer, EnrInv, EnrTyped
<1>3. EnrTyped'
  BY <1>1, <1>2, FS_RemoveElement DEF EnrInv, EnrTyped
<1>4. EnrOneEach'
  <2>1. \A p \in enrReq' : p.waits => enrRun'[p.run] = "asking"
    <3> SUFFICES ASSUME NEW p \in enrReq \ {q}, p.waits PROVE enrRun'[p.run] = "asking"
      BY <1>1
    <3>1. enrRun[p.run] = "asking" /\ p.run \in EnrRuns
      BY DEF EnrInv, EnrOneEach, EnrTyped, EnrRequest
    <3>2. q.waits => p.run # q.run
      BY DEF EnrInv, EnrOneEach
    <3>3. QED BY <1>2, <3>1, <3>2
  <2>2. QED BY <1>1, <2>1 DEF EnrInv, EnrOneEach
<1>5. EnrScoped' /\ EnrTokenScoped'
  <2>1. EnrScoped'
    BY <1>1 DEF EnrInv, EnrScoped
  <2>2. EnrTokenScoped'
    BY <1>1 DEF EnrInv, EnrTokenScoped
  <2>3. QED BY <2>1, <2>2
<1>6. EnrUsesCount'
  <2>1. \A u \in EnrTokens : EnrVia(u)' = EnrVia(u) /\ EnrOnTheWay(u)' = EnrOnTheWay(u)
    BY <1>0, <1>1 DEF EnrVia, EnrOnTheWay
  <2>2. QED BY <1>1, <2>1 DEF EnrInv, EnrUsesCount
<1>7. EnrHostCount'
  <2>1. \A h \in EnrHosts : EnrOn(h)' = EnrOn(h) /\ EnrOpen(h)' = EnrOpen(h)
    BY <1>0, <1>1 DEF EnrOn, EnrOpen
  <2>2. ASSUME NEW h \in EnrHosts, enrState'[h] = 0
        PROVE  enrState[h] = 0 /\ EnrHoping(h)' = EnrHoping(h)
    BY <1>1, <1>2, <2>2 DEF EnrHoping
  <2>3. /\ \A h : Cardinality(EnrOn(h)) \in Nat /\ Cardinality(EnrOpen(h)) \in Nat
        /\ \A h \in EnrHosts : Cardinality(EnrHoping(h)) \in Nat
        /\ enrFaults \in Nat
    BY EnrSetsCounted, EnrHostsCounted DEF EnrInv, EnrTyped
  <2>4. QED BY <1>1, <1>3, <2>1, <2>2, <2>3, EnrHostCountKept
<1>8. QED BY <1>3, <1>4, <1>5, <1>6, <1>7 DEF EnrInv

-----------------------------------------------------------------------------
\* Every step keeps EnrInv.
LEMMA EnrStep == EnrInv /\ [EnrNext]_enrVars => EnrInv'
<1> SUFFICES ASSUME EnrInv, [EnrNext]_enrVars PROVE EnrInv'
  OBVIOUS
<1>1. CASE UNCHANGED enrVars
  <2>1. EnrTyped' /\ EnrOneEach' /\ EnrScoped' /\ EnrTokenScoped'
    BY <1>1 DEF EnrInv, EnrTyped, EnrOneEach, EnrScoped, EnrTokenScoped, enrVars
  <2>2. EnrUsesCount'
    BY <1>1 DEF EnrInv, EnrUsesCount, EnrVia, EnrOnTheWay, enrVars
  <2>3. EnrHostCount'
    BY <1>1, EnrCountsStay DEF EnrInv, EnrTyped, enrVars
  <2>4. QED BY <2>1, <2>2, <2>3 DEF EnrInv
<1>2. ASSUME NEW t \in EnrTokens,
             \/ \E uses \in EnrUses, e \in EnrEstates : GenerateInstaller(t, uses, e)
             \/ \E uses \in EnrUses, contain \in BOOLEAN, e \in EnrEstates \cup {0} :
                   CreateToken(t, uses, contain, e)
             \/ SetTokenEstate(t) \/ StampInstaller(t) \/ MintFails(t) \/ RevokeEnrollToken(t)
      PROVE  EnrInv'
  <2>1. EnrMinted(t)
    BY <1>2, EnrMintTypes
  <2>2. QED BY <2>1, EnrMintStep
<1>3. ASSUME NEW r \in EnrRuns,
             \/ ReuseCredential(r) \/ EnrStop(r)
             \/ \E t \in EnrTokens, optIn \in BOOLEAN : Enroll(r, t, optIn)
      PROVE  EnrInv'
  BY <1>3, EnrRunStep, EnrollStep
<1>4. ASSUME NEW q \in enrReq,
             \/ ConsumeEnrollToken(q) \/ EnrollAgent(q) \/ EnrollAgentFails(q)
             \/ EnrAnswer(q) \/ EnrollFails(q)
      PROVE  EnrInv'
  BY <1>4, EnrConsumeStep, EnrollAgentStep, EnrFaultStep, EnrAnswerStep
<1>5. QED BY <1>1, <1>2, <1>3, <1>4 DEF EnrNext

\* EnrInv implies what enrollment promises.
LEMMA EnrInvSafe == EnrInv => EnrSafe
<1> SUFFICES ASSUME EnrInv PROVE EnrSafe
  OBVIOUS
<1>1. EnrUsesBound
  <2> SUFFICES ASSUME NEW t \in EnrTokens, enrToken[t].minted
               PROVE  Cardinality(EnrVia(t)) + Cardinality(EnrOnTheWay(t)) <= enrToken[t].allowed
    BY DEF EnrUsesBound, EnrVia, EnrOnTheWay
  <2>1. enrToken[t].consumed \in Nat /\ enrToken[t].allowed \in Nat
    BY EnrMintedRow
  <2>2. Cardinality(EnrVia(t)) \in Nat /\ Cardinality(EnrOnTheWay(t)) \in Nat
    BY EnrSetsCounted DEF EnrInv
  <2>3. /\ Cardinality(EnrVia(t)) + Cardinality(EnrOnTheWay(t)) <= enrToken[t].consumed
        /\ enrToken[t].consumed <= enrToken[t].allowed
    BY DEF EnrInv, EnrUsesCount
  <2>4. QED BY <2>1, <2>2, <2>3
<1>2. EnrIdempotent
  <2> SUFFICES ASSUME NEW h \in EnrHosts
               PROVE  Cardinality(EnrOn(h)) <= Cardinality(EnrRunsOn(h)) + enrFaults
    BY DEF EnrIdempotent, EnrOn, EnrRunsOn
  <2>1. /\ Cardinality(EnrOn(h)) \in Nat /\ Cardinality(EnrOpen(h)) \in Nat
        /\ Cardinality(EnrRunsOn(h)) \in Nat /\ enrFaults \in Nat
    BY EnrSetsCounted, EnrHostsCounted DEF EnrInv, EnrTyped
  <2>2. Cardinality(EnrOn(h)) + Cardinality(EnrOpen(h)) <= Cardinality(EnrRunsOn(h)) + enrFaults
    BY DEF EnrInv, EnrHostCount
  <2>3. QED BY <2>1, <2>2
<1>3. QED BY <1>1, <1>2 DEF EnrInv, EnrSafe

(* ingest.go, store.go and installer.go: a token brings in no more agents than
   it has uses, a host becomes no more agents than it had runs and faults, and
   each lands with the customer of its token. *)
THEOREM EnrSafety == EnrSpec => []EnrSafe
<1>1. EnrSpec => []EnrInv
  BY EnrInitInv, EnrStep, PTL DEF EnrSpec
<1>2. QED BY <1>1, EnrInvSafe, PTL

(* Agents are numbered as they come; nobody holds a number beyond the last. *)
EnrNumbered ==
    /\ Cardinality(enrAgents) <= EnrMaxAgents /\ enrFaults <= EnrMaxFaults
    /\ \A q \in enrReq : q.agent <= EnrMaxAgents
    /\ \A h \in EnrHosts : enrState[h] <= EnrMaxAgents

\* Every step keeps the numbers of agents and faults within their bounds.
LEMMA EnrNumberedStep == EnrTyped /\ EnrNumbered /\ [EnrNext]_enrVars => EnrNumbered'
<1> SUFFICES ASSUME EnrTyped, EnrNumbered, [EnrNext]_enrVars PROVE EnrNumbered'
  OBVIOUS
<1>0. /\ EnrMaxAgents \in Nat /\ EnrMaxFaults \in Nat /\ enrFaults \in Nat
      /\ \A n \in Nat : n < EnrMaxFaults => n + 1 <= EnrMaxFaults
  BY EnrConstantsAssumption DEF EnrTyped
<1>1. enrFaults' <= EnrMaxFaults
  <2>1. ASSUME NEW t \in EnrTokens,
               \/ \E uses \in EnrUses, e \in EnrEstates : GenerateInstaller(t, uses, e)
               \/ \E uses \in EnrUses, contain \in BOOLEAN, e \in EnrEstates \cup {0} :
                     CreateToken(t, uses, contain, e)
               \/ SetTokenEstate(t) \/ StampInstaller(t) \/ MintFails(t) \/ RevokeEnrollToken(t)
        PROVE  enrFaults' = enrFaults \/ EnrFault
    BY <2>1
    DEF GenerateInstaller, CreateToken, SetTokenEstate, StampInstaller, MintFails, RevokeEnrollToken
  <2>2. ASSUME NEW r \in EnrRuns,
               \/ ReuseCredential(r) \/ EnrStop(r)
               \/ \E t \in EnrTokens, optIn \in BOOLEAN : Enroll(r, t, optIn)
        PROVE  enrFaults' = enrFaults
    BY <2>2 DEF ReuseCredential, EnrStop, Enroll
  <2>3. ASSUME NEW q \in enrReq, ConsumeEnrollToken(q) PROVE enrFaults' = enrFaults
    BY <2>3 DEF ConsumeEnrollToken
  <2>4. ASSUME NEW q \in enrReq,
               EnrollAgent(q) \/ EnrollAgentFails(q) \/ EnrAnswer(q) \/ EnrollFails(q)
        PROVE  enrFaults' = enrFaults \/ EnrFault
    BY <2>4 DEF EnrollAgent, EnrollAgentFails, EnrAnswer, EnrollFails
  <2>5. enrFaults' = enrFaults \/ EnrFault
    BY <2>1, <2>2, <2>3, <2>4 DEF EnrNext, enrVars
  <2>6. QED BY <1>0, <2>5 DEF EnrNumbered, EnrFault
<1>2. ASSUME NEW q \in enrReq, EnrollAgent(q) PROVE EnrNumbered'
  <2> DEFINE id == Cardinality(enrAgents) + 1
  <2>1. \E a : enrAgents' = enrAgents \cup {a}
    BY <1>2 DEF EnrollAgent
  <2>2. Cardinality(enrAgents') \in Nat /\ Cardinality(enrAgents') <= id
    BY <2>1, EnrGrowsByOne DEF EnrTyped
  <2>3. Cardinality(enrAgents) \in Nat /\ Cardinality(enrAgents) < EnrMaxAgents
    BY <1>2, FS_CardinalityType DEF EnrTyped, EnrollAgent
  <2>4. id \in Nat /\ id <= EnrMaxAgents
    BY ONLY <1>0, <2>3
  <2>5. Cardinality(enrAgents') <= EnrMaxAgents
    BY ONLY <1>0, <2>2, <2>4
  <2>6. /\ enrReq' = (enrReq \ {q}) \cup {[q EXCEPT !.pc = "answer", !.agent = id]}
        /\ enrState' = enrState
    BY <1>2 DEF EnrollAgent
  <2>7. q \in EnrRequest
    BY DEF EnrTyped
  <2> HIDE DEF id
  <2>8. [q EXCEPT !.pc = "answer", !.agent = id].agent = id
    BY <2>7 DEF EnrRequest
  <2>9. QED BY <1>1, <2>4, <2>5, <2>6, <2>8 DEF EnrNumbered
<1>3. ASSUME NEW q \in enrReq, EnrAnswer(q) PROVE EnrNumbered'
  <2>1. \A h \in EnrHosts : enrState'[h] = enrState[h] \/ enrState'[h] = q.agent
    BY <1>3 DEF EnrTyped, EnrAnswer
  <2>2. enrReq' \subseteq enrReq /\ enrAgents' = enrAgents
    BY <1>3 DEF EnrAnswer, EnrEnds
  <2>3. QED BY <1>1, <2>1, <2>2 DEF EnrNumbered
<1>4. ASSUME NEW r \in EnrRuns, NEW t \in EnrTokens, NEW optIn \in BOOLEAN, Enroll(r, t, optIn)
      PROVE  EnrNumbered'
  <2>1. \E slot \in EnrSlots : enrReq' = enrReq \cup
           {[slot |-> slot, run |-> r, waits |-> TRUE, pc |-> "consume", token |-> t,
             optIn |-> optIn, contain |-> FALSE, estate |-> 0, agent |-> 0]}
    BY <1>4 DEF Enroll
  <2>2. \A q \in enrReq' : q \in enrReq \/ q.agent = 0
    BY <2>1
  <2>3. UNCHANGED <<enrAgents, enrState>>
    BY <1>4 DEF Enroll
  <2>4. QED BY <1>0, <1>1, <2>2, <2>3 DEF EnrNumbered
<1>5. ASSUME UNCHANGED <<enrAgents, enrState>>,
             \A q \in enrReq' : \E p \in enrReq : q.agent = p.agent
      PROVE  EnrNumbered'
  BY <1>1, <1>5 DEF EnrNumbered
<1>6. ASSUME NEW q \in enrReq, ConsumeEnrollToken(q) \/ EnrollAgentFails(q) \/ EnrollFails(q)
      PROVE  EnrNumbered'
  <2>1. q \in EnrRequest
    BY DEF EnrTyped
  <2>2. \E p : p.agent = q.agent /\ enrReq' = (enrReq \ {q}) \cup {p}
    <3>1. CASE ConsumeEnrollToken(q) /\ ~TokenRefused(q.token)
      <4> DEFINE p == [q EXCEPT !.pc = "create", !.contain = enrToken[q.token].contain,
                                !.estate = enrToken[q.token].estate]
      <4>1. p.agent = q.agent
        BY <2>1 DEF EnrRequest
      <4>2. enrReq' = (enrReq \ {q}) \cup {p}
        BY <3>1 DEF ConsumeEnrollToken
      <4>3. QED BY <4>1, <4>2
    <3>2. CASE EnrGoes(q, "refuse")
      <4>1. [q EXCEPT !.pc = "refuse"].agent = q.agent
        BY <2>1 DEF EnrRequest
      <4>2. QED BY <3>2, <4>1 DEF EnrGoes
    <3>3. CASE EnrollFails(q)
      <4>1. [q EXCEPT !.waits = FALSE].agent = q.agent
        BY <2>1 DEF EnrRequest
      <4>2. QED BY <3>3, <4>1 DEF EnrollFails
    <3>4. QED BY <1>6, <3>1, <3>2, <3>3 DEF ConsumeEnrollToken, EnrollAgentFails
  <2>3. UNCHANGED <<enrAgents, enrState>>
    BY <1>6 DEF ConsumeEnrollToken, EnrollAgentFails, EnrollFails
  <2>4. QED BY <1>5, <2>2, <2>3
<1>7. CASE UNCHANGED <<enrAgents, enrState, enrReq>>
  BY <1>5, <1>7
<1>8. ASSUME NEW t \in EnrTokens,
             \/ \E uses \in EnrUses, e \in EnrEstates : GenerateInstaller(t, uses, e)
             \/ \E uses \in EnrUses, contain \in BOOLEAN, e \in EnrEstates \cup {0} :
                   CreateToken(t, uses, contain, e)
             \/ SetTokenEstate(t) \/ StampInstaller(t) \/ MintFails(t) \/ RevokeEnrollToken(t)
      PROVE  EnrNumbered'
  BY <1>7, <1>8
  DEF GenerateInstaller, CreateToken, SetTokenEstate, StampInstaller, MintFails, RevokeEnrollToken
<1>9. ASSUME NEW r \in EnrRuns, ReuseCredential(r) \/ EnrStop(r) PROVE EnrNumbered'
  BY <1>7, <1>9 DEF ReuseCredential, EnrStop
<1>10. QED BY <1>2, <1>3, <1>4, <1>6, <1>7, <1>8, <1>9 DEF EnrNext, enrVars

(* What enrollment keeps has its type, agents and faults within their bounds
   (store.go, client.go). *)
THEOREM EnrTyping == EnrSpec => []EnrTypeOK
<1>1. EnrInit => EnrNumbered
  BY FS_EmptySet, EnrConstantsAssumption DEF EnrInit, EnrNumbered
<1>2. EnrSpec => []EnrInv
  BY EnrInitInv, EnrStep, PTL DEF EnrSpec
<1>3. EnrInv => EnrTyped
  BY DEF EnrInv
<1>4. EnrSpec => []EnrNumbered
  BY <1>1, <1>2, <1>3, EnrNumberedStep, PTL DEF EnrSpec
<1>5. EnrInv /\ EnrNumbered => EnrTypeOK
  <2> SUFFICES ASSUME EnrInv, EnrNumbered PROVE EnrTypeOK
    OBVIOUS
  <2>1. EnrTyped /\ EnrMaxAgents \in Nat /\ EnrMaxFaults \in Nat
    BY EnrConstantsAssumption DEF EnrInv
  <2>2. \A t \in EnrTokens :
           enrToken[t].minted => enrToken[t].consumed \in Nat /\ enrToken[t].allowed \in EnrUses
    BY EnrMintedRow DEF EnrRow
  <2>3. enrState \in [EnrHosts -> 0..EnrMaxAgents] /\ enrFaults \in 0..EnrMaxFaults
    BY <2>1 DEF EnrTyped, EnrNumbered
  <2>4. /\ \A a \in enrAgents : a.via \in EnrTokens /\ a.estate \in EnrEstates \cup {0}
        /\ \A q \in enrReq : q.slot \in EnrSlots /\ q.run \in EnrRuns
        /\ enrRun \in [EnrRuns -> {"idle", "asking", "running"}]
    BY <2>1 DEF EnrTyped, EnrAgent, EnrRequest
  <2>5. QED BY <2>2, <2>3, <2>4 DEF EnrTypeOK
<1>6. QED BY <1>2, <1>4, <1>5, PTL

-----------------------------------------------------------------------------
(***************************************************************************)
(* The ingest of reports, for bodies of any length, any cap and any number of *)
(* handlers and failing statements.                                        *)
(***************************************************************************)

IngFindings == IngKeys \cup {IngBlank}
IngRequest ==
    [pc : {"envelope", "next", "update", "insert", "forward", "answer"},
     kind : {"report", "events"}, sent : Nat, body : Seq(IngFindings), i : Nat,
     accepted : Nat, failed : Nat, dropped : Nat]

(* The findings of a body before the i-th that are blank, and that are stored
   and forwarded. *)
IngBlankUpTo(body, i) == {k \in 1..(i - 1) : body[k] = IngBlank}
IngStoredUpTo(body, i, rows, siem) == {k \in 1..(i - 1) : body[k] \in rows \cap siem}

(* What the counters of a request say of the findings it went through. *)
IngPlace(r) ==
    /\ r.i >= 1 /\ r.i <= Len(r.body) + 1
    /\ r.pc \in {"update", "insert", "forward"} => r.i <= Len(r.body) /\ r.body[r.i] \in IngKeys
    /\ r.pc # "answer" => r.dropped = 0
    /\ r.pc = "answer" =>
          \/ r.i = Len(r.body) + 1 /\ r.dropped = 0
          \/ r.kind = "report" /\ r.i <= Len(r.body) /\ r.dropped = Len(r.body) - r.accepted
    /\ Len(r.body) = IF r.kind = "report" THEN r.sent ELSE IngWithin(r.sent)
IngCounts(r) == r.accepted + r.failed + Cardinality(IngBlankUpTo(r.body, r.i)) = r.i - 1
IngStored(r, rows, siem, faults) ==
    /\ r.pc = "forward" => r.body[r.i] \in rows
    /\ r.accepted <= Cardinality(IngStoredUpTo(r.body, r.i, rows, siem))
    /\ faults = 0 => \A k \in 1..(r.i - 1) : r.body[k] # IngBlank => r.body[k] \in rows

IngHolds(r, rows, siem, faults) == IngPlace(r) /\ IngCounts(r) /\ IngStored(r, rows, siem, faults)

IngInv ==
    /\ ingRows \subseteq IngKeys /\ ingSiem \subseteq IngKeys /\ ingFaults \in Nat
    /\ ingReq \in [IngHandlers -> {IngIdle} \cup IngRequest]
    /\ \A h \in IngHandlers :
          ingReq[h].pc # "idle" => IngHolds(ingReq[h], ingRows, ingSiem, ingFaults)

\* IngInv holds initially.
LEMMA IngInitInv == IngInit => IngInv
BY DEF IngInit, IngInv, IngIdle

\* The findings of a body before one of them are finitely many.
LEMMA IngUpToFinite ==
  ASSUME NEW body, NEW i \in Nat \ {0}, NEW rows, NEW siem
  PROVE  /\ IsFiniteSet(IngBlankUpTo(body, i)) /\ Cardinality(IngBlankUpTo(body, i)) \in Nat
         /\ IsFiniteSet(IngStoredUpTo(body, i, rows, siem))
         /\ Cardinality(IngStoredUpTo(body, i, rows, siem)) \in Nat
<1>1. IsFiniteSet(1..(i - 1))
  BY FS_Interval
<1>2. /\ IngBlankUpTo(body, i) \in SUBSET (1..(i - 1))
      /\ IngStoredUpTo(body, i, rows, siem) \in SUBSET (1..(i - 1))
  BY DEF IngBlankUpTo, IngStoredUpTo
<1>3. QED BY <1>1, <1>2, FS_Subset, FS_CardinalityType

(* One finding further. *)
LEMMA IngOneFurther ==
  ASSUME NEW body, NEW i \in Nat \ {0}, NEW rows, NEW siem
  PROVE  /\ body[i] = IngBlank =>
              Cardinality(IngBlankUpTo(body, i + 1)) = Cardinality(IngBlankUpTo(body, i)) + 1
         /\ body[i] # IngBlank =>
              Cardinality(IngBlankUpTo(body, i + 1)) = Cardinality(IngBlankUpTo(body, i))
         /\ Cardinality(IngStoredUpTo(body, i + 1, rows, siem))
               >= Cardinality(IngStoredUpTo(body, i, rows, siem))
         /\ body[i] \in rows \cap siem =>
              Cardinality(IngStoredUpTo(body, i + 1, rows, siem))
                 = Cardinality(IngStoredUpTo(body, i, rows, siem)) + 1
<1>1. 1..(i + 1 - 1) = (1..(i - 1)) \cup {i} /\ i \notin 1..(i - 1)
  OBVIOUS
<1>2. body[i] = IngBlank => IngBlankUpTo(body, i + 1) = IngBlankUpTo(body, i) \cup {i}
  BY <1>1 DEF IngBlankUpTo
<1>3. body[i] # IngBlank => IngBlankUpTo(body, i + 1) = IngBlankUpTo(body, i)
  BY <1>1 DEF IngBlankUpTo
<1>4. body[i] \in rows \cap siem =>
         IngStoredUpTo(body, i + 1, rows, siem) = IngStoredUpTo(body, i, rows, siem) \cup {i}
  BY <1>1 DEF IngStoredUpTo
<1>5. body[i] \notin rows \cap siem =>
         IngStoredUpTo(body, i + 1, rows, siem) = IngStoredUpTo(body, i, rows, siem)
  BY <1>1 DEF IngStoredUpTo
<1>6. i \notin IngBlankUpTo(body, i) /\ i \notin IngStoredUpTo(body, i, rows, siem)
  BY <1>1 DEF IngBlankUpTo, IngStoredUpTo
<1>7. /\ IsFiniteSet(IngBlankUpTo(body, i)) /\ Cardinality(IngBlankUpTo(body, i)) \in Nat
      /\ IsFiniteSet(IngStoredUpTo(body, i, rows, siem))
      /\ Cardinality(IngStoredUpTo(body, i, rows, siem)) \in Nat
  BY IngUpToFinite
<1>8. /\ Cardinality(IngBlankUpTo(body, i) \cup {i}) = Cardinality(IngBlankUpTo(body, i)) + 1
      /\ Cardinality(IngStoredUpTo(body, i, rows, siem) \cup {i})
            = Cardinality(IngStoredUpTo(body, i, rows, siem)) + 1
  BY <1>6, <1>7, FS_AddElement
<1>9. body[i] # IngBlank =>
         Cardinality(IngBlankUpTo(body, i + 1)) = Cardinality(IngBlankUpTo(body, i))
  BY <1>3
<1>10. body[i] = IngBlank =>
          Cardinality(IngBlankUpTo(body, i + 1)) = Cardinality(IngBlankUpTo(body, i)) + 1
  BY <1>2, <1>8
<1>11. body[i] \in rows \cap siem =>
          Cardinality(IngStoredUpTo(body, i + 1, rows, siem))
             = Cardinality(IngStoredUpTo(body, i, rows, siem)) + 1
  BY <1>4, <1>8
<1>12. body[i] \notin rows \cap siem =>
          Cardinality(IngStoredUpTo(body, i + 1, rows, siem))
             = Cardinality(IngStoredUpTo(body, i, rows, siem))
  BY <1>5
<1> HIDE DEF IngBlankUpTo, IngStoredUpTo
<1>13. Cardinality(IngStoredUpTo(body, i + 1, rows, siem))
          >= Cardinality(IngStoredUpTo(body, i, rows, siem))
  BY <1>7, <1>11, <1>12
<1>14. QED BY <1>9, <1>10, <1>11, <1>13

(* Rows are never deleted and nothing is taken back from the SIEM. *)
LEMMA IngStoredGrows ==
  ASSUME NEW r \in IngRequest, NEW rows, NEW siem, NEW faults,
         NEW rows2, NEW siem2, NEW faults2,
         r.i >= 1, IngStored(r, rows, siem, faults),
         rows \subseteq rows2, siem \subseteq siem2, faults2 = 0 => faults = 0
  PROVE  IngStored(r, rows2, siem2, faults2)
<1>1. r.i \in Nat \ {0} /\ r.accepted \in Nat
  BY DEF IngRequest
<1>2. /\ IsFiniteSet(IngStoredUpTo(r.body, r.i, rows2, siem2))
      /\ Cardinality(IngStoredUpTo(r.body, r.i, rows2, siem2)) \in Nat
      /\ Cardinality(IngStoredUpTo(r.body, r.i, rows, siem)) \in Nat
  BY <1>1, IngUpToFinite
<1>3. IngStoredUpTo(r.body, r.i, rows, siem) \in SUBSET IngStoredUpTo(r.body, r.i, rows2, siem2)
  BY DEF IngStoredUpTo
<1>4. Cardinality(IngStoredUpTo(r.body, r.i, rows, siem))
         <= Cardinality(IngStoredUpTo(r.body, r.i, rows2, siem2))
  BY <1>2, <1>3, FS_Subset
<1>5. r.accepted <= Cardinality(IngStoredUpTo(r.body, r.i, rows2, siem2))
  BY <1>1, <1>2, <1>4 DEF IngStored
<1>6. QED BY <1>5 DEF IngStored

(* A step of one handler: what is to be shown is its own request. *)
LEMMA IngOneHandler ==
  ASSUME IngInv, NEW h \in IngHandlers, NEW req \in {IngIdle} \cup IngRequest,
         ingReq' = [ingReq EXCEPT ![h] = req],
         req.pc # "idle" => IngHolds(req, ingRows', ingSiem', ingFaults'),
         ingRows' \subseteq IngKeys, ingSiem' \subseteq IngKeys, ingFaults' \in Nat,
         ingRows \subseteq ingRows', ingSiem \subseteq ingSiem', ingFaults' = 0 => ingFaults = 0
  PROVE  IngInv'
<1>1. /\ ingReq' \in [IngHandlers -> {IngIdle} \cup IngRequest] /\ ingReq'[h] = req
      /\ \A g \in IngHandlers \ {h} : ingReq'[g] = ingReq[g]
  BY DEF IngInv
<1>2. ASSUME NEW g \in IngHandlers \ {h}, ingReq[g].pc # "idle"
      PROVE  IngHolds(ingReq[g], ingRows', ingSiem', ingFaults')
  <2>1. ingReq[g] \in IngRequest /\ IngHolds(ingReq[g], ingRows, ingSiem, ingFaults)
    BY <1>2 DEF IngInv, IngIdle
  <2>2. ingReq[g].i >= 1
    BY <2>1 DEF IngHolds, IngPlace
  <2>3. QED BY <2>1, <2>2, IngStoredGrows DEF IngHolds
<1>3. \A g \in IngHandlers : ingReq'[g].pc # "idle" => IngHolds(ingReq'[g], ingRows', ingSiem', ingFaults')
  BY <1>1, <1>2
<1>4. QED BY <1>1, <1>3 DEF IngInv

-----------------------------------------------------------------------------
\* A report or events that come in keep IngInv.
LEMMA IngBeginStep ==
  ASSUME IngInv, NEW h \in IngHandlers, NEW body \in IngBodies,
         HandleReport(h, body) \/ HandleEvents(h, body)
  PROVE  IngInv'
<1>0. body \in Seq(IngFindings) /\ Len(body) \in Nat
  BY IngConstantsAssumption, LenProperties DEF IngFindings
<1>a. SubSeq(body, 1, IngWithin(Len(body))) \in Seq(IngFindings)
      /\ Len(SubSeq(body, 1, IngWithin(Len(body)))) = IngWithin(Len(body))
  <2>1. IngWithin(Len(body)) \in 0..Len(body)
    BY <1>0, IngConstantsAssumption DEF IngWithin
  <2>2. QED BY <1>0, <2>1, SubSeqProperties
<1>1. PICK kind \in {"report", "events"}, pc \in {"envelope", "next"}, kept \in Seq(IngFindings) :
         /\ IngBegins(h, kind, Len(body), kept, pc)
         /\ Len(kept) = IF kind = "report" THEN Len(body) ELSE IngWithin(Len(body))
  BY <1>0, <1>a DEF HandleReport, HandleEvents
<1> DEFINE req == [pc |-> pc, kind |-> kind, sent |-> Len(body), body |-> kept, i |-> 1,
                   accepted |-> 0, failed |-> 0, dropped |-> 0]
<1>2. kept \in Seq(IngFindings) /\ Len(kept) \in Nat
  BY <1>1, LenProperties
<1>3. /\ req \in IngRequest /\ req.pc = pc /\ req.body = kept /\ req.i = 1
      /\ req.kind = kind /\ req.sent = Len(body)
      /\ req.accepted = 0 /\ req.failed = 0 /\ req.dropped = 0
  BY <1>0, <1>2 DEF IngRequest
<1>4. ingReq' = [ingReq EXCEPT ![h] = req] /\ UNCHANGED <<ingRows, ingSiem, ingFaults>>
  BY <1>1 DEF IngBegins
<1> HIDE DEF req
<1>5. 1..(req.i - 1) = {}
  BY <1>3
<1>6. IngBlankUpTo(req.body, req.i) = {} /\ IngStoredUpTo(req.body, req.i, ingRows, ingSiem) = {}
  BY <1>5 DEF IngBlankUpTo, IngStoredUpTo
<1>7. /\ Cardinality(IngBlankUpTo(req.body, req.i)) = 0
      /\ Cardinality(IngStoredUpTo(req.body, req.i, ingRows, ingSiem)) = 0
  BY <1>6, FS_EmptySet
<1>8. IngPlace(req)
  BY <1>1, <1>2, <1>3 DEF IngPlace
<1>9. IngCounts(req)
  BY <1>3, <1>7 DEF IngCounts
<1>10. IngStored(req, ingRows, ingSiem, ingFaults)
  BY <1>3, <1>5, <1>7 DEF IngStored
<1>11. IngHolds(req, ingRows', ingSiem', ingFaults')
  BY <1>4, <1>8, <1>9, <1>10 DEF IngHolds
<1>12. QED BY <1>3, <1>4, <1>11, IngOneHandler DEF IngInv

(* A request in its place, and what that says of its numbers. *)
LEMMA IngOneAtWork ==
  ASSUME IngInv, NEW h \in IngHandlers, ingReq[h].pc # "idle"
  PROVE  /\ ingReq[h] \in IngRequest /\ IngHolds(ingReq[h], ingRows, ingSiem, ingFaults)
         /\ Len(ingReq[h].body) \in Nat
         /\ ingReq[h].i \in Nat \ {0}
<1>1. ingReq[h] \in IngRequest /\ IngHolds(ingReq[h], ingRows, ingSiem, ingFaults)
  BY DEF IngInv, IngIdle
<1>2. ingReq[h].body \in Seq(IngFindings) /\ ingReq[h].i \in Nat
  BY <1>1 DEF IngRequest
<1>3. QED BY <1>1, <1>2, LenProperties DEF IngHolds, IngPlace

(* Only the stage changes. *)
LEMMA IngGoesKeeps ==
  ASSUME NEW r \in IngRequest, NEW rows, NEW siem, NEW faults, IngHolds(r, rows, siem, faults),
         NEW pc \in {"next", "update", "insert", "forward", "answer"}, r.pc # "answer",
         pc \in {"update", "insert", "forward"} => r.i <= Len(r.body) /\ r.body[r.i] \in IngKeys,
         pc = "forward" => r.body[r.i] \in rows,
         pc = "answer" => r.i = Len(r.body) + 1
  PROVE  /\ [r EXCEPT !.pc = pc] \in IngRequest
         /\ IngHolds([r EXCEPT !.pc = pc], rows, siem, faults)
<1> DEFINE s == [r EXCEPT !.pc = pc]
<1>1. /\ s \in IngRequest /\ s.pc = pc /\ s.body = r.body /\ s.i = r.i /\ s.accepted = r.accepted
      /\ s.failed = r.failed /\ s.dropped = r.dropped /\ s.kind = r.kind /\ s.sent = r.sent
  BY DEF IngRequest
<1> HIDE DEF s
<1>2. IngPlace(s)
  BY <1>1 DEF IngHolds, IngPlace
<1>3. IngCounts(s)
  BY <1>1 DEF IngHolds, IngCounts
<1>4. IngStored(s, rows, siem, faults)
  BY <1>1 DEF IngHolds, IngStored
<1>5. QED BY <1>1, <1>2, <1>3, <1>4 DEF IngHolds, s

(* One finding is counted: as blank, as failed or as accepted. *)
LEMMA IngCountedKeeps ==
  ASSUME NEW r \in IngRequest, NEW s \in IngRequest, NEW rows, NEW siem, NEW faults,
         IngHolds(r, rows, siem, faults), Len(r.body) \in Nat, r.i \in Nat \ {0},
         r.pc # "answer", r.i <= Len(r.body),
         s.pc = "next", s.body = r.body, s.i = r.i + 1, s.dropped = r.dropped,
         s.kind = r.kind, s.sent = r.sent,
         \/ /\ r.body[r.i] = IngBlank /\ s.accepted = r.accepted /\ s.failed = r.failed
         \/ /\ r.body[r.i] # IngBlank /\ s.accepted = r.accepted /\ s.failed = r.failed + 1
            /\ faults = 0 => r.body[r.i] \in rows
         \/ /\ r.body[r.i] # IngBlank /\ s.accepted = r.accepted + 1 /\ s.failed = r.failed
            /\ r.body[r.i] \in rows \cap siem
  PROVE  IngHolds(s, rows, siem, faults)
<1> DEFINE blanks == Cardinality(IngBlankUpTo(r.body, r.i))
           blanks2 == Cardinality(IngBlankUpTo(r.body, r.i + 1))
           stored == Cardinality(IngStoredUpTo(r.body, r.i, rows, siem))
           stored2 == Cardinality(IngStoredUpTo(r.body, r.i + 1, rows, siem))
<1>1. /\ r.body[r.i] = IngBlank => blanks2 = blanks + 1
      /\ r.body[r.i] # IngBlank => blanks2 = blanks
      /\ stored2 >= stored
      /\ r.body[r.i] \in rows \cap siem => stored2 = stored + 1
  BY IngOneFurther
<1>2. blanks \in Nat /\ stored \in Nat /\ stored2 \in Nat
  <2>1. r.i + 1 \in Nat \ {0}
    OBVIOUS
  <2>2. QED BY <2>1, IngUpToFinite
<1>3. r.accepted \in Nat /\ r.failed \in Nat
  BY DEF IngRequest
<1>4. r.accepted + r.failed + blanks = r.i - 1 /\ r.accepted <= stored
  BY DEF IngHolds, IngCounts, IngStored
<1>5. s.accepted + s.failed + blanks2 = s.i - 1
  <2>1. s.i \in Nat /\ r.i \in Nat /\ s.i - 1 = r.i
    BY DEF IngRequest
  <2>2. r.accepted + r.failed + blanks = r.i - 1
    BY <1>4
  <2>3. /\ r.accepted + r.failed + (blanks + 1) = r.i
        /\ r.accepted + (r.failed + 1) + blanks = r.i
        /\ r.accepted + 1 + r.failed + blanks = r.i
    <3>1. \A c, f, b, i \in Nat : c + f + b = i - 1 =>
             c + f + (b + 1) = i /\ c + (f + 1) + b = i /\ c + 1 + f + b = i
      OBVIOUS
    <3>2. r.accepted \in Nat /\ r.failed \in Nat /\ blanks \in Nat
      BY <1>2, <1>3
    <3>3. QED BY ONLY <2>1, <2>2, <3>1, <3>2
  <2>4. CASE r.body[r.i] = IngBlank
    <3>1. s.accepted = r.accepted /\ s.failed = r.failed /\ blanks2 = blanks + 1
      BY <1>1, <2>4
    <3>2. QED BY <2>1, <2>3, <3>1
  <2>5. CASE r.body[r.i] # IngBlank
    <3>1. blanks2 = blanks
      BY <1>1, <2>5
    <3>2. CASE s.accepted = r.accepted /\ s.failed = r.failed + 1
      BY <2>1, <2>3, <3>1, <3>2
    <3>3. CASE s.accepted = r.accepted + 1 /\ s.failed = r.failed
      BY <2>1, <2>3, <3>1, <3>3
    <3>4. QED BY <2>5, <3>2, <3>3
  <2>6. QED BY <2>4, <2>5
<1>6. s.accepted <= stored2
  BY <1>1, <1>2, <1>3, <1>4
<1>7. faults = 0 => \A k \in 1..(s.i - 1) : s.body[k] # IngBlank => s.body[k] \in rows
  <2> SUFFICES ASSUME faults = 0, NEW k \in 1..(s.i - 1), r.body[k] # IngBlank
               PROVE  r.body[k] \in rows
    OBVIOUS
  <2>1. CASE k = r.i
    BY <2>1
  <2>2. CASE k # r.i
    <3>1. k \in 1..(r.i - 1)
      BY <2>2
    <3>2. QED BY <3>1 DEF IngHolds, IngStored
  <2>3. QED BY <2>1, <2>2
<1>8. IngPlace(s)
  BY DEF IngHolds, IngPlace
<1>9. IngCounts(s)
  BY <1>5 DEF IngCounts, blanks2
<1>10. IngStored(s, rows, siem, faults)
  BY <1>6, <1>7 DEF IngStored, stored2
<1>11. QED BY <1>8, <1>9, <1>10 DEF IngHolds

-----------------------------------------------------------------------------
(* The steps of a handler *)
LEMMA IngEnvelopeStep ==
  ASSUME IngInv, NEW h \in IngHandlers, InsertReport(h) \/ IngAnswer(h)
  PROVE  IngInv'
<1> DEFINE r == ingReq[h]
<1>1. /\ r.pc # "idle" /\ UNCHANGED <<ingRows, ingSiem>>
      /\ ingFaults \in Nat /\ ingFaults' \in Nat /\ (ingFaults' = 0 => ingFaults = 0)
  BY DEF InsertReport, IngAnswer, IngFault, IngInv
<1>2. r \in IngRequest /\ IngHolds(r, ingRows, ingSiem, ingFaults)
  BY <1>1, IngOneAtWork
<1>3. CASE ingReq' = [ingReq EXCEPT ![h] = IngIdle]
  BY <1>1, <1>3, IngOneHandler DEF IngInv, IngIdle
<1>4. CASE r.pc = "envelope" /\ IngGoes(h, "next") /\ UNCHANGED ingFaults
  <2> DEFINE req == [r EXCEPT !.pc = "next"]
  <2>1. req \in IngRequest /\ IngHolds(req, ingRows, ingSiem, ingFaults)
    BY <1>2, <1>4, IngGoesKeeps
  <2>2. ingReq' = [ingReq EXCEPT ![h] = req]
    BY <1>4 DEF IngGoes
  <2> HIDE DEF req
  <2>3. QED BY <1>1, <1>4, <2>1, <2>2, IngOneHandler DEF IngInv
<1>5. QED BY <1>3, <1>4 DEF InsertReport, IngAnswer

\* Going on to the next finding, or to the answer, keeps IngInv.
LEMMA IngNextStep ==
  ASSUME IngInv, NEW h \in IngHandlers, IngNextFinding(h)
  PROVE  IngInv'
<1> DEFINE r == ingReq[h]
<1>1. r.pc = "next" /\ UNCHANGED <<ingRows, ingSiem, ingFaults>>
  BY DEF IngNextFinding
<1>2. /\ r \in IngRequest /\ IngHolds(r, ingRows, ingSiem, ingFaults)
      /\ Len(r.body) \in Nat /\ r.i \in Nat \ {0}
  BY <1>1, IngOneAtWork
<1>3. r.i <= Len(r.body) + 1 /\ r.body \in Seq(IngFindings) /\ r.accepted \in Nat /\ r.failed \in Nat
  BY <1>2 DEF IngHolds, IngPlace, IngRequest
<1>4. ASSUME NEW req \in IngRequest, ingReq' = [ingReq EXCEPT ![h] = req],
             IngHolds(req, ingRows, ingSiem, ingFaults)
      PROVE  IngInv'
  BY <1>1, <1>4, IngOneHandler DEF IngInv
<1> DEFINE past == r.i > Len(r.body)
           full == r.kind = "report" /\ r.accepted >= IngCap
           cut == [r EXCEPT !.pc = "answer", !.dropped = Len(r.body) - r.accepted]
           skipped == [r EXCEPT !.i = r.i + 1]
<1>a. ingReq' = [ingReq EXCEPT ![h] =
           IF past THEN [r EXCEPT !.pc = "answer"]
           ELSE IF full THEN cut
           ELSE IF r.body[r.i] = IngBlank THEN skipped
           ELSE [r EXCEPT !.pc = "update"]]
  BY DEF IngNextFinding
<1>b. past <=> ~(r.i <= Len(r.body))
  BY <1>2
<1>c. (~past /\ full) => ingReq' = [ingReq EXCEPT ![h] = cut]
  <2> HIDE DEF past, full, cut, skipped, r
  <2>1. QED BY ONLY <1>a
<1>d. (~past /\ ~full /\ r.body[r.i] = IngBlank) => ingReq' = [ingReq EXCEPT ![h] = skipped]
  <2> HIDE DEF past, full, cut, skipped, r
  <2>1. QED BY ONLY <1>a
<1>e. (~past /\ ~full /\ r.body[r.i] # IngBlank) =>
         ingReq' = [ingReq EXCEPT ![h] = [r EXCEPT !.pc = "update"]]
  <2> HIDE DEF past, full, cut, skipped, r
  <2>1. QED BY ONLY <1>a
<1>5. CASE r.i > Len(r.body)
  <2>1. ingReq' = [ingReq EXCEPT ![h] = [r EXCEPT !.pc = "answer"]]
    BY <1>5 DEF IngNextFinding
  <2>2. r.i = Len(r.body) + 1
    BY <1>2, <1>3, <1>5
  <2>3. /\ [r EXCEPT !.pc = "answer"] \in IngRequest
        /\ IngHolds([r EXCEPT !.pc = "answer"], ingRows, ingSiem, ingFaults)
    BY <1>1, <1>2, <2>2, IngGoesKeeps
  <2>4. QED BY <1>4, <2>1, <2>3
<1>6. CASE r.i <= Len(r.body) /\ r.kind = "report" /\ r.accepted >= IngCap
  <2> DEFINE req == [r EXCEPT !.pc = "answer", !.dropped = Len(r.body) - r.accepted]
  <2>1. ingReq' = [ingReq EXCEPT ![h] = req]
    BY <1>b, <1>c, <1>6
  <2>2. r.accepted <= r.i - 1
    <3>1. Cardinality(IngBlankUpTo(r.body, r.i)) \in Nat
      BY <1>2, IngUpToFinite
    <3>2. r.accepted + r.failed + Cardinality(IngBlankUpTo(r.body, r.i)) = r.i - 1
      BY <1>2 DEF IngHolds, IngCounts
    <3>3. \A c, f, b, n \in Nat : c + f + b = n - 1 => c <= n - 1
      OBVIOUS
    <3>4. r.accepted \in Nat /\ r.failed \in Nat /\ r.i \in Nat
      BY <1>2, <1>3
    <3>5. QED BY ONLY <3>1, <3>2, <3>3, <3>4
  <2>3. Len(r.body) - r.accepted \in Nat
    BY <1>2, <1>3, <1>6, <2>2
  <2>4. /\ req \in IngRequest /\ req.pc = "answer" /\ req.body = r.body /\ req.i = r.i
        /\ req.accepted = r.accepted /\ req.failed = r.failed
        /\ req.dropped = Len(r.body) - r.accepted
        /\ req.kind = r.kind /\ req.sent = r.sent
    BY <1>2, <2>3 DEF IngRequest
  <2> HIDE DEF req
  <2>5. IngPlace(req)
    BY <1>2, <1>6, <2>4 DEF IngHolds, IngPlace
  <2>6. IngCounts(req) /\ IngStored(req, ingRows, ingSiem, ingFaults)
    BY <1>2, <2>4 DEF IngHolds, IngCounts, IngStored
  <2>7. QED BY <1>4, <2>1, <2>4, <2>5, <2>6 DEF IngHolds
<1>7. CASE /\ r.i <= Len(r.body) /\ ~(r.kind = "report" /\ r.accepted >= IngCap)
           /\ r.body[r.i] = IngBlank
  <2> DEFINE req == [r EXCEPT !.i = r.i + 1]
  <2>1. ingReq' = [ingReq EXCEPT ![h] = req]
    BY <1>b, <1>d, <1>7
  <2>2. r.i + 1 \in Nat
    BY <1>2
  <2>3. /\ req \in IngRequest /\ req.pc = "next" /\ req.body = r.body /\ req.i = r.i + 1
        /\ req.accepted = r.accepted /\ req.failed = r.failed /\ req.dropped = r.dropped
        /\ req.kind = r.kind /\ req.sent = r.sent
    BY <1>1, <1>2, <2>2 DEF IngRequest
  <2> HIDE DEF req
  <2>4. IngHolds(req, ingRows, ingSiem, ingFaults)
    BY <1>1, <1>2, <1>7, <2>3, IngCountedKeeps
  <2>5. QED BY <1>4, <2>1, <2>3, <2>4
<1>8. CASE /\ r.i <= Len(r.body) /\ ~(r.kind = "report" /\ r.accepted >= IngCap)
           /\ r.body[r.i] # IngBlank
  <2>1. ingReq' = [ingReq EXCEPT ![h] = [r EXCEPT !.pc = "update"]]
    BY <1>b, <1>e, <1>8
  <2>2. r.body[r.i] \in IngKeys
    <3>1. r.i \in 1..Len(r.body)
      BY <1>2, <1>8
    <3>2. r.body[r.i] \in IngFindings
      BY <1>3, <3>1, ElementOfSeq
    <3>3. QED BY <1>8, <3>2 DEF IngFindings
  <2>3. /\ [r EXCEPT !.pc = "update"] \in IngRequest
        /\ IngHolds([r EXCEPT !.pc = "update"], ingRows, ingSiem, ingFaults)
    BY <1>1, <1>2, <1>8, <2>2, IngGoesKeeps
  <2>4. QED BY <1>4, <2>1, <2>3
<1>9. QED BY <1>2, <1>5, <1>6, <1>7, <1>8

(* The statement of the finding in hand, and what a count does to the
   request. *)
LEMMA IngInHand ==
  ASSUME IngInv, NEW h \in IngHandlers, ingReq[h].pc \in {"update", "insert", "forward"}
  PROVE  LET r == ingReq[h]
         IN  /\ r \in IngRequest /\ IngHolds(r, ingRows, ingSiem, ingFaults)
             /\ Len(r.body) \in Nat /\ r.i \in Nat \ {0} /\ r.i <= Len(r.body)
             /\ r.body[r.i] \in IngKeys /\ r.body[r.i] # IngBlank
             /\ r.pc = "forward" => r.body[r.i] \in ingRows
<1>1. /\ ingReq[h] \in IngRequest /\ IngHolds(ingReq[h], ingRows, ingSiem, ingFaults)
      /\ Len(ingReq[h].body) \in Nat /\ ingReq[h].i \in Nat \ {0}
  BY IngOneAtWork
<1>2. QED BY <1>1, IngConstantsAssumption DEF IngHolds, IngPlace, IngStored

\* What counting a finding does to a request.
LEMMA IngCountedRequest ==
  ASSUME NEW r \in IngRequest
  PROVE  /\ LET s == [r EXCEPT !.pc = "next", !.i = r.i + 1, !.failed = r.failed + 1]
            IN  /\ s \in IngRequest /\ s.pc = "next" /\ s.body = r.body /\ s.i = r.i + 1
                /\ s.accepted = r.accepted /\ s.failed = r.failed + 1 /\ s.dropped = r.dropped
                /\ s.kind = r.kind /\ s.sent = r.sent
         /\ LET s == [r EXCEPT !.pc = "next", !.i = r.i + 1, !.accepted = r.accepted + 1]
            IN  /\ s \in IngRequest /\ s.pc = "next" /\ s.body = r.body /\ s.i = r.i + 1
                /\ s.accepted = r.accepted + 1 /\ s.failed = r.failed /\ s.dropped = r.dropped
                /\ s.kind = r.kind /\ s.sent = r.sent
<1> DEFINE i == r.i + 1
           f == r.failed + 1
           c == r.accepted + 1
<1>1. i \in Nat /\ f \in Nat /\ c \in Nat
  BY DEF IngRequest
<1> HIDE DEF i, f, c
<1>2. /\ LET s == [r EXCEPT !.pc = "next", !.i = i, !.failed = f]
         IN  /\ s \in IngRequest /\ s.pc = "next" /\ s.body = r.body /\ s.i = i
             /\ s.accepted = r.accepted /\ s.failed = f /\ s.dropped = r.dropped
             /\ s.kind = r.kind /\ s.sent = r.sent
      /\ LET s == [r EXCEPT !.pc = "next", !.i = i, !.accepted = c]
         IN  /\ s \in IngRequest /\ s.pc = "next" /\ s.body = r.body /\ s.i = i
             /\ s.accepted = c /\ s.failed = r.failed /\ s.dropped = r.dropped
             /\ s.kind = r.kind /\ s.sent = r.sent
  BY <1>1 DEF IngRequest
<1>3. QED BY <1>2 DEF i, f, c

(* A finding that failed: a statement did, or another handler's row is there. *)
LEMMA IngFailedStep ==
  ASSUME IngInv, NEW h \in IngHandlers, ingReq[h].pc \in {"update", "insert"},
         IngCounted(h, "failed"), UNCHANGED <<ingRows, ingSiem>>,
         \/ IngFault
         \/ ingReq[h].body[ingReq[h].i] \in ingRows /\ UNCHANGED ingFaults
  PROVE  IngInv'
<1> DEFINE r == ingReq[h]
           req == [r EXCEPT !.pc = "next", !.i = r.i + 1, !.failed = r.failed + 1]
<1>1. /\ r \in IngRequest /\ IngHolds(r, ingRows, ingSiem, ingFaults)
      /\ Len(r.body) \in Nat /\ r.i \in Nat \ {0} /\ r.i <= Len(r.body)
      /\ r.body[r.i] # IngBlank /\ r.pc # "answer"
  BY IngInHand
<1>2. /\ ingFaults \in Nat /\ ingFaults' \in Nat /\ (ingFaults' = 0 => ingFaults = 0)
      /\ ingFaults' = 0 => r.body[r.i] \in ingRows
  BY DEF IngInv, IngFault
<1>3. ingReq' = [ingReq EXCEPT ![h] = req]
  BY <1>1 DEF IngCounted, IngInv, IngRequest
<1>4. /\ req \in IngRequest /\ req.pc = "next" /\ req.body = r.body /\ req.i = r.i + 1
      /\ req.accepted = r.accepted /\ req.failed = r.failed + 1 /\ req.dropped = r.dropped
      /\ req.kind = r.kind /\ req.sent = r.sent
  BY <1>1, IngCountedRequest
<1> HIDE DEF req
<1>5. IngHolds(r, ingRows, ingSiem, ingFaults')
  <2>1. r.i >= 1
    BY <1>1 DEF IngHolds, IngPlace
  <2>2. IngStored(r, ingRows, ingSiem, ingFaults')
    BY <1>1, <1>2, <2>1, IngStoredGrows DEF IngHolds
  <2>3. QED BY <1>1, <2>2 DEF IngHolds
<1>6. IngHolds(req, ingRows, ingSiem, ingFaults')
  BY <1>1, <1>2, <1>4, <1>5, IngCountedKeeps
<1>7. QED BY <1>2, <1>3, <1>4, <1>6, IngOneHandler DEF IngInv

\* The UPDATE of UpsertFinding keeps IngInv.
LEMMA IngUpdateStep ==
  ASSUME IngInv, NEW h \in IngHandlers, UpsertUpdate(h)
  PROVE  IngInv'
<1> DEFINE r == ingReq[h]
<1>1. /\ r \in IngRequest /\ IngHolds(r, ingRows, ingSiem, ingFaults) /\ r.pc = "update"
      /\ r.i <= Len(r.body) /\ r.body[r.i] \in IngKeys
  BY IngInHand DEF UpsertUpdate
<1>2. UNCHANGED <<ingRows, ingSiem>>
  BY DEF UpsertUpdate
<1>3. CASE IngFault /\ IngCounted(h, "failed")
  BY <1>1, <1>2, <1>3, IngFailedStep
<1>4. CASE IngGoes(h, IF r.body[r.i] \in ingRows THEN "forward" ELSE "insert") /\ UNCHANGED ingFaults
  <2>1. PICK pc \in {"forward", "insert"} : IngGoes(h, pc) /\ (pc = "forward" => r.body[r.i] \in ingRows)
    BY <1>4
  <2>2. [r EXCEPT !.pc = pc] \in IngRequest /\ IngHolds([r EXCEPT !.pc = pc], ingRows, ingSiem, ingFaults)
    BY <1>1, <2>1, IngGoesKeeps
  <2>3. ingReq' = [ingReq EXCEPT ![h] = [r EXCEPT !.pc = pc]]
    BY <2>1 DEF IngGoes
  <2>4. QED BY <1>2, <1>4, <2>2, <2>3, IngOneHandler DEF IngInv
<1>5. QED BY <1>3, <1>4 DEF UpsertUpdate

\* The INSERT of UpsertFinding, refused or not, keeps IngInv.
LEMMA IngInsertStep ==
  ASSUME IngInv, NEW h \in IngHandlers, UpsertInsert(h)
  PROVE  IngInv'
<1> DEFINE r == ingReq[h]
           key == r.body[r.i]
<1>1. /\ r \in IngRequest /\ IngHolds(r, ingRows, ingSiem, ingFaults) /\ r.pc = "insert"
      /\ r.i <= Len(r.body) /\ key \in IngKeys /\ r.i \in Nat \ {0}
  BY IngInHand DEF UpsertInsert
<1>2. UNCHANGED ingSiem
  BY DEF UpsertInsert
<1>3. CASE /\ IngCounted(h, "failed") /\ UNCHANGED ingRows
           /\ IngFault \/ (key \in ingRows /\ UNCHANGED ingFaults)
  BY <1>1, <1>2, <1>3, IngFailedStep
<1>4. CASE ingRows' = ingRows \cup {key} /\ IngGoes(h, "forward") /\ UNCHANGED ingFaults
  <2>1. IngHolds(r, ingRows', ingSiem, ingFaults)
    <3>1. r.i >= 1
      BY <1>1 DEF IngHolds, IngPlace
    <3>2. IngStored(r, ingRows', ingSiem, ingFaults)
      BY <1>1, <1>4, <3>1, IngStoredGrows DEF IngHolds
    <3>3. QED BY <1>1, <3>2 DEF IngHolds
  <2>a. r.body[r.i] \in ingRows'
    BY <1>4
  <2>b. r.pc # "answer"
    BY <1>1
  <2>2. /\ [r EXCEPT !.pc = "forward"] \in IngRequest
        /\ IngHolds([r EXCEPT !.pc = "forward"], ingRows', ingSiem, ingFaults)
    <3> HIDE DEF r, key
    <3>1. QED BY <1>1, <2>1, <2>a, <2>b, IngGoesKeeps DEF key
  <2>3. ingReq' = [ingReq EXCEPT ![h] = [r EXCEPT !.pc = "forward"]]
    BY <1>4 DEF IngGoes
  <2>4. QED BY <1>1, <1>2, <1>4, <2>2, <2>3, IngOneHandler DEF IngInv
<1>5. QED BY <1>3, <1>4 DEF UpsertInsert

\* Handing a finding to the forwarder keeps IngInv.
LEMMA IngForwardStep ==
  ASSUME IngInv, NEW h \in IngHandlers, ForwardFinding(h)
  PROVE  IngInv'
<1> DEFINE r == ingReq[h]
           key == r.body[r.i]
           req == [r EXCEPT !.pc = "next", !.i = r.i + 1, !.accepted = r.accepted + 1]
<1>1. /\ r \in IngRequest /\ IngHolds(r, ingRows, ingSiem, ingFaults) /\ r.pc = "forward"
      /\ Len(r.body) \in Nat /\ r.i \in Nat \ {0} /\ r.i <= Len(r.body)
      /\ key \in IngKeys /\ key # IngBlank /\ key \in ingRows
  BY IngInHand DEF ForwardFinding
<1>2. UNCHANGED <<ingRows, ingFaults>> /\ ingSiem' = ingSiem \cup {key} /\ IngCounted(h, "accepted")
  BY DEF ForwardFinding
<1>3. ingReq' = [ingReq EXCEPT ![h] = req]
  BY <1>1, <1>2 DEF IngCounted, IngInv, IngRequest
<1>4. /\ req \in IngRequest /\ req.pc = "next" /\ req.body = r.body /\ req.i = r.i + 1
      /\ req.accepted = r.accepted + 1 /\ req.failed = r.failed /\ req.dropped = r.dropped
      /\ req.kind = r.kind /\ req.sent = r.sent
  BY <1>1, IngCountedRequest
<1> HIDE DEF req
<1>5. IngHolds(r, ingRows, ingSiem', ingFaults)
  <2>1. r.i >= 1
    BY <1>1 DEF IngHolds, IngPlace
  <2>2. IngStored(r, ingRows, ingSiem', ingFaults)
    BY <1>1, <1>2, <2>1, IngStoredGrows DEF IngHolds
  <2>3. QED BY <1>1, <2>2 DEF IngHolds
<1>6. IngHolds(req, ingRows, ingSiem', ingFaults)
  BY <1>1, <1>2, <1>4, <1>5, IngCountedKeeps
<1>7. QED BY <1>1, <1>2, <1>3, <1>4, <1>6, IngOneHandler DEF IngInv

\* Every step keeps IngInv.
LEMMA IngStep == IngInv /\ [IngNext]_ingVars => IngInv'
<1> SUFFICES ASSUME IngInv, [IngNext]_ingVars PROVE IngInv'
  OBVIOUS
<1>1. CASE UNCHANGED ingVars
  BY <1>1 DEF IngInv, ingVars
<1>2. CASE IngNext
  BY <1>2, IngBeginStep, IngEnvelopeStep, IngNextStep, IngUpdateStep, IngInsertStep, IngForwardStep
  DEF IngNext
<1>3. QED BY <1>1, <1>2

\* IngInv implies what ingest promises.
LEMMA IngInvSafe == IngInv => IngSafe
<1> SUFFICES ASSUME IngInv, NEW h \in IngHandlers, ingReq[h].pc = "answer"
             PROVE  LET r == ingReq[h]
                    IN  /\ r.accepted + r.failed + IngBlanks(r) = r.i - 1
                        /\ r.kind = "report" => /\ r.dropped >= IngUnseen(r)
                                                /\ r.dropped > 0 => IngUnseen(r) > 0
                        /\ r.kind = "events" => r.i - 1 = IngWithin(r.sent)
                        /\ r.accepted <= Cardinality({k \in 1..(r.i - 1) :
                                                         r.body[k] \in ingRows \cap ingSiem})
                        /\ ingFaults = 0 => \A k \in 1..(r.i - 1) :
                                               r.body[k] # IngBlank => r.body[k] \in ingRows
  BY DEF IngSafe, IngAnswerAdds, IngAcceptedIsStored
<1> DEFINE r == ingReq[h]
<1>1. /\ r \in IngRequest /\ IngHolds(r, ingRows, ingSiem, ingFaults)
      /\ Len(r.body) \in Nat /\ r.i \in Nat \ {0}
  BY IngOneAtWork
<1>2. r.accepted + r.failed + IngBlanks(r) = r.i - 1
  BY <1>1 DEF IngHolds, IngCounts, IngBlankUpTo, IngBlanks
<1>3. r.accepted <= r.i - 1
  <2>1. IngBlanks(r) \in Nat
    BY <1>1, IngUpToFinite DEF IngBlanks, IngBlankUpTo
  <2>2. \A c, f, b, n \in Nat : c + f + b = n - 1 => c <= n - 1
    OBVIOUS
  <2>3. r.accepted \in Nat /\ r.failed \in Nat /\ r.i \in Nat
    BY <1>1 DEF IngRequest
  <2>4. QED BY ONLY <1>2, <2>1, <2>2, <2>3
<1>4. /\ r.kind = "report" => r.dropped >= IngUnseen(r) /\ (r.dropped > 0 => IngUnseen(r) > 0)
      /\ r.kind = "events" => r.i - 1 = IngWithin(r.sent)
  <2>1. r.accepted \in Nat
    BY <1>1 DEF IngRequest
  <2>2. \/ r.i = Len(r.body) + 1 /\ r.dropped = 0
        \/ r.kind = "report" /\ r.i <= Len(r.body) /\ r.dropped = Len(r.body) - r.accepted
    BY <1>1 DEF IngHolds, IngPlace
  <2>3. \A n, i, a, d \in Nat :
           /\ a <= i - 1
           /\ (i = n + 1 /\ d = 0) \/ (i <= n /\ d = n - a)
           => d >= n - (i - 1) /\ (d > 0 => n - (i - 1) > 0)
    OBVIOUS
  <2>4. Len(r.body) \in Nat /\ r.i \in Nat /\ r.dropped \in Nat
    BY <1>1 DEF IngRequest
  <2>5. /\ r.kind = "report" => IngUnseen(r) = Len(r.body) - (r.i - 1)
        /\ r.kind = "events" => Len(r.body) = IngWithin(r.sent)
    BY <1>1 DEF IngUnseen, IngHolds, IngPlace
  <2> HIDE DEF r
  <2>6. CASE r.kind = "report"
    BY ONLY <1>3, <2>1, <2>2, <2>3, <2>4, <2>5, <2>6
  <2>7. CASE r.kind = "events"
    BY ONLY <2>2, <2>4, <2>5, <2>7
  <2>8. r.kind \in {"report", "events"}
    BY <1>1 DEF IngRequest
  <2>9. QED BY <2>6, <2>7, <2>8
<1>5. r.accepted <= Cardinality({k \in 1..(r.i - 1) : r.body[k] \in ingRows \cap ingSiem})
  BY <1>1 DEF IngHolds, IngStored, IngStoredUpTo
<1>6. ingFaults = 0 => \A k \in 1..(r.i - 1) : r.body[k] # IngBlank => r.body[k] \in ingRows
  BY <1>1 DEF IngHolds, IngStored
<1>7. QED BY <1>2, <1>4, <1>5, <1>6

(* ingest.go: whatever handlers run at the same time and whatever fails, an
   answer accounts for every finding of the body, and what it calls accepted
   is in the table and was forwarded. *)
THEOREM IngSafety == IngSpec => []IngSafe
<1>1. IngSpec => []IngInv
  BY IngInitInv, IngStep, PTL DEF IngSpec
<1>2. QED BY <1>1, IngInvSafe, PTL

(* What the handlers of reports keep has its type (ingest.go). *)
THEOREM IngTyping == IngSpec => []IngTypeOK
<1>1. IngSpec => []IngInv
  BY IngInitInv, IngStep, PTL DEF IngSpec
<1>2. IngInv => IngTypeOK
  BY DEF IngInv, IngTypeOK, IngIdle, IngRequest
<1>3. QED BY <1>1, <1>2, PTL

-----------------------------------------------------------------------------
(***************************************************************************)
(* The console's limiter, for every quota, period and number of clients.   *)
(***************************************************************************)

\* Times at which a key was admitted, in order.
LimOrdered(k) ==
    \A i \in 1..Len(limAllowed[k]) : \A j \in i..Len(limAllowed[k]) :
        limAllowed[k][i] <= limAllowed[k][j]

\* Those of the window there is, n of them, lie in it; what was admitted before
\* is no later than its start, and what was admitted before the window that came
\* before it more than a period earlier.  Without a window all are that old.
LimWindows(k) ==
    LET a == limAllowed[k]
        w == limWindow[k]
    IN  /\ w.n <= Len(a)
        /\ w.n = 0 => \A i \in 1..Len(a) : a[i] + LimPeriod < limTime
        /\ w.n > 0 =>
              /\ \A i \in 1..Len(a) :
                    IF i + w.n > Len(a) THEN w.start <= a[i] /\ a[i] <= w.start + LimPeriod
                    ELSE a[i] <= w.start
              /\ \A i \in 1..Len(a) : i + w.n + LimQuota <= Len(a) => a[i] + LimPeriod < w.start

\* Two quotas on, more than a period has passed.
LimSpaced(k) ==
    \A i \in 1..Len(limAllowed[k]) :
        i + 2 * LimQuota <= Len(limAllowed[k]) =>
            limAllowed[k][i] + LimPeriod < limAllowed[k][i + 2 * LimQuota]

\* A whole quota was admitted in the period before the last refusal.
LimCharged(k) ==
    limRefused[k] >= 0 =>
        \E i \in 1..Len(limAllowed[k]) :
            /\ i + LimQuota <= Len(limAllowed[k]) + 1
            /\ \A j \in i..(i + LimQuota - 1) :
                  limAllowed[k][j] <= limRefused[k]
                  /\ limRefused[k] <= limAllowed[k][j] + LimPeriod

LimInv ==
    /\ LimTypeOK
    /\ \A k \in LimKeys : LimOrdered(k) /\ LimWindows(k) /\ LimSpaced(k) /\ LimCharged(k)

-----------------------------------------------------------------------------
(* Types *)

\* What is known of one key.
LimTyped(k) ==
    /\ limWindow[k] \in [start : 0..LimMaxTime, n : 0..LimQuota]
    /\ limAllowed[k] \in Seq(0..LimMaxTime) /\ limRefused[k] \in -1..LimMaxTime
    /\ limWindow[k].start <= limTime /\ limRefused[k] <= limTime
    /\ \A i \in 1..Len(limAllowed[k]) : limAllowed[k][i] <= limTime

LimKept(k) == LimTyped(k) /\ LimOrdered(k) /\ LimWindows(k) /\ LimSpaced(k) /\ LimCharged(k)

\* LimInv, key by key.
LEMMA LimInvByKey ==
    LimInv <=> /\ limTime \in 0..LimMaxTime
               /\ limWindow \in [LimKeys -> [start : 0..LimMaxTime, n : 0..LimQuota]]
               /\ limAllowed \in [LimKeys -> Seq(0..LimMaxTime)]
               /\ limRefused \in [LimKeys -> -1..LimMaxTime]
               /\ \A k \in LimKeys : LimKept(k)
  BY DEF LimInv, LimTypeOK, LimKept, LimTyped

\* The numbers of one key, and its times as naturals.
LEMMA LimNumbers ==
    ASSUME LimInv, NEW k \in LimKeys
    PROVE  /\ LimQuota \in Nat \ {0} /\ LimPeriod \in Nat \ {0} /\ limTime \in Nat
           /\ limWindow[k].start \in Nat /\ limWindow[k].n \in 0..LimQuota
           /\ limRefused[k] \in Int /\ Len(limAllowed[k]) \in Nat
           /\ \A i \in 1..Len(limAllowed[k]) : limAllowed[k][i] \in Nat
  BY LimInvByKey, LimConstantsAssumption, ElementOfSeq DEF LimKept, LimTyped

\* One more time at the end.
LEMMA LimAppends ==
    ASSUME NEW a \in Seq(0..LimMaxTime), NEW t \in 0..LimMaxTime
    PROVE  /\ Append(a, t) \in Seq(0..LimMaxTime)
           /\ Len(Append(a, t)) = Len(a) + 1 /\ Append(a, t)[Len(a) + 1] = t
           /\ \A i \in 1..Len(a) : Append(a, t)[i] = a[i]
  BY AppendProperties

-----------------------------------------------------------------------------
(* One request, one tick *)

\* A request that is admitted.
LEMMA LimAllowKeeps ==
    ASSUME LimInv, NEW k \in LimKeys, Allow(k)
    PROVE  LimKept(k)'
<1> DEFINE a == limAllowed[k]
           b == limAllowed'[k]
           w == limWindow[k]
           v == limWindow'[k]
           n == Len(a)
<1>1. /\ LimTyped(k) /\ LimOrdered(k) /\ LimWindows(k) /\ LimSpaced(k) /\ LimCharged(k)
      /\ limTime \in 0..LimMaxTime
  BY LimInvByKey DEF LimKept
<1>2. /\ LimQuota \in Nat \ {0} /\ LimPeriod \in Nat \ {0} /\ limTime \in Nat
      /\ w.start \in Nat /\ w.n \in 0..LimQuota /\ n \in Nat
      /\ \A i \in 1..n : a[i] \in Nat
  BY LimNumbers
<1>f. limWindow \in [LimKeys -> [start : 0..LimMaxTime, n : 0..LimQuota]]
      /\ limAllowed \in [LimKeys -> Seq(0..LimMaxTime)]
  BY LimInvByKey
<1>3. /\ b = Append(a, limTime) /\ limTime' = limTime /\ limRefused' = limRefused
      /\ LimFresh(k) \/ w.n < LimQuota
      /\ LimFresh(k) => v = [start |-> limTime, n |-> 1]
      /\ ~LimFresh(k) => v = [start |-> w.start, n |-> w.n + 1]
  <2>1. b = Append(a, limTime) /\ limTime' = limTime /\ limRefused' = limRefused
    BY <1>f DEF Allow
  <2>2. LimFresh(k) \/ w.n < LimQuota
    BY DEF Allow
  <2>3. ASSUME LimFresh(k) PROVE v = [start |-> limTime, n |-> 1]
    <3>1. limWindow' = [limWindow EXCEPT ![k] = [start |-> limTime, n |-> 1]]
      BY <2>3 DEF Allow
    <3> QED BY ONLY <1>f, <3>1, k \in LimKeys
  <2>4. ASSUME ~LimFresh(k) PROVE v = [start |-> w.start, n |-> w.n + 1]
    <3>1. limWindow' = [limWindow EXCEPT ![k] = [start |-> w.start, n |-> w.n + 1]]
      BY <2>4 DEF Allow
    <3> QED BY ONLY <1>f, <3>1, k \in LimKeys
  <2> QED BY ONLY <2>1, <2>2, <2>3, <2>4
<1>4. /\ b \in Seq(0..LimMaxTime) /\ Len(b) = n + 1 /\ b[n + 1] = limTime
      /\ \A i \in 1..n : b[i] = a[i]
  BY <1>1, <1>3, LimAppends DEF LimTyped
<1>5. \A i \in 1..n : a[i] <= limTime
  BY <1>1 DEF LimTyped
<1> HIDE DEF b
<1>6. \A i \in 1..(n + 1) : b[i] \in Nat /\ b[i] <= limTime
  BY <1>2, <1>4, <1>5
<1>7. LimOrdered(k)'
  <2>1. \A i \in 1..n : \A j \in i..n : a[i] <= a[j]
    BY <1>1 DEF LimOrdered
  <2>2. \A i \in 1..(n + 1) : \A j \in i..(n + 1) : b[i] <= b[j]
    <3> TAKE i \in 1..(n + 1)
    <3> TAKE j \in i..(n + 1)
    <3>1. CASE j = n + 1
      BY <1>2, <1>4, <1>6, <3>1
    <3>2. CASE j # n + 1
      BY <1>2, <1>4, <2>1, <3>2
    <3> QED BY <3>1, <3>2
  <2> QED BY <1>4, <2>2 DEF LimOrdered, b
<1>8. LimCharged(k)'
  <2> SUFFICES ASSUME limRefused[k] >= 0
               PROVE  \E i \in 1..(n + 1) :
                          /\ i + LimQuota <= (n + 1) + 1
                          /\ \A j \in i..(i + LimQuota - 1) :
                                b[j] <= limRefused[k] /\ limRefused[k] <= b[j] + LimPeriod
    BY <1>3, <1>4 DEF LimCharged, b
  <2>1. PICK i \in 1..n : /\ i + LimQuota <= n + 1
                          /\ \A j \in i..(i + LimQuota - 1) :
                                a[j] <= limRefused[k] /\ limRefused[k] <= a[j] + LimPeriod
    BY <1>1 DEF LimCharged
  <2>2. i \in 1..(n + 1) /\ i + LimQuota <= (n + 1) + 1
    BY <1>2, <2>1
  <2>3. \A j \in i..(i + LimQuota - 1) : b[j] = a[j]
    BY <1>2, <1>4, <2>1
  <2> QED BY <2>1, <2>2, <2>3
<1>9. CASE LimFresh(k)
  <2>1. v = [start |-> limTime, n |-> 1]
    BY <1>3, <1>9
  <2>2. \A i \in 1..n : i + LimQuota <= n => a[i] + LimPeriod < limTime
    <3> SUFFICES ASSUME NEW i \in 1..n, i + LimQuota <= n PROVE a[i] + LimPeriod < limTime
      OBVIOUS
    <3>1. CASE w.n = 0
      BY <1>1, <3>1 DEF LimWindows
    <3>2. CASE w.n > 0
      <4>1. limTime - w.start > LimPeriod
        BY <1>9, <3>2 DEF LimFresh
      <4>2. a[i] <= w.start
        BY <1>1, <1>2, <3>2 DEF LimWindows
      <4> QED BY <1>2, <4>1, <4>2
    <3> QED BY <1>2, <3>1, <3>2
  <2>3. LimTyped(k)'
    <3>1. v \in [start : 0..LimMaxTime, n : 0..LimQuota] /\ v.start <= limTime
      <4>1. 1 \in 0..LimQuota /\ limTime <= limTime
        BY <1>2
      <4> QED BY <1>1, <2>1, <4>1
    <3>2. limRefused[k] \in -1..LimMaxTime /\ limRefused[k] <= limTime
      BY <1>1 DEF LimTyped
    <3>3. \A i \in 1..Len(b) : b[i] <= limTime
      BY <1>4, <1>6
    <3> QED BY ONLY <1>3, <1>4, <3>1, <3>2, <3>3 DEF LimTyped, b
  <2>4. LimSpaced(k)'
    <3>1. \A i \in 1..(n + 1) : i + 2 * LimQuota <= n + 1 => b[i] + LimPeriod < b[i + 2 * LimQuota]
      <4> SUFFICES ASSUME NEW i \in 1..(n + 1), i + 2 * LimQuota <= n + 1
                   PROVE  b[i] + LimPeriod < b[i + 2 * LimQuota]
        OBVIOUS
      <4>1. CASE i + 2 * LimQuota = n + 1
        <5>1. i \in 1..n /\ i + LimQuota <= n
          BY <1>2, <4>1
        <5> QED BY <1>4, <2>2, <4>1, <5>1
      <4>2. CASE i + 2 * LimQuota # n + 1
        <5>1. i \in 1..n /\ i + 2 * LimQuota <= n /\ i + 2 * LimQuota \in 1..n
          BY <1>2, <4>2
        <5> QED BY <1>1, <1>4, <5>1 DEF LimSpaced
      <4> QED BY <4>1, <4>2
    <3> QED BY <1>4, <3>1 DEF LimSpaced, b
  <2>5. LimWindows(k)'
    <3>1. \A i \in 1..(n + 1) : IF i + 1 > n + 1 THEN limTime <= b[i] /\ b[i] <= limTime + LimPeriod
                                ELSE b[i] <= limTime
      BY <1>2, <1>4, <1>6
    <3>2. \A i \in 1..(n + 1) : i + 1 + LimQuota <= n + 1 => b[i] + LimPeriod < limTime
      <4> SUFFICES ASSUME NEW i \in 1..(n + 1), i + 1 + LimQuota <= n + 1
                   PROVE  b[i] + LimPeriod < limTime
        OBVIOUS
      <4>1. i \in 1..n /\ i + LimQuota <= n
        BY <1>2
      <4> QED BY <1>4, <2>2, <4>1
    <3>3. v.n = 1 /\ v.start = limTime /\ 1 <= n + 1
      BY <1>2, <2>1
    <3>4. /\ limWindow'[k].n = 1 /\ limWindow'[k].start = limTime /\ Len(limAllowed'[k]) = n + 1
          /\ \A i \in 1..(n + 1) :
                IF i + 1 > n + 1 THEN limTime <= limAllowed'[k][i] /\ limAllowed'[k][i] <= limTime + LimPeriod
                ELSE limAllowed'[k][i] <= limTime
          /\ \A i \in 1..(n + 1) :
                i + 1 + LimQuota <= n + 1 => limAllowed'[k][i] + LimPeriod < limTime
      BY ONLY <1>4, <3>1, <3>2, <3>3 DEF b
    <3>5. 1 \in Nat /\ limTime \in Nat /\ n + 1 \in Nat /\ 1 <= n + 1
      BY <1>2
    <3> DEFINE m == n + 1
    <3> HIDE DEF m
    <3>6. /\ limWindow'[k].n = 1 /\ limWindow'[k].start = limTime /\ Len(limAllowed'[k]) = m
          /\ \A i \in 1..m :
                IF i + 1 > m THEN limTime <= limAllowed'[k][i] /\ limAllowed'[k][i] <= limTime + LimPeriod
                ELSE limAllowed'[k][i] <= limTime
          /\ \A i \in 1..m : i + 1 + LimQuota <= m => limAllowed'[k][i] + LimPeriod < limTime
          /\ m \in Nat /\ 1 <= m
      BY ONLY <3>4, <3>5 DEF m
    <3> QED BY ONLY <3>5, <3>6 DEF LimWindows
  <2> QED BY <1>7, <1>8, <2>3, <2>4, <2>5 DEF LimKept
<1>10. CASE ~LimFresh(k)
  <2>1. v = [start |-> w.start, n |-> w.n + 1] /\ w.n < LimQuota /\ w.n > 0 /\ limTime <= w.start + LimPeriod
    BY <1>2, <1>3, <1>10 DEF LimFresh
  <2>2. v.n = w.n + 1 /\ v.start = w.start /\ v \in [start : 0..LimMaxTime, n : 0..LimQuota]
    <3>1. w \in [start : 0..LimMaxTime, n : 0..LimQuota] /\ w.n + 1 \in 0..LimQuota
      BY <1>1, <1>2, <2>1 DEF LimTyped
    <3> QED BY ONLY <2>1, <3>1
  <2>3. LimTyped(k)'
    <3>1. limRefused[k] \in -1..LimMaxTime /\ limRefused[k] <= limTime /\ v.start <= limTime
      BY <1>1, <2>2 DEF LimTyped
    <3>2. \A i \in 1..Len(b) : b[i] <= limTime
      BY <1>4, <1>6
    <3> QED BY ONLY <1>3, <1>4, <2>2, <3>1, <3>2 DEF LimTyped, b
  <2>4. /\ w.n <= n /\ w.start <= limTime
        /\ \A i \in 1..n : IF i + w.n > n THEN w.start <= a[i] /\ a[i] <= w.start + LimPeriod
                           ELSE a[i] <= w.start
        /\ \A i \in 1..n : i + w.n + LimQuota <= n => a[i] + LimPeriod < w.start
    BY <1>1, <1>2, <2>1 DEF LimWindows, LimTyped
  <2>5. \A i \in 1..(n + 1) : i + (w.n + 1) + LimQuota <= n + 1 => b[i] + LimPeriod < w.start
    <3> SUFFICES ASSUME NEW i \in 1..(n + 1), i + (w.n + 1) + LimQuota <= n + 1
                 PROVE  b[i] + LimPeriod < w.start
      OBVIOUS
    <3>1. i \in 1..n /\ i + w.n + LimQuota <= n
      <4>1. w.n \in Nat /\ LimQuota \in Nat \ {0} /\ n \in Nat
        BY <1>2
      <4>2. \A x, q, u \in Nat : \A y \in 1..(x + 1) :
               (q # 0 /\ y + (u + 1) + q <= x + 1) => y \in 1..x /\ y + u + q <= x
        OBVIOUS
      <4> QED BY <4>1, <4>2
    <3>2. b[i] = a[i]
      BY <1>4, <3>1
    <3>3. a[i] + LimPeriod < w.start
      BY <2>4, <3>1
    <3> QED BY <3>2, <3>3
  <2>6. \A i \in 1..(n + 1) :
            IF i + (w.n + 1) > n + 1 THEN w.start <= b[i] /\ b[i] <= w.start + LimPeriod
            ELSE b[i] <= w.start
    <3> TAKE i \in 1..(n + 1)
    <3>1. CASE i = n + 1
      BY <1>2, <1>4, <2>1, <2>4, <3>1
    <3>2. CASE i # n + 1
      <4>1. i \in 1..n /\ (i + (w.n + 1) > n + 1 <=> i + w.n > n)
        BY <1>2, <3>2
      <4> QED BY <1>4, <2>4, <4>1
    <3> QED BY <3>1, <3>2
  <2>7. LimWindows(k)'
    <3>1. v.n <= n + 1 /\ v.n > 0
      BY <1>2, <2>2, <2>4
    <3> DEFINE m == n + 1
               u == w.n + 1
    <3> HIDE DEF m, u
    <3>2. /\ limWindow'[k].n = u /\ limWindow'[k].start = w.start /\ Len(limAllowed'[k]) = m
          /\ \A i \in 1..m :
                IF i + u > m THEN w.start <= limAllowed'[k][i] /\ limAllowed'[k][i] <= w.start + LimPeriod
                ELSE limAllowed'[k][i] <= w.start
          /\ \A i \in 1..m : i + u + LimQuota <= m => limAllowed'[k][i] + LimPeriod < w.start
          /\ u <= m /\ u > 0
      BY ONLY <1>4, <2>2, <2>5, <2>6, <3>1 DEF m, u, b
    <3>3. u \in Nat /\ m \in Nat /\ w.start \in Nat
      BY <1>2 DEF m, u
    <3> QED BY ONLY <3>2, <3>3 DEF LimWindows
  <2>8. LimSpaced(k)'
    <3>1. \A i \in 1..(n + 1) : i + 2 * LimQuota <= n + 1 => b[i] + LimPeriod < b[i + 2 * LimQuota]
      <4> SUFFICES ASSUME NEW i \in 1..(n + 1), i + 2 * LimQuota <= n + 1
                   PROVE  b[i] + LimPeriod < b[i + 2 * LimQuota]
        OBVIOUS
      <4>1. CASE i + 2 * LimQuota = n + 1
        <5>1. i \in 1..n /\ i + w.n + LimQuota <= n
          <6>1. \A p, q, m, u \in Nat : p + 2 * q = m + 1 /\ q > 0 /\ u < q
                    => p <= m /\ p + u + q <= m
            OBVIOUS
          <6>2. i \in Nat /\ i >= 1 /\ LimQuota \in Nat /\ LimQuota > 0 /\ w.n \in Nat /\ n \in Nat
            BY <1>2
          <6>3. i <= n /\ i + w.n + LimQuota <= n
            BY ONLY <2>1, <4>1, <6>1, <6>2
          <6> QED BY ONLY <6>2, <6>3
        <5>2. a[i] + LimPeriod < w.start
          BY <2>4, <5>1
        <5>3. b[i] = a[i] /\ b[i + 2 * LimQuota] = limTime
          BY <1>4, <4>1, <5>1
        <5>4. a[i] \in Nat /\ LimPeriod \in Nat /\ w.start \in Nat /\ limTime \in Nat /\ w.start <= limTime
          BY <1>2, <2>4, <5>1
        <5>5. a[i] + LimPeriod < limTime
          BY ONLY <5>2, <5>4
        <5> QED BY ONLY <5>3, <5>5
      <4>2. CASE i + 2 * LimQuota # n + 1
        <5>1. i \in 1..n /\ i + 2 * LimQuota <= n /\ i + 2 * LimQuota \in 1..n
          BY <1>2, <4>2
        <5> QED BY <1>1, <1>4, <5>1 DEF LimSpaced
      <4> QED BY <4>1, <4>2
    <3> QED BY <1>4, <3>1 DEF LimSpaced, b
  <2> QED BY <1>7, <1>8, <2>3, <2>7, <2>8 DEF LimKept
<1> QED BY <1>9, <1>10

\* A request that is refused: the window is full, and it is within the period.
LEMMA LimRefuseKeeps ==
    ASSUME LimInv, NEW k \in LimKeys, LimRefuse(k)
    PROVE  LimKept(k)'
<1> DEFINE a == limAllowed[k]
           w == limWindow[k]
           n == Len(a)
<1>1. /\ LimTyped(k) /\ LimOrdered(k) /\ LimWindows(k) /\ LimSpaced(k)
      /\ limTime \in 0..LimMaxTime
  BY LimInvByKey DEF LimKept
<1>2. /\ LimQuota \in Nat \ {0} /\ LimPeriod \in Nat \ {0} /\ limTime \in Nat
      /\ w.start \in Nat /\ w.n \in 0..LimQuota /\ n \in Nat
      /\ \A i \in 1..n : a[i] \in Nat
  BY LimNumbers
<1>3. /\ limTime' = limTime /\ limWindow' = limWindow /\ limAllowed' = limAllowed
      /\ limRefused'[k] = limTime
  BY LimInvByKey DEF LimRefuse
<1>4. w.n = LimQuota /\ limTime <= w.start + LimPeriod
  BY <1>2 DEF LimRefuse, LimFresh
<1>5. LimTyped(k)' /\ LimOrdered(k)' /\ LimWindows(k)' /\ LimSpaced(k)'
  BY <1>1, <1>3 DEF LimTyped, LimOrdered, LimWindows, LimSpaced
<1>6. LimCharged(k)'
  <2> DEFINE i == n - LimQuota + 1
  <2>1. w.n <= n /\ \A j \in 1..n : j + w.n > n => w.start <= a[j]
    BY <1>1, <1>2, <1>4 DEF LimWindows
  <2>2. i \in 1..n /\ i + LimQuota <= n + 1
    <3>1. LimQuota \in Nat \ {0} /\ n \in Nat /\ LimQuota <= n
      BY <1>2, <1>4, <2>1
    <3>2. \A x, q \in Nat : (q # 0 /\ q <= x) => x - q + 1 \in 1..x /\ (x - q + 1) + q <= x + 1
      OBVIOUS
    <3> QED BY ONLY <3>1, <3>2
  <2>3. ASSUME NEW j \in i..(i + LimQuota - 1)
        PROVE  a[j] <= limTime /\ limTime <= a[j] + LimPeriod
    <3>1. j \in 1..n /\ j + w.n > n
      BY <1>2, <1>4, <2>2
    <3>2. a[j] <= limTime
      BY <1>1, <3>1 DEF LimTyped
    <3>3. w.start <= a[j] /\ a[j] \in Nat
      BY <1>2, <2>1, <3>1
    <3> QED BY <1>2, <1>4, <3>2, <3>3
  <2> HIDE DEF i
  <2> QED BY <1>3, <2>2, <2>3 DEF LimCharged
<1> QED BY <1>5, <1>6 DEF LimKept

\* A tick, with the janitor's sweep.
LEMMA LimTickKeeps ==
    ASSUME LimInv, NEW k \in LimKeys, LimTick
    PROVE  LimKept(k)'
<1> DEFINE a == limAllowed[k]
           w == limWindow[k]
           n == Len(a)
<1>1. /\ LimTyped(k) /\ LimOrdered(k) /\ LimWindows(k) /\ LimSpaced(k) /\ LimCharged(k)
      /\ limTime \in 0..LimMaxTime
  BY LimInvByKey DEF LimKept
<1>2. /\ LimQuota \in Nat \ {0} /\ LimPeriod \in Nat \ {0} /\ limTime \in Nat
      /\ w.start \in Nat /\ w.n \in 0..LimQuota /\ n \in Nat
      /\ \A i \in 1..n : a[i] \in Nat
  BY LimNumbers
<1>3. limTime' = limTime + 1 /\ limAllowed' = limAllowed /\ limRefused' = limRefused
  BY DEF LimTick
<1>4. \/ limWindow'[k] = w
      \/ limWindow'[k] = LimNoWindow /\ limTime + 1 - w.start > 2 * LimPeriod
  BY LimInvByKey DEF LimTick, LimSweep
<1>5. LimOrdered(k)' /\ LimSpaced(k)' /\ LimCharged(k)'
  BY <1>1, <1>3 DEF LimOrdered, LimSpaced, LimCharged
<1>6. LimTyped(k)'
  <2>1. limWindow'[k] \in [start : 0..LimMaxTime, n : 0..LimQuota] /\ limWindow'[k].start <= limTime
    <3>1. w \in [start : 0..LimMaxTime, n : 0..LimQuota] /\ w.start <= limTime
      BY <1>1 DEF LimTyped
    <3>2. LimNoWindow \in [start : 0..LimMaxTime, n : 0..LimQuota] /\ LimNoWindow.start <= limTime
      <4>1. 0 \in 0..LimMaxTime /\ 0 \in 0..LimQuota /\ 0 <= limTime
        BY <1>2, LimConstantsAssumption
      <4> QED BY <4>1 DEF LimNoWindow
    <3> QED BY <1>4, <3>1, <3>2
  <2>2. \A i \in 1..n : a[i] <= limTime + 1
    BY <1>1, <1>2 DEF LimTyped
  <2>3. limWindow'[k].start <= limTime + 1 /\ limRefused[k] <= limTime + 1
    BY <1>1, <1>2, <2>1 DEF LimTyped
  <2> QED BY <1>1, <1>3, <2>1, <2>2, <2>3 DEF LimTyped
<1>7. LimWindows(k)'
  <2>1. CASE limWindow'[k] = w
    <3>1. w.n = 0 => \A i \in 1..n : a[i] + LimPeriod < limTime + 1
      BY <1>1, <1>2 DEF LimWindows
    <3> QED BY <1>1, <1>3, <2>1, <3>1 DEF LimWindows
  <2>2. CASE limWindow'[k] = LimNoWindow /\ limTime + 1 - w.start > 2 * LimPeriod
    <3>1. \A i \in 1..n : a[i] + LimPeriod < limTime + 1
      <4> TAKE i \in 1..n
      <4>1. CASE w.n = 0
        <5>1. a[i] + LimPeriod < limTime
          BY <1>1, <4>1 DEF LimWindows
        <5>2. a[i] \in Nat /\ LimPeriod \in Nat /\ limTime \in Nat
          BY <1>2
        <5>3. \A x, p, t \in Nat : x + p < t => x + p < t + 1
          OBVIOUS
        <5> QED BY ONLY <5>1, <5>2, <5>3
      <4>2. CASE w.n > 0
        <5>1. a[i] <= w.start + LimPeriod
          BY <1>1, <1>2, <4>2 DEF LimWindows
        <5>2. /\ a[i] \in Nat /\ LimPeriod \in Nat /\ w.start \in Nat /\ limTime \in Nat
              /\ limTime + 1 - w.start > 2 * LimPeriod
          BY <1>2, <2>2
        <5>3. \A x, u, p, t \in Nat : x <= u + p /\ t + 1 - u > 2 * p => x + p < t + 1
          OBVIOUS
        <5> QED BY ONLY <5>1, <5>2, <5>3
      <4> QED BY <1>2, <4>1, <4>2
    <3> QED BY <1>2, <1>3, <2>2, <3>1 DEF LimWindows, LimNoWindow
  <2> QED BY <1>4, <2>1, <2>2
<1> QED BY <1>5, <1>6, <1>7 DEF LimKept

-----------------------------------------------------------------------------
(* The invariant *)

\* LimInv holds initially.
LEMMA LimInvInit == LimInit => LimInv
<1> SUFFICES ASSUME LimInit PROVE LimInv
  OBVIOUS
<1>1. LimQuota \in Nat \ {0} /\ LimPeriod \in Nat \ {0} /\ LimMaxTime \in Nat
  BY LimConstantsAssumption
<1>2. \A k \in LimKeys : limAllowed[k] = <<>> /\ limWindow[k] = LimNoWindow /\ limRefused[k] = -1
  BY DEF LimInit
<1>3. /\ LimNoWindow \in [start : 0..LimMaxTime, n : 0..LimQuota] /\ LimNoWindow.n = 0
      /\ LimNoWindow.start = 0 /\ -1 \in -1..LimMaxTime /\ <<>> \in Seq(0..LimMaxTime) /\ Len(<<>>) = 0
  BY <1>1 DEF LimNoWindow
<1>4. ASSUME NEW k \in LimKeys PROVE LimKept(k)
  <2>1. LimTyped(k)
    BY <1>1, <1>2, <1>3 DEF LimTyped, LimInit
  <2>2. LimOrdered(k) /\ LimWindows(k) /\ LimSpaced(k) /\ LimCharged(k)
    BY <1>1, <1>2, <1>3 DEF LimOrdered, LimWindows, LimSpaced, LimCharged
  <2> QED BY <2>1, <2>2 DEF LimKept
<1>5. /\ limTime \in 0..LimMaxTime
      /\ limWindow \in [LimKeys -> [start : 0..LimMaxTime, n : 0..LimQuota]]
      /\ limAllowed \in [LimKeys -> Seq(0..LimMaxTime)]
      /\ limRefused \in [LimKeys -> -1..LimMaxTime]
  BY <1>1, <1>3 DEF LimInit
<1> QED BY <1>4, <1>5, LimInvByKey

\* Every step keeps LimInv.
LEMMA LimInvStep == LimInv /\ [LimNext]_limVars => LimInv'
<1> SUFFICES ASSUME LimInv, [LimNext]_limVars PROVE LimInv'
  OBVIOUS
<1>t. /\ limTime \in 0..LimMaxTime
      /\ limWindow \in [LimKeys -> [start : 0..LimMaxTime, n : 0..LimQuota]]
      /\ limAllowed \in [LimKeys -> Seq(0..LimMaxTime)]
      /\ limRefused \in [LimKeys -> -1..LimMaxTime]
      /\ \A k \in LimKeys : LimKept(k)
  BY LimInvByKey
<1>s. SUFFICES /\ limTime' \in 0..LimMaxTime
               /\ limWindow' \in [LimKeys -> [start : 0..LimMaxTime, n : 0..LimQuota]]
               /\ limAllowed' \in [LimKeys -> Seq(0..LimMaxTime)]
               /\ limRefused' \in [LimKeys -> -1..LimMaxTime]
               /\ \A k \in LimKeys : LimKept(k)'
  BY DEF LimInv, LimTypeOK, LimKept, LimTyped
<1>1. ASSUME NEW h \in LimKeys, limTime' = limTime,
             \A k \in LimKeys \ {h} : /\ limWindow'[k] = limWindow[k]
                                      /\ limAllowed'[k] = limAllowed[k]
                                      /\ limRefused'[k] = limRefused[k]
      PROVE  \A k \in LimKeys \ {h} : LimKept(k)'
  BY <1>1, <1>t DEF LimKept, LimTyped, LimOrdered, LimWindows, LimSpaced, LimCharged
<1>2. ASSUME NEW h \in LimKeys, Allow(h) 
      PROVE  /\ limTime' \in 0..LimMaxTime
             /\ limWindow' \in [LimKeys -> [start : 0..LimMaxTime, n : 0..LimQuota]]
             /\ limAllowed' \in [LimKeys -> Seq(0..LimMaxTime)]
             /\ limRefused' \in [LimKeys -> -1..LimMaxTime]
             /\ \A k \in LimKeys : LimKept(k)'
  <2>1. LimKept(h)'
    BY <1>2, LimAllowKeeps
  <2>2. /\ limTime' = limTime
        /\ \A k \in LimKeys \ {h} : /\ limWindow'[k] = limWindow[k]
                                    /\ limAllowed'[k] = limAllowed[k]
                                    /\ limRefused'[k] = limRefused[k]
    BY <1>2, <1>t DEF Allow
  <2>3. \A k \in LimKeys : LimKept(k)'
    BY <1>1, <2>1, <2>2
  <2>4. limWindow'[h] \in [start : 0..LimMaxTime, n : 0..LimQuota]
        /\ limAllowed'[h] \in Seq(0..LimMaxTime)
    BY <2>1 DEF LimKept, LimTyped
  <2>5. /\ limWindow' = [limWindow EXCEPT ![h] = limWindow'[h]]
        /\ limAllowed' = [limAllowed EXCEPT ![h] = limAllowed'[h]] /\ limRefused' = limRefused
    BY <1>2, <1>t DEF Allow
  <2>6. /\ limWindow' \in [LimKeys -> [start : 0..LimMaxTime, n : 0..LimQuota]]
        /\ limAllowed' \in [LimKeys -> Seq(0..LimMaxTime)]
    BY ONLY <1>t, <2>4, <2>5
  <2> QED BY <1>t, <2>2, <2>3, <2>5, <2>6
<1>3. ASSUME NEW h \in LimKeys, LimRefuse(h) 
      PROVE  /\ limTime' \in 0..LimMaxTime
             /\ limWindow' \in [LimKeys -> [start : 0..LimMaxTime, n : 0..LimQuota]]
             /\ limAllowed' \in [LimKeys -> Seq(0..LimMaxTime)]
             /\ limRefused' \in [LimKeys -> -1..LimMaxTime]
             /\ \A k \in LimKeys : LimKept(k)'
  <2>1. LimKept(h)'
    BY <1>3, LimRefuseKeeps
  <2>2. /\ limTime' = limTime /\ limWindow' = limWindow /\ limAllowed' = limAllowed
        /\ limRefused' = [limRefused EXCEPT ![h] = limTime]
    BY <1>3 DEF LimRefuse
  <2>3. \A k \in LimKeys : LimKept(k)'
    BY <1>t, <1>1, <2>1, <2>2
  <2>4. limRefused' \in [LimKeys -> -1..LimMaxTime]
    BY <1>t, <2>2
  <2> QED BY <1>t, <2>2, <2>3, <2>4
<1>4. CASE LimTick
  <2>1. \A k \in LimKeys : LimKept(k)'
    BY <1>4, LimTickKeeps
  <2>2. limTime' \in 0..LimMaxTime /\ limAllowed' = limAllowed /\ limRefused' = limRefused
    BY <1>4, <1>t, LimConstantsAssumption DEF LimTick
  <2>3. limWindow' \in [LimKeys -> [start : 0..LimMaxTime, n : 0..LimQuota]]
    <3>1. LimNoWindow \in [start : 0..LimMaxTime, n : 0..LimQuota]
      BY LimConstantsAssumption DEF LimNoWindow
    <3> QED BY <1>4, <1>t, <3>1 DEF LimTick, LimSweep
  <2> QED BY <1>t, <2>1, <2>2, <2>3
<1>5. CASE UNCHANGED limVars
  BY ONLY <1>5, <1>t DEF limVars, LimKept, LimTyped, LimOrdered, LimWindows, LimSpaced, LimCharged
<1> QED BY <1>2, <1>3, <1>4, <1>5 DEF LimNext

\* As many indices as asked for.
LEMMA LimSpan ==
    ASSUME NEW i \in Int, NEW q \in Nat
    PROVE  IsFiniteSet(i..(i + q - 1)) /\ Cardinality(i..(i + q - 1)) = q
<1> DEFINE e == i + q - 1
<1>1. e \in Int /\ (IF i > e THEN 0 ELSE e - i + 1) = q
  OBVIOUS
<1> HIDE DEF e
<1>2. IsFiniteSet(i..e) /\ Cardinality(i..e) = IF i > e THEN 0 ELSE e - i + 1
  BY <1>1, FS_Interval
<1>3. IsFiniteSet(i..e) /\ Cardinality(i..e) = q
  BY ONLY <1>1, <1>2
<1> QED BY ONLY <1>3 DEF e

\* LimInv implies what the limiter promises.
LEMMA LimInvSafe == LimInv => LimSafe
<1> SUFFICES ASSUME LimInv PROVE LimSafe
  OBVIOUS
<1>1. ASSUME NEW k \in LimKeys, NEW i \in 1..Len(limAllowed[k])
      PROVE  Cardinality({j \in i..Len(limAllowed[k]) :
                        limAllowed[k][j] - limAllowed[k][i] <= LimPeriod}) <= 2 * LimQuota
  <2> DEFINE a == limAllowed[k]
             n == Len(a)
             S == {j \in i..n : a[j] - a[i] <= LimPeriod}
             T == i..(i + 2 * LimQuota - 1)
  <2>1. /\ LimQuota \in Nat \ {0} /\ LimPeriod \in Nat \ {0} /\ n \in Nat
        /\ \A j \in 1..n : a[j] \in Nat
    BY LimNumbers
  <2>2. S \subseteq T
    <3> SUFFICES ASSUME NEW j \in i..n, a[j] - a[i] <= LimPeriod, j > i + 2 * LimQuota - 1
                 PROVE  FALSE
      <4>1. \A j \in i..n : ~(j > i + 2 * LimQuota - 1) => j \in T
        <5>1. n \in Nat /\ LimQuota \in Nat /\ i \in 1..n
          BY <2>1
        <5> HIDE DEF n
        <5> QED BY ONLY <5>1
      <4> HIDE DEF T
      <4> QED BY <4>1
    <3> DEFINE m == i + 2 * LimQuota
    <3>1. m \in 1..n /\ j \in m..n /\ m <= n
      <4>1. n \in Nat /\ LimQuota \in Nat \ {0} /\ i \in 1..n /\ j \in i..n
        BY <2>1
      <4>2. j > i + 2 * LimQuota - 1
        OBVIOUS
      <4> HIDE DEF n
      <4> QED BY ONLY <4>1, <4>2
    <3>2. a[i] + LimPeriod < a[m] /\ a[m] <= a[j]
      <4>1. LimSpaced(k) /\ LimOrdered(k)
        BY DEF LimInv
      <4>2. a[i] + LimPeriod < a[m]
        BY <3>1, <4>1 DEF LimSpaced
      <4>3. a[m] <= a[j]
        BY <3>1, <4>1 DEF LimOrdered
      <4> QED BY <4>2, <4>3
    <3>3. a[i] \in Nat /\ a[m] \in Nat /\ a[j] \in Nat /\ LimPeriod \in Nat
      <4>1. j \in 1..n
        BY <2>1, <3>1
      <4>2. i \in 1..n /\ m \in 1..n
        BY <3>1
      <4> HIDE DEF a, n, m
      <4> QED BY ONLY <2>1, <4>1, <4>2
    <3>4. \A x, y, z, d \in Nat : ~(z - x <= d /\ x + d < y /\ y <= z)
      OBVIOUS
    <3>5. a[j] - a[i] <= LimPeriod
      OBVIOUS
    <3> QED BY ONLY <3>2, <3>3, <3>4, <3>5
  <2>3. IsFiniteSet(T) /\ Cardinality(T) = 2 * LimQuota
    <3>1. i \in Int /\ 2 * LimQuota \in Nat
      BY <2>1
    <3> QED BY ONLY <3>1, LimSpan
  <2>4. Cardinality(S) <= Cardinality(T)
    BY <2>2, <2>3, FS_Subset
  <2> QED BY <2>3, <2>4
<1>2. ASSUME NEW k \in LimKeys, limRefused[k] >= 0
      PROVE  Cardinality({j \in 1..Len(limAllowed[k]) :
                limAllowed[k][j] <= limRefused[k] /\ limRefused[k] - limAllowed[k][j] <= LimPeriod})
                >= LimQuota
  <2> DEFINE a == limAllowed[k]
             n == Len(a)
             S == {j \in 1..n : a[j] <= limRefused[k] /\ limRefused[k] - a[j] <= LimPeriod}
  <2>1. /\ LimQuota \in Nat \ {0} /\ LimPeriod \in Nat \ {0} /\ n \in Nat /\ limRefused[k] \in Int
        /\ \A j \in 1..n : a[j] \in Nat
    BY LimNumbers
  <2>2. PICK i \in 1..n : /\ i + LimQuota <= n + 1
                          /\ \A j \in i..(i + LimQuota - 1) :
                                a[j] <= limRefused[k] /\ limRefused[k] <= a[j] + LimPeriod
    BY <1>2 DEF LimInv, LimCharged
  <2> DEFINE T == i..(i + LimQuota - 1)
  <2>3. T \subseteq S
    <3> SUFFICES ASSUME NEW j \in T PROVE j \in S
      OBVIOUS
    <3>1. j \in 1..n /\ a[j] <= limRefused[k] /\ limRefused[k] <= a[j] + LimPeriod
      BY <2>1, <2>2
    <3> QED BY <2>1, <3>1
  <2>4. IsFiniteSet(S)
    <3>1. IsFiniteSet(1..n)
      BY <2>1, FS_Interval
    <3> QED BY <3>1, FS_Subset
  <2>5. Cardinality(T) = LimQuota
    <3>1. i \in Int /\ LimQuota \in Nat
      BY <2>1
    <3> QED BY ONLY <3>1, LimSpan
  <2>6. Cardinality(T) <= Cardinality(S) /\ Cardinality(S) \in Nat
    BY <2>3, <2>4, FS_Subset, FS_CardinalityType
  <2> QED BY <2>1, <2>5, <2>6
<1> QED BY <1>1, <1>2 DEF LimSafe, LimQuotaHolds, LimRefusalEarned

-----------------------------------------------------------------------------
(***************************************************************************)
(* The agent's governor, for every rate, budget and number of readers.     *)
(***************************************************************************)

\* What the bucket still covers and what the worst stretch took are a bucket.
GovLevel == govBurst + GovFilled <= GovCapacity

\* A sleeper is due now or later, one that pauses in a tick.
GovSleeps(w) ==
    govReader[w].at \in {"pause", "wait"} =>
        /\ govReader[w].from <= govNow /\ govNow <= govReader[w].until
        /\ govReader[w].at = "pause" => govReader[w].until = govReader[w].from + 1

GovAllowance(now) == Max({GovGrace, now \div 2 + 1})

\* What a worker paused is part of what all did, and within the allowance; and
\* one that pauses now stays there with the tick it pauses.
GovOwes(w) ==
    /\ govHeld[w] <= govPaused /\ govHeld[w] <= govNow
    /\ govHeld[w] <= GovAllowance(govNow)
    /\ govReader[w].at = "pause" => /\ govHeld[w] <= govReader[w].from
                                    /\ govHeld[w] + 1 <= GovAllowance(govReader[w].from)

\* Since a worker queues and nobody was served, the bucket has filled at the
\* rate, and its wait ends when that is a whole bucket.
GovQueues(w) ==
    govReader[w].at \in {"io", "wait"} =>
        /\ govSince[w] <= govNow
        /\ govNow >= govSince[w] + 1 => GovFilled >= GovRate
        /\ govNow >= govSince[w] + 2 => GovFilled >= GovCapacity
        /\ govReader[w].at = "wait" => govReader[w].until <= govSince[w] + 2

GovInv ==
    /\ GovTypeOK /\ GovLevel
    /\ \A w \in GovWorkers : GovSleeps(w) /\ GovOwes(w) /\ GovQueues(w)

-----------------------------------------------------------------------------
(* Arithmetic *)

\* Min and Max of two numbers.
LEMMA GovMinMax ==
    ASSUME NEW a \in Int, NEW b \in Int
    PROVE  /\ Min({a, b}) = IF a <= b THEN a ELSE b
           /\ Max({a, b}) = IF a >= b THEN a ELSE b
  BY DEF Min, Max

\* The bucket is two ticks of the rate, and half of what there is grows with it.
LEMMA GovDivisions ==
    ASSUME NEW r \in Nat \ {0}
    PROVE  /\ (2 * r) \div r = 2
           /\ \A a \in Nat : a < 2 * r => a \div r <= 1
           /\ \A a \in Nat : a < r + r + r => a \div r <= 2
           /\ \A a \in Nat : a \div r \in Nat /\ a * r \in Nat /\ (a + 1) * r = a * r + r
  OBVIOUS

\* What halving in whole numbers keeps of an order.
LEMMA GovHalves ==
    ASSUME NEW a \in Nat
    PROVE  /\ a \div 2 \in Nat /\ (a + 1) \div 2 >= a \div 2
           /\ \A b \in Nat : 2 * b <= a => b <= a \div 2
  OBVIOUS

\* The allowance is a number that grows with the time, and covers one tick more
\* than was taken of it while the budget is not exceeded.
LEMMA GovAllows ==
    ASSUME NEW t \in Nat
    PROVE  /\ GovAllowance(t) \in Nat
           /\ GovAllowance(t + 1) >= GovAllowance(t)
           /\ \A b \in Nat : b <= t /\ t < GovGrace => b + 1 <= GovAllowance(t)
           /\ \A b \in Nat : 2 * b <= t => b + 1 <= GovAllowance(t)
<1>1. GovGrace \in Nat
  BY GovAssumption
<1> DEFINE h(x) == x \div 2
<1>2. h(t) \in Nat /\ h(t + 1) \in Nat /\ h(t + 1) >= h(t) /\ \A b \in Nat : 2 * b <= t => b <= h(t)
  BY GovHalves
<1>3. /\ GovAllowance(t) = IF GovGrace >= h(t) + 1 THEN GovGrace ELSE h(t) + 1
      /\ GovAllowance(t + 1) = IF GovGrace >= h(t + 1) + 1 THEN GovGrace ELSE h(t + 1) + 1
  <2>1. /\ GovAllowance(t) = Max({GovGrace, h(t) + 1})
        /\ GovAllowance(t + 1) = Max({GovGrace, h(t + 1) + 1})
    BY DEF GovAllowance
  <2>2. h(t) + 1 \in Int /\ h(t + 1) + 1 \in Int /\ GovGrace \in Int
    BY <1>1, <1>2
  <2> QED BY ONLY <2>1, <2>2, GovMinMax
<1> HIDE DEF h
<1> QED BY <1>1, <1>2, <1>3

-----------------------------------------------------------------------------
(* The bucket *)

\* The bucket stays within its size, whatever fills it or takes from it.
LEMMA GovFills ==
    ASSUME GovTypeOK
    PROVE  /\ GovFilled \in 0..GovCapacity
           /\ GovCapacity = GovRate + GovRate /\ GovRate \in Nat \ {0}
           /\ govTokens' \in 0..GovCapacity /\ govLast' = govNow' /\ govNow' \in Nat
                => GovFilled' = govTokens'
           /\ govTokens' = govTokens /\ govLast' = govLast /\ govNow' = govNow + 1
                => GovFilled' = IF GovFilled + GovRate <= GovCapacity THEN GovFilled + GovRate
                                ELSE GovCapacity
<1>1. /\ GovCapacity = GovRate + GovRate /\ GovRate \in Nat \ {0}
      /\ govTokens \in Nat /\ govTokens <= GovCapacity /\ GovCapacity \in Nat
      /\ govNow \in Nat /\ govLast \in Nat /\ govLast <= govNow
  BY GovAssumption DEF GovTypeOK, GovCapacity
<1> DEFINE since == govNow - govLast
           more == since * GovRate
<1>2. /\ since \in Nat /\ more \in Nat
      /\ (since + 1) * GovRate = more + GovRate
  <2>1. since \in Nat
    BY <1>1
  <2> HIDE DEF since
  <2> QED BY <1>1, <2>1, GovDivisions
<1>3. GovFilled = IF GovCapacity <= govTokens + more THEN GovCapacity ELSE govTokens + more
  BY <1>1, <1>2, GovMinMax DEF GovFilled
<1>4. ASSUME govTokens' \in 0..GovCapacity, govLast' = govNow', govNow' \in Nat
      PROVE  GovFilled' = govTokens'
  <2>0. govNow' - govLast' = 0
    <3>1. \A x \in Nat : x - x = 0
      OBVIOUS
    <3> QED BY ONLY <1>4, <3>1
  <2>1. (govNow' - govLast') * GovRate = 0
    BY <1>1, <2>0
  <2>2. GovFilled' = Min({GovCapacity, govTokens' + (govNow' - govLast') * GovRate})
    BY DEF GovFilled, GovCapacity
  <2>3. GovFilled' = Min({GovCapacity, govTokens'})
    BY <1>1, <1>4, <2>1, <2>2
  <2>4. govTokens' \in Int /\ GovCapacity \in Int /\ govTokens' <= GovCapacity
    BY <1>1, <1>4
  <2> QED BY ONLY <2>3, <2>4, GovMinMax
<1>5. ASSUME govTokens' = govTokens, govLast' = govLast, govNow' = govNow + 1
      PROVE  GovFilled' = IF GovFilled + GovRate <= GovCapacity THEN GovFilled + GovRate
                          ELSE GovCapacity
  <2>1. govNow' - govLast' = since + 1
    BY <1>1, <1>5
  <2>2. GovFilled' = Min({GovCapacity, govTokens' + (govNow' - govLast') * GovRate})
    BY DEF GovFilled, GovCapacity
  <2>3. GovFilled' = Min({GovCapacity, govTokens + (more + GovRate)})
    BY <1>2, <1>5, <2>1, <2>2
  <2> HIDE DEF since, more
  <2>4. GovFilled' = IF GovCapacity <= govTokens + (more + GovRate) THEN GovCapacity
                     ELSE govTokens + (more + GovRate)
    BY <1>1, <1>2, <2>3, GovMinMax
  <2> QED BY ONLY <1>1, <1>2, <1>3, <2>4
<1>6. GovFilled \in 0..GovCapacity
  BY ONLY <1>1, <1>2, <1>3
<1> QED BY <1>1, <1>4, <1>5, <1>6

\* What a worker wants is at most a full bucket.
LEMMA GovWants ==
    ASSUME GovTypeOK, NEW w \in GovWorkers
    PROVE  GovWant(w) \in 0..GovCapacity
<1>1. govReader[w].size \in Nat /\ GovCapacity \in Nat
  BY GovAssumption DEF GovTypeOK, GovCapacity
<1> QED BY <1>1, GovMinMax DEF GovWant

\* A wait takes a tick at least, and ends when a tick of the rate, or two,
\* cover what is missing.
LEMMA GovWaits ==
    ASSUME NEW deficit \in Nat
    PROVE  /\ GovWait(deficit) \in Nat \ {0}
           /\ deficit <= GovRate => GovWait(deficit) = 1
           /\ deficit <= GovRate + GovRate => GovWait(deficit) <= 2
<1>1. GovRate \in Nat \ {0} /\ GovMaxWait \in Nat \ {0}
  BY GovAssumption
<1> DEFINE ticks == (deficit + GovRate - 1) \div GovRate
<1>2. /\ ticks \in Nat
      /\ deficit <= GovRate => ticks <= 1
      /\ deficit <= GovRate + GovRate => ticks <= 2
  <2>1. /\ deficit + GovRate - 1 \in Nat
        /\ deficit <= GovRate => deficit + GovRate - 1 < 2 * GovRate
        /\ deficit <= GovRate + GovRate => deficit + GovRate - 1 < GovRate + GovRate + GovRate
    BY <1>1
  <2> QED BY <1>1, <2>1, GovDivisions
<1> HIDE DEF ticks
<1>3. Min({GovMaxWait, ticks}) = IF GovMaxWait <= ticks THEN GovMaxWait ELSE ticks
  BY <1>1, <1>2, GovMinMax
<1>4. Min({GovMaxWait, ticks}) \in Nat
  BY <1>1, <1>2, <1>3
<1>5. GovWait(deficit) = IF 1 >= Min({GovMaxWait, ticks}) THEN 1 ELSE Min({GovMaxWait, ticks})
  <2>1. GovWait(deficit) = Max({1, Min({GovMaxWait, ticks})})
    BY DEF GovWait, ticks
  <2>2. Min({GovMaxWait, ticks}) \in Int /\ 1 \in Int
    BY <1>4
  <2> QED BY ONLY <2>1, <2>2, GovMinMax
<1> QED BY <1>1, <1>2, <1>3, <1>4, <1>5

-----------------------------------------------------------------------------
(* One worker at a time *)

GovReaders == [at : {"idle", "load", "pause", "io", "wait"}, size : Nat, from : 0..GovMaxTime,
               until : Nat]

\* A worker that is elsewhere afterwards, with the rest of the governor as it
\* was but for what was paused.
LEMMA GovOneMoves ==
    ASSUME GovInv, NEW w \in GovWorkers,
           \A v \in GovWorkers \ {w} :
              /\ govReader'[v] = govReader[v] /\ govHeld'[v] = govHeld[v]
              /\ govSince'[v] = govSince[v],
           UNCHANGED <<govNow, govTokens, govLast, govCancelled, govBurst>>,
           govPaused' \in Nat, govPaused' >= govPaused,
           govThrottled' \in BOOLEAN, govGaveUp' \in BOOLEAN,
           govReader' \in [GovWorkers -> GovReaders], govHeld' \in [GovWorkers -> Nat],
           govSince' \in [GovWorkers -> 0..GovMaxTime],
           GovSleeps(w)', GovOwes(w)', GovQueues(w)'
    PROVE  GovInv'
<1>1. GovTypeOK
  BY DEF GovInv
<1>2. GovTypeOK'
  BY <1>1 DEF GovTypeOK, GovReaders, GovCapacity
<1>3. GovFilled' = GovFilled
  BY DEF GovFilled
<1>4. GovLevel'
  BY <1>3 DEF GovInv, GovLevel
<1>5. ASSUME NEW v \in GovWorkers, v # w PROVE GovSleeps(v)' /\ GovOwes(v)' /\ GovQueues(v)'
  <2>1. govReader'[v] = govReader[v] /\ govHeld'[v] = govHeld[v] /\ govSince'[v] = govSince[v]
    BY <1>5
  <2>2. GovSleeps(v) /\ GovOwes(v) /\ GovQueues(v)
    BY DEF GovInv
  <2>3. GovSleeps(v)' /\ GovQueues(v)'
    BY <1>3, <2>1, <2>2 DEF GovSleeps, GovQueues
  <2>4. govHeld[v] \in Nat /\ govPaused \in Nat
    BY <1>1 DEF GovTypeOK
  <2>5. GovAllowance(govNow)' = GovAllowance(govNow)
    OBVIOUS
  <2>6. GovOwes(v)'
    BY <2>1, <2>2, <2>4, <2>5 DEF GovOwes
  <2> QED BY <2>3, <2>6
<1> QED BY <1>2, <1>4, <1>5 DEF GovInv

-----------------------------------------------------------------------------
(* The invariant *)

\* GovInv holds initially.
LEMMA GovInvInit == GovInit => GovInv
<1> SUFFICES ASSUME GovInit PROVE GovInv
  OBVIOUS
<1>1. GovCapacity \in Nat /\ GovGrace \in Nat /\ GovMaxTime \in Nat
  BY GovAssumption DEF GovCapacity
<1>2. GovTypeOK
  <2>1. GovIdle \in GovReaders
    BY <1>1 DEF GovIdle, GovReaders
  <2>2. govReader \in [GovWorkers -> GovReaders]
    BY <2>1 DEF GovInit
  <2>3. govHeld \in [GovWorkers -> Nat] /\ govSince \in [GovWorkers -> 0..GovMaxTime]
    BY <1>1 DEF GovInit
  <2>4. govThrottled \in BOOLEAN /\ govGaveUp \in BOOLEAN /\ govCancelled \in BOOLEAN
    BY DEF GovInit
  <2>5. /\ govNow \in 0..GovMaxTime /\ govPaused \in Nat /\ govTokens \in 0..GovCapacity
        /\ govLast \in 0..govNow /\ govBurst \in Nat
    BY <1>1 DEF GovInit
  <2> QED BY <2>2, <2>3, <2>4, <2>5 DEF GovTypeOK, GovReaders
<1>3. GovLevel
  BY <1>1, <1>2, GovFills DEF GovInit, GovLevel
<1>4. GovAllowance(0) \in Nat
  BY GovAllows
<1> QED BY <1>2, <1>3, <1>4 DEF GovInv, GovInit, GovIdle, GovSleeps, GovOwes, GovQueues

\* Every step keeps GovInv.
LEMMA GovInvStep == GovInv /\ [GovNext]_govVars => GovInv'
<1> SUFFICES ASSUME GovInv, [GovNext]_govVars PROVE GovInv'
  OBVIOUS
<1>t. GovTypeOK
  BY DEF GovInv
<1>n. /\ govNow \in 0..GovMaxTime /\ GovMaxTime \in Nat /\ govPaused \in Nat /\ govBurst \in Nat
      /\ govTokens \in 0..GovCapacity /\ govLast \in 0..govNow
      /\ govThrottled \in BOOLEAN /\ govGaveUp \in BOOLEAN /\ govCancelled \in BOOLEAN
      /\ GovCapacity \in Nat /\ GovGrace \in Nat
  BY <1>t, GovAssumption DEF GovTypeOK, GovCapacity
<1>w. \A w \in GovWorkers :
         /\ govReader[w] \in GovReaders /\ govHeld[w] \in Nat /\ govSince[w] \in 0..GovMaxTime
         /\ GovSleeps(w) /\ GovOwes(w) /\ GovQueues(w)
  BY <1>t DEF GovInv, GovTypeOK, GovReaders
<1>s. /\ govHeld \in [GovWorkers -> Nat] /\ govSince \in [GovWorkers -> 0..GovMaxTime]
      /\ govReader \in [GovWorkers -> GovReaders]
  BY <1>t DEF GovTypeOK, GovReaders
<1>m. ASSUME NEW w \in GovWorkers, NEW r \in GovReaders, govReader' = [govReader EXCEPT ![w] = r]
      PROVE  /\ govReader' \in [GovWorkers -> GovReaders] /\ govReader'[w] = r
             /\ \A v \in GovWorkers \ {w} : govReader'[v] = govReader[v]
  BY <1>s, <1>m
<1>i. GovIdle \in GovReaders
  BY <1>n DEF GovIdle, GovReaders
<1>1. ASSUME NEW w \in GovWorkers, NEW size \in GovSizes, GateCalled(w, size) PROVE GovInv'
  <2> DEFINE r == [GovIdle EXCEPT !.at = "load", !.size = size]
  <2>1. r \in GovReaders /\ r.at = "load"
    <3>1. size \in Nat /\ GovIdle \in GovReaders
      BY <1>i, GovAssumption
    <3> QED BY <3>1 DEF GovReaders
  <2>2. govReader' = [govReader EXCEPT ![w] = r] /\ UNCHANGED <<govNow, govThrottled, govGaveUp,
           govPaused, govTokens, govLast, govCancelled, govBurst, govHeld, govSince>>
    BY <1>1 DEF GateCalled
  <2> HIDE DEF r
  <2>3. /\ govReader' \in [GovWorkers -> GovReaders] /\ govReader'[w] = r
        /\ \A v \in GovWorkers \ {w} : govReader'[v] = govReader[v]
    BY <1>m, <2>1, <2>2
  <2>4. GovSleeps(w)' /\ GovOwes(w)' /\ GovQueues(w)'
    BY <1>w, <2>1, <2>2, <2>3 DEF GovSleeps, GovOwes, GovQueues
  <2> QED BY <1>n, <1>s, <2>2, <2>3, <2>4, GovOneMoves
<1>2. ASSUME NEW w \in GovWorkers, GateLoad(w) PROVE GovInv'
  <2>1. CASE govThrottled /\ ~govGaveUp /\ ~GovBudgetExceeded
    <3> DEFINE r == [govReader[w] EXCEPT !.at = "pause", !.from = govNow, !.until = govNow + 1]
    <3>1. /\ r \in GovReaders
          /\ r.at = "pause" /\ r.from = govNow /\ r.until = govNow + 1
      <4>1. govReader[w] \in GovReaders /\ govNow + 1 \in Nat
        BY <1>n, <1>w
      <4> QED BY <1>n, <4>1 DEF GovReaders
    <3>2. govReader' = [govReader EXCEPT ![w] = r] /\ UNCHANGED <<govNow, govThrottled, govGaveUp,
             govPaused, govTokens, govLast, govCancelled, govBurst, govHeld, govSince>>
      BY <1>2, <2>1 DEF GateLoad
    <3> HIDE DEF r
    <3>3. /\ govReader' \in [GovWorkers -> GovReaders] /\ govReader'[w] = r
          /\ \A v \in GovWorkers \ {w} : govReader'[v] = govReader[v]
      BY <1>m, <3>1, <3>2
    <3>4. govHeld[w] + 1 <= GovAllowance(govNow)
      <4>1. /\ govHeld[w] \in Nat /\ govHeld[w] <= govPaused /\ govHeld[w] <= govNow
            /\ govNow < GovGrace \/ 2 * govHeld[w] <= govNow
        BY <1>n, <1>w, <2>1 DEF GovOwes, GovBudgetExceeded
      <4> QED BY <1>n, <4>1, GovAllows
    <3>5. GovSleeps(w)'
      BY <1>n, <3>1, <3>2, <3>3 DEF GovSleeps
    <3>6. GovQueues(w)'
      BY <3>1, <3>3 DEF GovQueues
    <3>7. GovOwes(w)'
      BY <1>w, <3>1, <3>2, <3>3, <3>4 DEF GovOwes
    <3> QED BY <1>n, <1>s, <3>2, <3>3, <3>5, <3>6, <3>7, GovOneMoves
  <2>2. CASE ~(govThrottled /\ ~govGaveUp /\ ~GovBudgetExceeded)
    <3> DEFINE r == [govReader[w] EXCEPT !.at = "io"]
    <3>1. r \in GovReaders /\ r.at = "io"
      BY <1>w DEF GovReaders
    <3>2. /\ govReader' = [govReader EXCEPT ![w] = r] /\ govSince' = [govSince EXCEPT ![w] = govNow]
          /\ govGaveUp' = (govGaveUp \/ govThrottled)
          /\ UNCHANGED <<govNow, govThrottled, govPaused, govTokens, govLast, govCancelled, govBurst,
                         govHeld>>
      BY <1>2, <2>2 DEF GateLoad, GovAt
    <3> HIDE DEF r
    <3>3. /\ govReader' \in [GovWorkers -> GovReaders] /\ govReader'[w] = r
          /\ \A v \in GovWorkers \ {w} : govReader'[v] = govReader[v]
      BY <1>m, <3>1, <3>2
    <3>a. /\ govSince' \in [GovWorkers -> 0..GovMaxTime] /\ govSince'[w] = govNow
          /\ \A v \in GovWorkers \ {w} : govSince'[v] = govSince[v]
      BY <1>n, <1>s, <3>2
    <3>4. GovSleeps(w)'
      BY <3>1, <3>3 DEF GovSleeps
    <3>5. GovQueues(w)'
      BY <1>n, <3>1, <3>2, <3>3, <3>a DEF GovQueues
    <3>6. GovOwes(w)'
      BY <1>w, <3>1, <3>2, <3>3 DEF GovOwes
    <3>7. govGaveUp' \in BOOLEAN
      BY <3>2
    <3> QED BY <1>n, <1>s, <3>2, <3>3, <3>a, <3>4, <3>5, <3>6, <3>7, GovOneMoves
  <2> QED BY <2>1, <2>2
<1>3. ASSUME NEW w \in GovWorkers, GateWake(w) PROVE GovInv'
  <2>0. PICK place \in {"load", "io"} :
           /\ govReader[w].at \in {"pause", "wait"}
           /\ place = "load" <=> govReader[w].at = "pause"
           /\ GovWoken(w, govReader[w].at) /\ GovBack(w, place)
    BY <1>3 DEF GateWake, GovWoken
  <2>1. CASE govCancelled
    <3>1. govReader' = [govReader EXCEPT ![w] = GovIdle] /\ UNCHANGED <<govNow, govThrottled,
             govGaveUp, govPaused, govTokens, govLast, govCancelled, govBurst, govHeld, govSince>>
      BY <1>3, <2>0, <2>1 DEF GateWake, GovBack
    <3>2. /\ govReader' \in [GovWorkers -> GovReaders] /\ govReader'[w] = GovIdle
          /\ \A v \in GovWorkers \ {w} : govReader'[v] = govReader[v]
      BY <1>i, <1>m, <3>1
    <3>3. GovSleeps(w)' /\ GovOwes(w)' /\ GovQueues(w)'
      BY <1>w, <3>1, <3>2 DEF GovSleeps, GovOwes, GovQueues, GovIdle
    <3> QED BY <1>n, <1>s, <3>1, <3>2, <3>3, GovOneMoves
  <2>2. CASE ~govCancelled
    <3> DEFINE r == [govReader[w] EXCEPT !.at = place, !.from = 0, !.until = 0]
               slept == govNow - govReader[w].from
               held == IF govReader[w].at = "pause" THEN govHeld[w] + slept ELSE govHeld[w]
    <3>1. r \in GovReaders /\ r.at = place
      <4>1. govReader[w] \in GovReaders /\ 0 \in 0..GovMaxTime
        BY <1>n, <1>w
      <4> QED BY <4>1 DEF GovReaders
    <3>2. /\ govReader' = [govReader EXCEPT ![w] = r] /\ govPaused' = govPaused + slept
          /\ UNCHANGED <<govNow, govThrottled, govGaveUp, govTokens, govLast, govCancelled, govBurst,
                         govSince>>
      BY <1>3, <2>0, <2>2 DEF GateWake, GovBack
    <3>3. govHeld' = [govHeld EXCEPT ![w] = held]
      BY <1>3, <1>s, <2>2 DEF GateWake
    <3>4. /\ slept \in Nat
          /\ govReader[w].at = "pause" => slept = 1 /\ govReader[w].from + 1 = govNow
      <4>1. /\ govReader[w].from <= govNow /\ govNow <= govReader[w].until
            /\ govReader[w].at = "pause" => govReader[w].until = govReader[w].from + 1
            /\ govReader[w].until <= govNow
        BY <1>w, <2>0, <2>2 DEF GovSleeps, GovWoken
      <4>2. govReader[w].from \in Nat /\ govReader[w].until \in Nat /\ govNow \in Nat
        BY <1>n, <1>w DEF GovReaders
      <4> QED BY ONLY <4>1, <4>2
    <3> HIDE DEF r, slept
    <3>6. held \in Nat /\ govPaused' \in Nat /\ govPaused' >= govPaused
      BY <1>n, <1>w, <3>2, <3>4
    <3> HIDE DEF held
    <3>5. /\ govReader' \in [GovWorkers -> GovReaders] /\ govReader'[w] = r
          /\ \A v \in GovWorkers \ {w} : govReader'[v] = govReader[v]
      BY <1>m, <3>1, <3>2
    <3>a. /\ govHeld' \in [GovWorkers -> Nat] /\ govHeld'[w] = held
          /\ \A v \in GovWorkers \ {w} : govHeld'[v] = govHeld[v]
      BY <1>s, <3>3, <3>6
    <3> USE DEF held
    <3>7. held <= govPaused' /\ held <= govNow /\ held <= GovAllowance(govNow)
      <4>1. CASE govReader[w].at = "pause"
        <5>1. /\ govHeld[w] <= govReader[w].from /\ govHeld[w] + 1 <= GovAllowance(govReader[w].from)
              /\ govHeld[w] <= govPaused /\ held = govHeld[w] + 1
          BY <1>w, <3>4, <4>1 DEF GovOwes
        <5>2. govReader[w].from \in Nat /\ govHeld[w] \in Nat
          BY <1>w, <1>n DEF GovReaders
        <5>3. /\ GovAllowance(govReader[w].from) \in Nat /\ GovAllowance(govNow) \in Nat
              /\ GovAllowance(govNow) >= GovAllowance(govReader[w].from)
          BY <1>n, <3>4, <4>1, <5>2, GovAllows
        <5> QED BY <1>n, <3>2, <3>4, <4>1, <5>1, <5>2, <5>3
      <4>2. CASE govReader[w].at # "pause"
        BY <1>n, <1>w, <3>2, <3>4, <4>2 DEF GovOwes
      <4> QED BY <4>1, <4>2
    <3> HIDE DEF held
    <3>8. GovSleeps(w)'
      BY <3>1, <3>5 DEF GovSleeps
    <3>9. GovFilled' = GovFilled
      BY <3>2 DEF GovFilled
    <3>10. GovQueues(w)'
      BY <1>w, <2>0, <3>1, <3>2, <3>5, <3>9 DEF GovQueues
    <3>11. GovOwes(w)'
      BY <3>1, <3>2, <3>5, <3>a, <3>7 DEF GovOwes
    <3> QED BY <1>n, <1>s, <3>2, <3>5, <3>a, <3>6, <3>8, <3>10, <3>11, GovOneMoves
  <2> QED BY <2>1, <2>2
<1>4. ASSUME NEW w \in GovWorkers, GateIO(w) PROVE GovInv'
  <2>0. /\ GovFilled \in 0..GovCapacity /\ GovWant(w) \in 0..GovCapacity
        /\ GovCapacity = GovRate + GovRate /\ GovRate \in Nat \ {0}
    BY <1>t, GovFills, GovWants
  <2>e. govReader[w].at = "io" /\ govLast' = govNow
        /\ UNCHANGED <<govNow, govThrottled, govGaveUp, govPaused, govCancelled, govHeld>>
    BY <1>4 DEF GateIO
  <2>1. CASE GovFilled >= GovWant(w)
    <3>1. /\ govTokens' = GovFilled - GovWant(w) /\ govBurst' = govBurst + GovWant(w)
          /\ govReader' = [govReader EXCEPT ![w] = GovIdle]
          /\ govSince' = [v \in GovWorkers |-> IF v = w THEN 0 ELSE govNow]
      BY <1>4, <2>1 DEF GateIO
    <3>2. govTokens' \in 0..GovCapacity /\ govBurst' \in Nat
      BY <1>n, <2>0, <2>1, <3>1
    <3>3. GovFilled' = GovFilled - GovWant(w)
      BY <1>t, <1>n, <2>e, <3>1, <3>2, GovFills
    <3>4. GovLevel'
      <4>1. govBurst + GovFilled <= GovCapacity /\ GovCapacity' = GovCapacity
        BY DEF GovInv, GovLevel, GovCapacity
      <4> QED BY <1>n, <2>0, <3>1, <3>3, <4>1 DEF GovLevel
    <3>5. GovTypeOK'
      BY <1>t, <1>i, <1>n, <2>e, <3>1, <3>2 DEF GovTypeOK, GovReaders, GovCapacity
    <3>6. ASSUME NEW v \in GovWorkers PROVE GovSleeps(v)' /\ GovOwes(v)' /\ GovQueues(v)'
      <4>1. CASE v = w
        <5>1. govReader'[v].at = "idle" /\ govHeld'[v] = govHeld[v]
          BY <1>s, <2>e, <3>1, <4>1 DEF GovIdle
        <5> QED BY <1>w, <2>e, <5>1 DEF GovSleeps, GovOwes, GovQueues
      <4>2. CASE v # w
        <5>1. govReader'[v] = govReader[v] /\ govHeld'[v] = govHeld[v] /\ govSince'[v] = govNow
          BY <1>s, <2>e, <3>1, <4>2
        <5>2. GovSleeps(v)' /\ GovOwes(v)'
          BY <1>w, <2>e, <5>1 DEF GovSleeps, GovOwes
        <5>3. govReader[v].at = "wait" => govReader[v].until <= govNow + 2
          <6>1. /\ govReader[v].until \in Nat /\ govSince[v] \in Nat /\ govNow \in Nat
                /\ govReader[v].at = "wait" => govSince[v] <= govNow
                                               /\ govReader[v].until <= govSince[v] + 2
            BY <1>n, <1>w DEF GovQueues, GovReaders
          <6> QED BY ONLY <6>1
        <5>4. GovQueues(v)'
          BY <1>n, <2>e, <5>1, <5>3 DEF GovQueues
        <5> QED BY <5>2, <5>4
      <4> QED BY <4>1, <4>2
    <3> QED BY <3>4, <3>5, <3>6 DEF GovInv
  <2>2. CASE GovFilled < GovWant(w)
    <3> DEFINE deficit == GovWant(w) - GovFilled
               until == govNow + GovWait(deficit)
               r == [govReader[w] EXCEPT !.at = "wait", !.from = govNow, !.until = until]
    <3>0. ~(GovFilled >= GovWant(w)) /\ deficit \in Nat
      BY <2>0, <2>2
    <3>1. /\ govTokens' = GovFilled /\ govReader' = [govReader EXCEPT ![w] = r]
          /\ UNCHANGED <<govBurst, govSince>>
      BY <1>4, <3>0 DEF GateIO
    <3> HIDE DEF deficit
    <3>2. /\ GovWait(deficit) \in Nat \ {0}
          /\ deficit <= GovRate => GovWait(deficit) = 1
          /\ deficit <= GovRate + GovRate => GovWait(deficit) <= 2
      BY <3>0, GovWaits
    <3>3. until \in Nat /\ until > govNow /\ until <= govSince[w] + 2
      <4>1. /\ govSince[w] <= govNow /\ govSince[w] \in Nat /\ govNow \in Nat
            /\ govNow >= govSince[w] + 1 => GovFilled >= GovRate
            /\ govNow >= govSince[w] + 2 => GovFilled >= GovCapacity
        BY <1>n, <1>w, <2>e DEF GovQueues
      <4>2. /\ govNow < govSince[w] + 2
            /\ govNow >= govSince[w] + 1 => deficit <= GovRate
            /\ deficit <= GovRate + GovRate
        BY <2>0, <2>2, <3>0, <4>1 DEF deficit
      <4> QED BY ONLY <3>2, <4>1, <4>2
    <3>4. r \in GovReaders /\ r.at = "wait" /\ r.from = govNow /\ r.until = until
      BY <1>n, <1>w, <3>3 DEF GovReaders
    <3> HIDE DEF r, until
    <3>5. govReader'[w] = r
      BY <1>s, <3>1
    <3>6. GovFilled' = GovFilled
      BY <1>t, <1>n, <2>0, <2>e, <3>1, GovFills
    <3>7. GovLevel'
      BY <3>1, <3>6 DEF GovInv, GovLevel, GovCapacity
    <3>8. GovTypeOK'
      BY <1>t, <1>n, <2>0, <2>e, <3>1, <3>4 DEF GovTypeOK, GovReaders, GovCapacity
    <3>9. ASSUME NEW v \in GovWorkers PROVE GovSleeps(v)' /\ GovOwes(v)' /\ GovQueues(v)'
      <4>1. CASE v = w
        <5>1. GovSleeps(w)'
          BY <1>n, <2>e, <3>3, <3>4, <3>5 DEF GovSleeps
        <5>2. GovOwes(w)'
          BY <1>w, <2>e, <3>4, <3>5 DEF GovOwes
        <5>3. GovQueues(w)'
          BY <1>w, <2>e, <3>1, <3>3, <3>4, <3>5, <3>6 DEF GovQueues, GovCapacity
        <5> QED BY <4>1, <5>1, <5>2, <5>3
      <4>2. CASE v # w
        <5>1. govReader'[v] = govReader[v]
          BY <1>s, <3>1, <4>2
        <5> QED BY <1>w, <2>e, <3>1, <3>6, <5>1 DEF GovSleeps, GovOwes, GovQueues, GovCapacity
      <4> QED BY <4>1, <4>2
    <3> QED BY <3>7, <3>8, <3>9 DEF GovInv
  <2> QED BY <2>0, <2>1, <2>2
<1>5. CASE SampleLoad \/ GovCancel \/ UNCHANGED govVars
  <2>1. /\ UNCHANGED <<govNow, govGaveUp, govPaused, govTokens, govLast, govReader, govBurst, govHeld,
                       govSince>>
        /\ govThrottled' \in BOOLEAN /\ govCancelled' \in BOOLEAN
    BY <1>5, <1>n DEF SampleLoad, GovCancel, govVars
  <2>2. GovTypeOK' /\ GovLevel'
    BY <1>t, <2>1 DEF GovTypeOK, GovInv, GovLevel, GovFilled, GovCapacity
  <2>3. GovFilled' = GovFilled
    BY <2>1 DEF GovFilled
  <2>4. \A w \in GovWorkers : GovSleeps(w)' /\ GovOwes(w)' /\ GovQueues(w)'
    BY <1>w, <2>1, <2>3 DEF GovSleeps, GovOwes, GovQueues
  <2> QED BY <2>2, <2>4 DEF GovInv
<1>6. CASE GovTick
  <2>1. /\ govNow' = govNow + 1 /\ govNow < GovMaxTime /\ govBurst' = Max({0, govBurst - GovRate})
        /\ UNCHANGED <<govThrottled, govGaveUp, govPaused, govTokens, govLast, govReader, govCancelled,
                       govHeld, govSince>>
    BY <1>6 DEF GovTick
  <2>0. /\ GovFilled \in 0..GovCapacity
        /\ GovCapacity = GovRate + GovRate /\ GovRate \in Nat \ {0}
        /\ GovFilled' = IF GovFilled + GovRate <= GovCapacity THEN GovFilled + GovRate ELSE GovCapacity
    BY <1>t, <2>1, GovFills
  <2>2. govBurst' = IF govBurst - GovRate <= 0 THEN 0 ELSE govBurst - GovRate
    <3>1. govBurst - GovRate \in Int /\ 0 \in Int
      BY <1>n, <2>0
    <3>2. Max({0, govBurst - GovRate}) = IF 0 >= govBurst - GovRate THEN 0 ELSE govBurst - GovRate
      BY ONLY <3>1, GovMinMax
    <3> QED BY <2>1, <3>1, <3>2
  <2>3. GovLevel'
    <3>1. govBurst + GovFilled <= GovCapacity /\ GovCapacity' = GovCapacity
      BY DEF GovInv, GovLevel, GovCapacity
    <3>2. govBurst' + GovFilled' <= GovCapacity
      BY ONLY <1>n, <2>0, <2>2, <3>1
    <3> QED BY <3>1, <3>2 DEF GovLevel
  <2>4. GovTypeOK'
    <3>1. govNow' \in 0..GovMaxTime /\ govBurst' \in Nat /\ govLast' \in 0..govNow'
      BY <1>n, <2>0, <2>1, <2>2
    <3> QED BY <1>t, <2>1, <3>1 DEF GovTypeOK, GovCapacity
  <2>5. ASSUME NEW w \in GovWorkers PROVE GovSleeps(w)' /\ GovOwes(w)' /\ GovQueues(w)'
    <3>1. \/ govReader[w].at = "idle"
          \/ govReader[w].at \in {"pause", "wait"} /\ govReader[w].until > govNow
      BY <1>6 DEF GovTick
    <3>2. /\ govReader[w].from \in Nat /\ govReader[w].until \in Nat
          /\ govHeld[w] \in Nat /\ govSince[w] \in Nat /\ govNow \in Nat
      BY <1>n, <1>w DEF GovReaders
    <3>3. GovSleeps(w)'
      BY <1>w, <2>1, <3>1, <3>2 DEF GovSleeps
    <3>4. GovOwes(w)'
      <4>1. GovAllowance(govNow) \in Nat /\ GovAllowance(govNow + 1) \in Nat
            /\ GovAllowance(govNow + 1) >= GovAllowance(govNow)
        BY <3>2, GovAllows
      <4> QED BY <1>w, <2>1, <3>2, <4>1 DEF GovOwes
    <3>5. GovQueues(w)'
      <4>1. CASE govReader[w].at = "wait"
        <5>1. /\ govSince[w] <= govNow /\ govReader[w].until <= govSince[w] + 2
              /\ govNow >= govSince[w] + 1 => GovFilled >= GovRate
              /\ govNow >= govSince[w] + 2 => GovFilled >= GovCapacity
          BY <1>w, <4>1 DEF GovQueues
        <5>2. /\ govSince[w] <= govNow + 1
              /\ govNow + 1 >= govSince[w] + 1 => GovFilled' >= GovRate
              /\ govNow + 1 >= govSince[w] + 2 => GovFilled' >= GovCapacity
          BY ONLY <2>0, <3>2, <5>1
        <5> QED BY <2>1, <5>1, <5>2 DEF GovQueues, GovCapacity
      <4>2. CASE govReader[w].at # "wait"
        BY <2>1, <3>1, <4>2 DEF GovQueues
      <4> QED BY <4>1, <4>2
    <3> QED BY <3>3, <3>4, <3>5
  <2> QED BY <2>3, <2>4, <2>5 DEF GovInv
<1> QED
  BY <1>1, <1>2, <1>3, <1>4, <1>5, <1>6 DEF GovNext

\* GovInv implies what the governor promises.
LEMMA GovInvSafe == GovInv => GovSafe
<1> SUFFICES ASSUME GovInv PROVE GovSafe
  OBVIOUS
<1>t. GovTypeOK
  BY DEF GovInv
<1>0. /\ govNow \in Nat /\ govBurst \in Nat /\ GovFilled \in 0..GovCapacity
      /\ GovRate \in Nat \ {0} /\ GovCapacity \in Nat
  BY <1>t, GovFills DEF GovTypeOK
<1>1. GovRateHolds
  BY <1>0 DEF GovInv, GovLevel, GovRateHolds
<1>2. GovNeverCrawls
  BY DEF GovInv, GovOwes, GovNeverCrawls, GovAllowance
<1>3. GovNoneStuck
  <2> SUFFICES ASSUME NEW w \in GovWorkers, govReader[w].at = "wait"
               PROVE  govNow - govSince[w] <= GovCapacity \div GovRate
    BY DEF GovNoneStuck
  <2>1. GovCapacity \div GovRate = 2
    BY <1>0, GovDivisions DEF GovCapacity
  <2>2. govReader[w].until \in Nat /\ govSince[w] \in Nat
    BY <1>t DEF GovTypeOK
  <2>3. govNow <= govReader[w].until /\ govReader[w].until <= govSince[w] + 2
    BY DEF GovInv, GovSleeps, GovQueues
  <2> QED BY <1>0, <2>1, <2>2, <2>3
<1> QED BY <1>1, <1>2, <1>3 DEF GovSafe
-----------------------------------------------------------------------------
(* Both *)

\* server.go's limiter admits a key at most twice its quota in any stretch as long as
\* the period, and refuses it only for a whole quota admitted within one;
\* govern.go's readers together take no more than the bucket and the rate over
\* any stretch, its load gate holds none longer than the grace or half the run,
\* and a reader nobody overtakes is through when an empty bucket has filled.
THEOREM LimitsAlwaysHold == LimSpec /\ GovSpec => []LimitsHold
<1>1. LimInit /\ GovInit => LimInv /\ GovInv
  BY LimInvInit, GovInvInit
<1>2. /\ LimInv /\ [LimNext]_limVars => LimInv'
      /\ GovInv /\ [GovNext]_govVars => GovInv'
  BY LimInvStep, GovInvStep
<1>3. LimInv /\ GovInv => LimitsHold
  BY LimInvSafe, GovInvSafe DEF LimitsHold
<1> QED BY <1>1, <1>2, <1>3, PTL DEF LimSpec, GovSpec
=============================================================================
