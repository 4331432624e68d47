----------------------------- MODULE Consensus ------------------------------
(***************************************************************************)
(* Which files an estate vouches for (internal/store/consensus.go,         *)
(* Correlate in internal/store/store.go) and how the answer reaches the    *)
(* scans of its agents (handleVendorPack in internal/console/ingest.go,    *)
(* internal/agent/vendorpack.go, fetchVendorPack in                        *)
(* internal/agent/client.go).                                              *)
(*                                                                         *)
(* Time is counted in units of a third of the burst window.  A path is     *)
(* known by the plugin or theme directory that owns it.  The read-only     *)
(* statements that answer one request are one step.                        *)
(***************************************************************************)
EXTENDS Naturals, FiniteSets, FiniteSetsExt

CONSTANTS
    ConAgents,      \* enrolled agents: rows of the table agents
    ConMachine,     \* agent -> the site installation it runs on
    ConNamed,       \* machines that report a host name
    ConEstate,      \* agent -> its estate, 0 for none
    ConDigests,     \* digests of files
    ConPaths,       \* paths files are found at
    ConTree,        \* path -> plugin or theme directory, "" for none
    ConMinSites,    \* consensusMinSites, vendorMinSites
    ConWindow,      \* consensusBurstWindow
    ConMaxTime,     \* bound on the clock
    ConMaxFinds,    \* bound on the rows of findings
    ConMaxRuled     \* bound on agents retired, findings dismissed and files
                    \* attested, taken together

ASSUME ConConstantsAssumption ==
    ConMinSites \in Nat /\ ConWindow \in Nat /\ ConMaxTime \in Nat /\ ConMaxFinds \in Nat
    /\ ConMaxRuled \in Nat

VARIABLES
    conFind,     \* rows of findings: agent, sha, path, first, last, state
    conRetired,  \* agents that were retired
    conManual,   \* rows of attestations: estate, sha, path
    conScan,     \* the scan that starts in this state: the entries the console
                 \* sent and what the scan honours (VendorPack.byKey)
    conTime

conVars == <<conFind, conRetired, conManual, conScan, conTime>>

ConEstates == {ConEstate[a] : a \in ConAgents} \ {0}

ConNoScan == [answer |-> {}, honours |-> {}]

ConInit ==
    /\ conFind = {}
    /\ conRetired = {}
    /\ conManual = {}
    /\ conScan = ConNoScan
    /\ conTime = 0

-----------------------------------------------------------------------------
(* The estate's opinion *)

\* correlationHost: host name and webroot, else the agent's own id.
CorrelationHost(a) == IF ConMachine[a] \in ConNamed THEN ConMachine[a] ELSE a

\* Rows that vote in an estate: of agents not retired, not dismissed.
ConVotes(estate) ==
    {f \in conFind : /\ f.agent \notin conRetired
                     /\ f.state # "dismissed"
                     /\ estate # 0 => ConEstate[f.agent] = estate}

ConHosts(rows) == {CorrelationHost(f.agent) : f \in rows}

\* Correlate: digests on at least so many hosts.
Correlate(minHosts, estate) ==
    {d \in ConDigests :
        Cardinality(ConHosts({f \in ConVotes(estate) : f.sha = d})) >= minHosts}

SitesRunningTree(tree, estate) ==
    Cardinality(ConHosts({f \in ConVotes(estate) : ConTree[f.path] = tree}))

\* The directory all paths are in, "" unless they agree on one.
ConAgreedTree(paths) ==
    IF Cardinality({ConTree[p] : p \in paths}) = 1
    THEN CHOOSE t \in {ConTree[p] : p \in paths} : TRUE ELSE ""

\* ConsensusFor and classifyConsensus.
ConsensusFor(estate, d) ==
    LET rows == {f \in ConVotes(estate) : f.sha = d}
        paths == {f.path : f \in rows}
        sites == Cardinality(ConHosts(rows))
        tree == ConAgreedTree(paths)
        running == SitesRunningTree(tree, estate)
        age == Max({f.last : f \in rows}) - Min({f.first : f \in rows})
        verdict ==
            IF sites = 0 THEN "inconclusive"
            ELSE IF tree = "" THEN (IF sites >= 2 THEN "campaign" ELSE "inconclusive")
            ELSE IF Cardinality(paths) > 1 THEN "campaign"
            ELSE IF sites = 1 /\ running >= ConMinSites THEN "singleton"
            ELSE IF sites < ConMinSites THEN "inconclusive"
            ELSE IF age < ConWindow THEN "campaign"
            ELSE "vendor"
    IN  [verdict |-> verdict, paths |-> paths, sites |-> sites]

\* A mutant of OperatorAttestations: one customer's word counts for all.
OperatorAttestationsOfAll(estate) ==
    {[sha |-> m.sha, path |-> m.path, sites |-> 0] : m \in conManual}

\* OperatorAttestations: an operator's word, no count of sites.
OperatorAttestations(estate) ==
    {[sha |-> m.sha, path |-> m.path, sites |-> 0] :
        m \in {x \in conManual : x.estate = estate}}

\* VendorAttestations: corroborated first, then what operators added; nothing
\* at all, their word included, while no digest is on two hosts.
VendorAttestations(estate) ==
    IF estate = 0 \/ Correlate(2, estate) = {} THEN {}
    ELSE LET verdicts == [d \in Correlate(2, estate) |-> ConsensusFor(estate, d)]
             vouched == UNION {{[sha |-> d, path |-> p, sites |-> verdicts[d].sites] :
                                   p \in verdicts[d].paths} :
                               d \in {x \in DOMAIN verdicts : verdicts[x].verdict = "vendor"}}
         IN  vouched \cup {m \in OperatorAttestations(estate) :
                              \A v \in vouched : <<v.sha, v.path>> # <<m.sha, m.path>>}

-----------------------------------------------------------------------------
(* What changes it *)

ConRulings ==
    Cardinality(conRetired) + Cardinality(conManual)
        + Cardinality({f \in conFind : f.state = "dismissed"})

\* UpsertFinding: a sighting by an agent that may still authenticate.
ConReport(a, d, p) ==
    /\ a \notin conRetired
    /\ LET old == {f \in conFind : f.agent = a /\ f.sha = d /\ f.path = p}
       IN  /\ old = {} => Cardinality(conFind) < ConMaxFinds
           /\ conFind' = IF old = {}
                 THEN conFind \cup {[agent |-> a, sha |-> d, path |-> p, first |-> conTime,
                                     last |-> conTime, state |-> "open"]}
                 ELSE (conFind \ old) \cup {[f EXCEPT !.last = conTime] : f \in old}
    /\ UNCHANGED <<conRetired, conManual, conTime>>
    /\ conScan' = ConNoScan

\* SetFindingState, as far as it matters here.
ConDismiss(f) ==
    /\ ConRulings < ConMaxRuled
    /\ conFind' = (conFind \ {f}) \cup {[f EXCEPT !.state = "dismissed"]}
    /\ UNCHANGED <<conRetired, conManual, conTime>>
    /\ conScan' = ConNoScan

ConRetire(a) ==
    /\ ConRulings < ConMaxRuled
    /\ conRetired' = conRetired \cup {a}
    /\ UNCHANGED <<conFind, conManual, conTime>>
    /\ conScan' = ConNoScan

AttestArtefact(estate, d, p) ==
    /\ estate # 0
    /\ ConRulings < ConMaxRuled
    /\ conManual' = conManual \cup {[estate |-> estate, sha |-> d, path |-> p]}
    /\ UNCHANGED <<conFind, conRetired, conTime>>
    /\ conScan' = ConNoScan

RevokeAttestation(m) ==
    /\ conManual' = conManual \ {m}
    /\ UNCHANGED <<conFind, conRetired, conTime>>
    /\ conScan' = ConNoScan

ConTick ==
    /\ conTime < ConMaxTime
    /\ conTime' = conTime + 1
    /\ UNCHANGED <<conFind, conRetired, conManual>>
    /\ conScan' = ConNoScan

-----------------------------------------------------------------------------
(* The pack on the agent *)

\* VendorPackFrom keeps entries above the floor and builds no index, so that
\* what Len, Attests and MergeVendorPack read of the new pack is empty.
VendorPackFrom(entries) ==
    [entries |-> {e \in entries : e.sites = 0 \/ e.sites >= ConMinSites}, byKey |-> {}]

\* MergeVendorPack: the agent's own entries first, keyed by digest and path.
MergeVendorPack(mine, extra) ==
    IF extra.byKey = {} THEN mine
    ELSE IF mine = {} THEN extra.byKey
    ELSE mine \cup {e \in extra.entries :
                       \A m \in mine : <<m.sha, m.path>> # <<e.sha, e.path>>}

\* fetchVendorPack before a scan: a scan starts from the packs of its
\* configuration, none here; an error leaves it at that.
ConFetch(a) ==
    /\ a \notin conRetired
    /\ LET answer == VendorAttestations(ConEstate[a])
       IN  conScan' = [answer |-> answer,
                       honours |-> IF answer = {} THEN {}
                                   ELSE MergeVendorPack({}, VendorPackFrom(answer))]
    /\ UNCHANGED <<conFind, conRetired, conManual, conTime>>

ConNext ==
    \/ \E a \in ConAgents :
          \/ \E d \in ConDigests, p \in ConPaths : ConReport(a, d, p)
          \/ ConRetire(a) \/ ConFetch(a)
    \/ \E f \in conFind : ConDismiss(f)
    \/ \E e \in ConEstates, d \in ConDigests, p \in ConPaths : AttestArtefact(e, d, p)
    \/ \E m \in conManual : RevokeAttestation(m)
    \/ ConTick

ConSpec == ConInit /\ [][ConNext]_conVars

-----------------------------------------------------------------------------
(* Properties *)

ConTypeOK ==
    /\ conFind \subseteq [agent : ConAgents, sha : ConDigests, path : ConPaths, first : 0..conTime,
                          last : 0..conTime, state : {"open", "dismissed"}]
    /\ IsFiniteSet(conFind) /\ \A f \in conFind : f.first <= f.last
    /\ conRetired \subseteq ConAgents
    /\ \A m \in conManual : m.estate \in ConEstates
    /\ conTime \in 0..ConMaxTime

\* What consensus exonerates is vendor-shaped: one path, inside a plugin or
\* theme directory, on enough independent machines of the estate itself, and
\* not all of it inside one burst window.  Machines without a host name are
\* left out: each of their enrollments counts as a host of its own.
ConVendorSound ==
    \A e \in ConEstates : \A v \in VendorAttestations(e) : v.sites > 0 =>
        LET seen == {f \in conFind : /\ f.sha = v.sha /\ f.state # "dismissed"
                                     /\ f.agent \notin conRetired /\ ConEstate[f.agent] = e}
        IN  /\ {f.path : f \in seen} = {v.path}
            /\ ConTree[v.path] # ""
            /\ \/ \E f \in seen : ConMachine[f.agent] \notin ConNamed
               \/ Cardinality({ConMachine[f.agent] : f \in seen}) >= ConMinSites
            /\ \E f, g \in seen : f.last >= g.first + ConWindow

\* One customer's hosts and operators never change what another customer's
\* agents are told.
ConEstateIsolated ==
    [][\A e \in ConEstates :
          (/\ {f \in conFind' : ConEstate[f.agent] = e} = {f \in conFind : ConEstate[f.agent] = e}
           /\ {a \in conRetired' : ConEstate[a] = e} = {a \in conRetired : ConEstate[a] = e}
           /\ {m \in conManual' : m.estate = e} = {m \in conManual : m.estate = e})
              => VendorAttestations(e)' = VendorAttestations(e)]_conVars

\* "Agents in this estate will stop analysing these bytes at this path from
\* their next scan": a scan honours every entry the console sent for it.
ConAttestedHonoured ==
    \A v \in conScan.answer :
        \E e \in conScan.honours : e.sha = v.sha /\ e.path = v.path

\* What an estate vouches for is vendor-shaped and its own affair.
ConPromises == []ConVendorSound /\ ConEstateIsolated
=============================================================================
