----------------------------- MODULE ConsoleProofs -----------------------------
(***************************************************************************)
(* Proofs about what the console keeps of its operators, sends to its      *)
(* collectors, derives from what agents attest, schedules for them and     *)
(* hears of their ends, for every value of the constants.                  *)
(***************************************************************************)
EXTENDS Accounts, Forwarder, Consensus, Scheduler, AgentPresence, FiniteSetTheorems,
        SequenceTheorems, WellFoundedInduction, TLAPS

-----------------------------------------------------------------------------
(***************************************************************************)
(* Operator accounts, for every number of administrators, handlers, sessions *)
(* and secrets.                                                            *)
(***************************************************************************)

AccUserRecord == [disabled : BOOLEAN, secret : 0..AccMaxSecrets, enrolled : BOOLEAN]
AccSession == [id : AccSessions, user : AccUsers, mfa : BOOLEAN, old : BOOLEAN]

(* What a handler may hold between two statements. *)
AccRequest ==
    [op : {"idle"}]
      \cup [op : {"login", "confirm", "mark"}, target : AccUsers, sess : AccSessions]
      \cup [op : {"setup"}, target : AccUsers, secret : 0..AccMaxSecrets]
      \cup [op : {"begin", "disable", "enable", "reset"}, target : AccUsers]

AccTyped ==
    /\ accUser \in [AccUsers -> AccUserRecord]
    /\ accSess \subseteq AccSession
    /\ accReq \in [AccHandlers -> AccRequest]
    /\ accScanned \in [AccUsers -> 0..AccMaxSecrets]
    /\ accSecrets \in 0..AccMaxSecrets
    /\ accRaced \subseteq AccUsers

(* No session outlives a reset of its user. *)
AccNoneOld == \A s \in accSess : ~s.old

(* What a confirmation has read is still so, if nobody interfered. *)
AccConfirmRead ==
    \A h \in AccHandlers :
        LET u == accReq[h].target
        IN  accReq[h].op = "confirm" /\ u \notin accRaced
               => accUser[u].secret # 0 /\ accUser[u].secret = accScanned[u]

(* What a setup has read is still so, if nobody interfered. *)
AccSetupRead ==
    \A h \in AccHandlers :
        LET u == accReq[h].target
        IN  accReq[h].op \in {"begin", "setup"} /\ u \notin accRaced
               => /\ ~accUser[u].enrolled
                  /\ accReq[h].op = "setup" => accUser[u].secret = accReq[h].secret

(* Who is about to disable somebody is there to remain. *)
AccDisablerRemains ==
    \A h \in AccHandlers :
        accReq[h].op = "disable" /\ accRaced = {}
           => \E v \in AccUsers : v # accReq[h].target /\ ~accUser[v].disabled

AccInv ==
    /\ AccTyped /\ AccNoneOld
    /\ AccEnrolledKnowsSecret /\ AccConfirmRead /\ AccSetupRead
    /\ AccAdminRemains /\ AccDisablerRemains

\* AccInv holds initially.
LEMMA AccInitInv == AccInit => AccInv
<1> SUFFICES ASSUME AccInit PROVE AccInv
  OBVIOUS
<1>1. AccTyped
  BY AccBoundsAssumption DEF AccInit, AccTyped, AccUserRecord, AccRequest, AccIdle
<1>2. AccNoneOld /\ AccEnrolledKnowsSecret /\ AccAdminRemains
  BY AccUsersAssumption DEF AccInit, AccNoneOld, AccEnrolledKnowsSecret, AccAdminRemains
<1>3. AccConfirmRead /\ AccSetupRead /\ AccDisablerRemains
  BY DEF AccInit, AccIdle, AccConfirmRead, AccSetupRead, AccDisablerRemains
<1>4. QED BY <1>1, <1>2, <1>3 DEF AccInv

(* A handler starts: users and sessions stay. *)
LEMMA AccStartsKeepsTypes ==
  ASSUME AccTyped, NEW h \in AccHandlers, NEW req \in AccRequest, AccStarts(h, req),
         UNCHANGED <<accUser, accSess, accScanned, accSecrets, accRaced>>
  PROVE  /\ AccTyped'
         /\ accReq'[h] = req
         /\ \A g \in AccHandlers : g # h => accReq'[g] = accReq[g]
BY DEF AccTyped, AccStarts

\* A handler that was admitted starts, and AccInv holds.
LEMMA AccStartStep ==
  ASSUME AccInv, NEW h \in AccHandlers, NEW req \in AccRequest, AccStarts(h, req),
         UNCHANGED <<accUser, accSess, accScanned, accSecrets, accRaced>>,
         req.op = "confirm" => /\ accUser[req.target].secret # 0
                               /\ accUser[req.target].secret = accScanned[req.target],
         req.op = "begin" => ~accUser[req.target].enrolled, req.op # "setup",
         req.op = "disable" =>
            \E v \in AccUsers : v # req.target /\ ~accUser[v].disabled
  PROVE  AccInv'
<1>1. /\ AccTyped' /\ accReq'[h] = req
      /\ \A g \in AccHandlers : g # h => accReq'[g] = accReq[g]
  BY AccStartsKeepsTypes DEF AccInv
<1>2. AccNoneOld' /\ AccEnrolledKnowsSecret' /\ AccAdminRemains'
  BY DEF AccInv, AccNoneOld, AccEnrolledKnowsSecret, AccAdminRemains
<1>3. AccConfirmRead'
  BY <1>1 DEF AccInv, AccConfirmRead
<1>4. AccSetupRead'
  BY <1>1 DEF AccInv, AccSetupRead
<1>5. AccDisablerRemains'
  BY <1>1 DEF AccInv, AccDisablerRemains
<1>6. QED BY <1>1, <1>2, <1>3, <1>4, <1>5 DEF AccInv

(* The requests a handler starts with. *)
LEMMA AccStartersStep ==
  ASSUME AccInv, NEW h \in AccHandlers,
         \/ \E u \in AccUsers : AccLogin(h, u)
         \/ \E s \in accSess : \/ AccSetup(h, s) \/ AccConfirm(h, s) \/ VerifySecondFactor(h, s)
                               \/ \E op \in {"disable", "enable", "reset"}, u \in AccUsers :
                                     AccAdmitted(h, s, op, u)
  PROVE  AccInv'
<1>1. AccTyped /\ \A s \in accSess : s.user \in AccUsers /\ s.id \in AccSessions
  BY DEF AccInv, AccTyped, AccSession
<1>2. ASSUME NEW u \in AccUsers, AccLogin(h, u) PROVE AccInv'
  <2>1. PICK id \in AccSessions : AccStarts(h, [op |-> "login", target |-> u, sess |-> id])
    BY <1>2 DEF AccLogin
  <2>2. [op |-> "login", target |-> u, sess |-> id] \in AccRequest
    BY DEF AccRequest
  <2>3. QED BY <1>2, <2>1, <2>2, AccStartStep DEF AccLogin
<1>3. ASSUME NEW s \in accSess, AccSetup(h, s) PROVE AccInv'
  <2> DEFINE req == [op |-> "begin", target |-> s.user]
  <2>1. req \in AccRequest
    BY <1>1 DEF AccRequest
  <2>2. /\ AccStarts(h, req) /\ ~accUser[s.user].enrolled
        /\ UNCHANGED <<accUser, accSess, accScanned, accSecrets, accRaced>>
    BY <1>3 DEF AccSetup
  <2>3. QED BY <2>1, <2>2, AccStartStep
<1>4. ASSUME NEW s \in accSess, AccConfirm(h, s) PROVE AccInv'
  <2> DEFINE req == [op |-> "confirm", target |-> s.user, sess |-> s.id]
  <2>1. req \in AccRequest
    BY <1>1 DEF AccRequest
  <2>2. /\ AccStarts(h, req)
        /\ accUser[s.user].secret # 0 /\ accUser[s.user].secret = accScanned[s.user]
        /\ UNCHANGED <<accUser, accSess, accScanned, accSecrets, accRaced>>
    BY <1>4 DEF AccConfirm
  <2>3. QED BY <2>1, <2>2, AccStartStep
<1>5. ASSUME NEW s \in accSess, VerifySecondFactor(h, s) PROVE AccInv'
  <2> DEFINE req == [op |-> "mark", target |-> s.user, sess |-> s.id]
  <2>1. req \in AccRequest
    BY <1>1 DEF AccRequest
  <2>2. AccStarts(h, req) /\ UNCHANGED <<accUser, accSess, accScanned, accSecrets, accRaced>>
    BY <1>5 DEF VerifySecondFactor
  <2>3. QED BY <2>1, <2>2, AccStartStep
<1>6. ASSUME NEW s \in accSess, NEW op \in {"disable", "enable", "reset"}, NEW u \in AccUsers,
             AccAdmitted(h, s, op, u)
      PROVE  AccInv'
  <2> DEFINE req == [op |-> op, target |-> u]
  <2>1. req \in AccRequest
    BY DEF AccRequest
  <2>2. /\ AccStarts(h, req) /\ (op = "disable" => s.user # u)
        /\ ~accUser[s.user].disabled
        /\ UNCHANGED <<accUser, accSess, accScanned, accSecrets, accRaced>>
    BY <1>6 DEF AccAdmitted, AccLive
  <2>3. QED BY <1>1, <2>1, <2>2, AccStartStep
<1>7. QED BY <1>2, <1>3, <1>4, <1>5, <1>6

-----------------------------------------------------------------------------
(* The steps that write *)

\* A handler that ends is idle, and the others are as they were.
LEMMA AccEndsKeepsTypes ==
  ASSUME AccTyped, NEW h \in AccHandlers, AccEnds(h)
  PROVE  /\ accReq' \in [AccHandlers -> AccRequest]
         /\ accReq'[h].op = "idle"
         /\ \A g \in AccHandlers : g # h => accReq'[g] = accReq[g]
BY DEF AccTyped, AccEnds, AccIdle, AccRequest

(* What a pending request holds, by its kind. *)
LEMMA AccRequestHolds ==
  ASSUME AccTyped, NEW h \in AccHandlers
  PROVE  /\ accReq[h].op # "idle" => accReq[h].target \in AccUsers
         /\ accReq[h].op \in {"login", "confirm", "mark"} => accReq[h].sess \in AccSessions
         /\ accReq[h].op = "setup" => accReq[h].secret \in 0..AccMaxSecrets
BY DEF AccTyped, AccRequest

\* Logging in (CreateSession) keeps AccInv.
LEMMA AccCreateStep ==
  ASSUME AccInv, NEW h \in AccHandlers, CreateSession(h)
  PROVE  AccInv'
<1>1. AccTyped /\ AccEnds(h) /\ UNCHANGED <<accUser, accScanned, accSecrets, accRaced>>
  BY DEF AccInv, CreateSession
<1>2. /\ accReq' \in [AccHandlers -> AccRequest] /\ accReq'[h].op = "idle"
      /\ \A g \in AccHandlers : g # h => accReq'[g] = accReq[g]
  BY <1>1, AccEndsKeepsTypes
<1>3. accReq[h].target \in AccUsers /\ accReq[h].sess \in AccSessions
  BY <1>1, AccRequestHolds DEF CreateSession
<1>4. accSess' \subseteq AccSession /\ AccNoneOld'
  <2> DEFINE s == [id |-> accReq[h].sess, user |-> accReq[h].target, mfa |-> FALSE,
                   old |-> FALSE]
  <2>1. s \in AccSession /\ ~s.old
    BY <1>3 DEF AccSession
  <2>2. accSess' = accSess \cup {s}
    BY DEF CreateSession
  <2> HIDE DEF s
  <2>3. QED BY <1>1, <2>1, <2>2 DEF AccInv, AccTyped, AccNoneOld
<1>5. AccTyped'
  BY <1>1, <1>2, <1>4 DEF AccTyped
<1>6. AccEnrolledKnowsSecret' /\ AccAdminRemains'
  BY <1>1 DEF AccInv, AccEnrolledKnowsSecret, AccAdminRemains
<1>7. AccConfirmRead' /\ AccSetupRead' /\ AccDisablerRemains'
  BY <1>1, <1>2 DEF AccInv, AccConfirmRead, AccSetupRead, AccDisablerRemains
<1>8. QED BY <1>4, <1>5, <1>6, <1>7 DEF AccInv

\* A session marked as having passed its second factor keeps AccInv.
LEMMA AccMarkStep ==
  ASSUME AccInv, NEW h \in AccHandlers, AccMark(h)
  PROVE  AccInv'
<1>1. AccTyped /\ AccEnds(h) /\ UNCHANGED <<accUser, accScanned, accSecrets, accRaced>>
  BY DEF AccInv, AccMark
<1>2. /\ accReq' \in [AccHandlers -> AccRequest] /\ accReq'[h].op = "idle"
      /\ \A g \in AccHandlers : g # h => accReq'[g] = accReq[g]
  BY <1>1, AccEndsKeepsTypes
<1>3. accSess' \subseteq AccSession /\ AccNoneOld'
  <2>1. ASSUME NEW t \in accSess' PROVE t \in AccSession /\ ~t.old
    <3>1. PICK s \in accSess : t = IF s.id = accReq[h].sess THEN [s EXCEPT !.mfa = TRUE] ELSE s
      BY <2>1 DEF AccMark, MarkSessionMFA
    <3>2. s \in AccSession /\ ~s.old
      BY <1>1 DEF AccInv, AccTyped, AccNoneOld
    <3>3. QED BY <3>1, <3>2 DEF AccSession
  <2>2. QED BY <2>1 DEF AccNoneOld
<1>4. AccTyped'
  BY <1>1, <1>2, <1>3 DEF AccTyped
<1>5. AccEnrolledKnowsSecret' /\ AccAdminRemains'
  BY <1>1 DEF AccInv, AccEnrolledKnowsSecret, AccAdminRemains
<1>6. AccConfirmRead' /\ AccSetupRead' /\ AccDisablerRemains'
  BY <1>1, <1>2 DEF AccInv, AccConfirmRead, AccSetupRead, AccDisablerRemains
<1>7. QED BY <1>3, <1>4, <1>5, <1>6 DEF AccInv

\* Logging out keeps AccInv.
LEMMA AccDeleteStep ==
  ASSUME AccInv, NEW s \in accSess, DeleteSession(s)
  PROVE  AccInv'
BY DEF AccInv, DeleteSession, AccTyped, AccNoneOld, AccEnrolledKnowsSecret, AccAdminRemains,
       AccConfirmRead, AccSetupRead, AccDisablerRemains

(* Whoever writes a user's factor while another request about the user is
   pending marks the user: what the others have read counts no more. *)
LEMMA AccUnracedAlone ==
  ASSUME NEW h \in AccHandlers, NEW u, AccMayRace(h, u), u \notin accRaced'
  PROVE  /\ \A g \in AccHandlers : g # h => accReq[g].op = "idle" \/ accReq[g].target # u
         /\ u \notin accRaced
BY DEF AccMayRace, AccOthers

\* The accounts that raced only become more.
LEMMA AccRacedGrows ==
  ASSUME NEW h \in AccHandlers, NEW u \in AccUsers, AccMayRace(h, u)
  PROVE  /\ accRaced \subseteq accRaced'
         /\ accRaced \subseteq AccUsers => accRaced' \subseteq AccUsers
BY DEF AccMayRace

\* Reading the row before a setup (BeginTOTPEnrollment's SELECT) keeps AccInv.
LEMMA AccReadFactorStep ==
  ASSUME AccInv, NEW h \in AccHandlers, AccReadFactor(h)
  PROVE  AccInv'
<1> DEFINE u == accReq[h].target
           existing == IF accUser[u].enrolled THEN 0 ELSE accUser[u].secret
           req == [op |-> "setup", target |-> u, secret |-> existing]
<1>1. /\ AccTyped /\ accReq[h].op = "begin"
      /\ accReq' = [accReq EXCEPT ![h] = req]
      /\ UNCHANGED <<accUser, accSess, accScanned, accSecrets, accRaced>>
  BY DEF AccInv, AccReadFactor
<1>2. u \in AccUsers /\ existing \in 0..AccMaxSecrets
  BY <1>1, AccRequestHolds, AccBoundsAssumption DEF AccTyped, AccUserRecord
<1>3. req \in AccRequest /\ req.op = "setup" /\ req.target = u /\ req.secret = existing
  BY <1>2 DEF AccRequest
<1>4. u \notin accRaced => ~accUser[u].enrolled /\ existing = accUser[u].secret
  BY <1>1 DEF AccInv, AccSetupRead
<1> HIDE DEF u, existing, req
<1>5. /\ accReq' \in [AccHandlers -> AccRequest] /\ accReq'[h] = req
      /\ \A g \in AccHandlers : g # h => accReq'[g] = accReq[g]
  BY <1>1, <1>3 DEF AccTyped
<1>6. AccTyped' /\ AccNoneOld' /\ AccEnrolledKnowsSecret' /\ AccAdminRemains'
  BY <1>1, <1>5 DEF AccInv, AccTyped, AccNoneOld, AccEnrolledKnowsSecret, AccAdminRemains
<1>7. AccConfirmRead' /\ AccDisablerRemains'
  BY <1>1, <1>3, <1>5 DEF AccInv, AccConfirmRead, AccDisablerRemains
<1>8. AccSetupRead'
  BY <1>1, <1>3, <1>4, <1>5 DEF AccInv, AccSetupRead
<1>9. QED BY <1>6, <1>7, <1>8 DEF AccInv

\* A new secret (BeginTOTPEnrollment) keeps AccInv.
LEMMA AccBeginTOTPStep ==
  ASSUME AccInv, NEW h \in AccHandlers, BeginTOTPEnrollment(h)
  PROVE  AccInv'
<1> DEFINE u == accReq[h].target
<1>1. /\ AccTyped /\ AccEnds(h) /\ AccMayRace(h, u) /\ accReq[h].op = "setup"
      /\ UNCHANGED accSess
  BY DEF AccInv, BeginTOTPEnrollment
<1>2. /\ accReq' \in [AccHandlers -> AccRequest] /\ accReq'[h].op = "idle"
      /\ \A g \in AccHandlers : g # h => accReq'[g] = accReq[g]
  BY <1>1, AccEndsKeepsTypes
<1>3. u \in AccUsers /\ accReq[h].secret \in 0..AccMaxSecrets
  BY <1>1, AccRequestHolds
<1>4. /\ accRaced \subseteq accRaced' /\ accRaced' \subseteq AccUsers
  BY <1>1, <1>3, AccRacedGrows DEF AccTyped
<1>5. u \notin accRaced' =>
         /\ \A g \in AccHandlers : g # h => accReq[g].op = "idle" \/ accReq[g].target # u
         /\ u \notin accRaced
  BY <1>1, AccUnracedAlone
<1> HIDE DEF u
<1>6. /\ accUser' \in [AccUsers -> AccUserRecord] /\ accScanned' \in [AccUsers -> 0..AccMaxSecrets]
      /\ accSecrets' \in 0..AccMaxSecrets
      /\ \A v \in AccUsers : /\ v # u => accUser'[v] = accUser[v] /\ accScanned'[v] = accScanned[v]
                             /\ accUser'[v].disabled = accUser[v].disabled
      /\ \/ accReq[h].secret # 0 /\ accScanned'[u] = accReq[h].secret /\ accUser' = accUser
         \/ accUser'[u].enrolled = FALSE
  <2>1. CASE /\ accReq[h].secret # 0
             /\ accScanned' = [accScanned EXCEPT ![u] = accReq[h].secret]
             /\ UNCHANGED <<accUser, accSecrets>>
    BY <1>1, <1>3, <2>1 DEF AccTyped
  <2>2. CASE /\ accSecrets < AccMaxSecrets
             /\ accSecrets' = accSecrets + 1
             /\ accUser' = [accUser EXCEPT ![u].secret = accSecrets + 1, ![u].enrolled = FALSE]
             /\ accScanned' = [accScanned EXCEPT ![u] = accSecrets + 1]
    <3>1. accSecrets + 1 \in 0..AccMaxSecrets
      BY <1>1, <2>2, AccBoundsAssumption DEF AccTyped
    <3>2. QED BY <1>1, <1>3, <2>2, <3>1 DEF AccTyped, AccUserRecord
  <2>3. QED BY <2>1, <2>2 DEF BeginTOTPEnrollment, u
<1>7. AccTyped'
  BY <1>1, <1>2, <1>4, <1>6 DEF AccTyped
<1>8. AccNoneOld'
  BY <1>1 DEF AccInv, AccNoneOld
<1>9. AccEnrolledKnowsSecret'
  <2>1. ASSUME NEW v \in AccUsers, accUser'[v].enrolled, v \notin accRaced'
        PROVE  accUser'[v].secret # 0 /\ accUser'[v].secret = accScanned'[v]
    <3>1. CASE v # u
      BY <1>4, <1>6, <2>1, <3>1 DEF AccInv, AccEnrolledKnowsSecret
    <3>2. CASE v = u
      <4>1. ~accUser[u].enrolled
        BY <1>1, <1>5, <2>1, <3>2 DEF AccInv, AccSetupRead, u
      <4>2. QED BY <1>6, <2>1, <3>2, <4>1
    <3>3. QED BY <3>1, <3>2
  <2>2. QED BY <2>1 DEF AccEnrolledKnowsSecret
<1>10. AccConfirmRead'
  <2>1. ASSUME NEW g \in AccHandlers, accReq'[g].op = "confirm", accReq'[g].target \notin accRaced'
        PROVE  /\ accUser'[accReq'[g].target].secret # 0
               /\ accUser'[accReq'[g].target].secret = accScanned'[accReq'[g].target]
    <3>1. g # h /\ accReq'[g] = accReq[g]
      BY <1>2, <2>1
    <3>2. accReq[g].target # u /\ accReq[g].target \in AccUsers
      BY <1>1, <1>5, <2>1, <3>1, AccRequestHolds
    <3>3. QED BY <1>4, <1>6, <2>1, <3>1, <3>2 DEF AccInv, AccConfirmRead
  <2>2. QED BY <2>1 DEF AccConfirmRead
<1>11. AccSetupRead'
  <2>1. ASSUME NEW g \in AccHandlers, accReq'[g].op \in {"begin", "setup"},
               accReq'[g].target \notin accRaced'
        PROVE  /\ ~accUser'[accReq'[g].target].enrolled
               /\ accReq'[g].op = "setup" =>
                     accUser'[accReq'[g].target].secret = accReq'[g].secret
    <3>1. g # h /\ accReq'[g] = accReq[g]
      BY <1>2, <2>1
    <3>2. accReq[g].target # u /\ accReq[g].target \in AccUsers
      BY <1>1, <1>5, <2>1, <3>1, AccRequestHolds
    <3>3. QED BY <1>4, <1>6, <2>1, <3>1, <3>2 DEF AccInv, AccSetupRead
  <2>2. QED BY <2>1 DEF AccSetupRead
<1>12. AccAdminRemains'
  BY <1>4, <1>6 DEF AccInv, AccAdminRemains
<1>13. AccDisablerRemains'
  BY <1>2, <1>4, <1>6 DEF AccInv, AccDisablerRemains
<1>14. QED BY <1>7, <1>8, <1>9, <1>10, <1>11, <1>12, <1>13 DEF AccInv

\* A confirmed secret (CompleteTOTPEnrollment) keeps AccInv.
LEMMA AccCompleteStep ==
  ASSUME AccInv, NEW h \in AccHandlers, CompleteTOTPEnrollment(h)
  PROVE  AccInv'
<1> DEFINE u == accReq[h].target
<1>1. /\ AccTyped /\ AccMayRace(h, u) /\ accReq[h].op = "confirm"
      /\ accUser' = [accUser EXCEPT ![u].enrolled = TRUE]
      /\ accReq' = [accReq EXCEPT ![h].op = "mark"]
      /\ UNCHANGED <<accSess, accScanned, accSecrets>>
  BY DEF AccInv, CompleteTOTPEnrollment
<1>2. accReq[h] \in [op : {"login", "confirm", "mark"}, target : AccUsers, sess : AccSessions]
  BY <1>1 DEF AccTyped, AccRequest
<1>3. /\ accReq' \in [AccHandlers -> AccRequest] /\ accReq'[h].op = "mark"
      /\ \A g \in AccHandlers : g # h => accReq'[g] = accReq[g]
  <2>1. [accReq[h] EXCEPT !.op = "mark"] \in AccRequest
    BY <1>2 DEF AccRequest
  <2>2. accReq' = [accReq EXCEPT ![h] = [accReq[h] EXCEPT !.op = "mark"]]
    BY <1>1
  <2>3. [accReq[h] EXCEPT !.op = "mark"].op = "mark"
    BY <1>2
  <2>4. QED BY <1>1, <2>1, <2>2, <2>3 DEF AccTyped
<1>4. u \in AccUsers /\ accRaced \subseteq accRaced' /\ accRaced' \subseteq AccUsers
  BY <1>1, <1>2, AccRacedGrows DEF AccTyped
<1>5. u \notin accRaced' =>
         /\ \A g \in AccHandlers : g # h => accReq[g].op = "idle" \/ accReq[g].target # u
         /\ u \notin accRaced
  BY <1>1, AccUnracedAlone
<1>6. u \notin accRaced => accUser[u].secret # 0 /\ accUser[u].secret = accScanned[u]
  BY <1>1 DEF AccInv, AccConfirmRead
<1> HIDE DEF u
<1>7. /\ accUser' \in [AccUsers -> AccUserRecord]
      /\ \A v \in AccUsers : /\ v # u => accUser'[v] = accUser[v]
                             /\ accUser'[v].disabled = accUser[v].disabled
                             /\ accUser'[v].secret = accUser[v].secret
  BY <1>1, <1>4 DEF AccTyped, AccUserRecord
<1>8. AccTyped' /\ AccNoneOld'
  BY <1>1, <1>3, <1>4, <1>7 DEF AccInv, AccTyped, AccNoneOld
<1>9. AccEnrolledKnowsSecret'
  <2>1. ASSUME NEW v \in AccUsers, accUser'[v].enrolled, v \notin accRaced'
        PROVE  accUser'[v].secret # 0 /\ accUser'[v].secret = accScanned'[v]
    <3>1. CASE v # u
      BY <1>1, <1>4, <1>7, <2>1, <3>1 DEF AccInv, AccEnrolledKnowsSecret
    <3>2. CASE v = u
      BY <1>1, <1>4, <1>6, <1>7, <2>1, <3>2
    <3>3. QED BY <3>1, <3>2
  <2>2. QED BY <2>1 DEF AccEnrolledKnowsSecret
<1>10. AccConfirmRead'
  <2>1. ASSUME NEW g \in AccHandlers, accReq'[g].op = "confirm", accReq'[g].target \notin accRaced'
        PROVE  /\ accUser'[accReq'[g].target].secret # 0
               /\ accUser'[accReq'[g].target].secret = accScanned'[accReq'[g].target]
    <3>1. g # h /\ accReq'[g] = accReq[g] /\ accReq[g].target \in AccUsers
      BY <1>1, <1>3, <2>1, AccRequestHolds
    <3>2. QED BY <1>1, <1>4, <1>7, <2>1, <3>1 DEF AccInv, AccConfirmRead
  <2>2. QED BY <2>1 DEF AccConfirmRead
<1>11. AccSetupRead'
  <2>1. ASSUME NEW g \in AccHandlers, accReq'[g].op \in {"begin", "setup"},
               accReq'[g].target \notin accRaced'
        PROVE  /\ ~accUser'[accReq'[g].target].enrolled
               /\ accReq'[g].op = "setup" =>
                     accUser'[accReq'[g].target].secret = accReq'[g].secret
    <3>1. g # h /\ accReq'[g] = accReq[g]
      BY <1>3, <2>1
    <3>2. accReq[g].target # u /\ accReq[g].target \in AccUsers
      BY <1>1, <1>5, <2>1, <3>1, AccRequestHolds
    <3>3. QED BY <1>4, <1>7, <2>1, <3>1, <3>2 DEF AccInv, AccSetupRead
  <2>2. QED BY <2>1 DEF AccSetupRead
<1>12. AccAdminRemains' /\ AccDisablerRemains'
  BY <1>3, <1>4, <1>7 DEF AccInv, AccAdminRemains, AccDisablerRemains
<1>13. QED BY <1>8, <1>9, <1>10, <1>11, <1>12 DEF AccInv

\* Disabling and enabling an account keeps AccInv.
LEMMA AccDisableStep ==
  ASSUME AccInv, NEW h \in AccHandlers, SetUserDisabled(h)
  PROVE  AccInv'
<1> DEFINE u == accReq[h].target
<1>1. /\ AccTyped /\ AccEnds(h) /\ accReq[h].op \in {"disable", "enable"}
      /\ accUser' = [accUser EXCEPT ![u].disabled = (accReq[h].op = "disable")]
      /\ accSess' \subseteq accSess
      /\ accRaced' = IF \E g \in AccHandlers \ {h} : accReq[g].op = "disable"
                     THEN accRaced \cup {u} ELSE accRaced
      /\ UNCHANGED <<accScanned, accSecrets>>
  BY DEF AccInv, SetUserDisabled, EndSessions
<1>2. /\ accReq' \in [AccHandlers -> AccRequest] /\ accReq'[h].op = "idle"
      /\ \A g \in AccHandlers : g # h => accReq'[g] = accReq[g]
  BY <1>1, AccEndsKeepsTypes
<1>3. u \in AccUsers
  BY <1>1, AccRequestHolds
<1>4. accRaced \subseteq accRaced' /\ accRaced' \subseteq AccUsers
  BY <1>1, <1>3 DEF AccTyped
<1>5. accRaced' = {} => /\ accRaced = {}
                        /\ \A g \in AccHandlers : g # h => accReq[g].op # "disable"
  BY <1>1
<1>6. accReq[h].op = "disable" /\ accRaced = {} => \E v \in AccUsers : v # u /\ ~accUser[v].disabled
  BY DEF AccInv, AccDisablerRemains
<1>7. /\ accUser' \in [AccUsers -> AccUserRecord]
      /\ \A v \in AccUsers : /\ v # u => accUser'[v] = accUser[v]
                             /\ accUser'[v].enrolled = accUser[v].enrolled
                             /\ accUser'[v].secret = accUser[v].secret
      /\ accUser'[u].disabled = (accReq[h].op = "disable")
  <2>1. (accReq[h].op = "disable") \in BOOLEAN
    OBVIOUS
  <2> DEFINE off == accReq[h].op = "disable"
  <2>2. accUser' = [accUser EXCEPT ![u].disabled = off] /\ off \in BOOLEAN
    BY <1>1, <2>1
  <2> HIDE DEF off, u
  <2>3. /\ accUser' \in [AccUsers -> AccUserRecord]
        /\ \A v \in AccUsers : /\ v # u => accUser'[v] = accUser[v]
                               /\ accUser'[v].enrolled = accUser[v].enrolled
                               /\ accUser'[v].secret = accUser[v].secret
        /\ accUser'[u].disabled = off
    BY <1>1, <1>3, <2>2 DEF AccTyped, AccUserRecord
  <2>4. QED BY <2>3 DEF off
<1> HIDE DEF u
<1>8. AccTyped' /\ AccNoneOld'
  BY <1>1, <1>2, <1>4, <1>7 DEF AccInv, AccTyped, AccNoneOld
<1>9. AccEnrolledKnowsSecret'
  BY <1>1, <1>4, <1>7 DEF AccInv, AccEnrolledKnowsSecret
<1>10. AccConfirmRead' /\ AccSetupRead'
  <2>1. \A g \in AccHandlers : accReq'[g].op # "idle" =>
           accReq'[g] = accReq[g] /\ accReq[g].target \in AccUsers
    BY <1>1, <1>2, AccRequestHolds
  <2>2. QED BY <1>1, <1>4, <1>7, <2>1 DEF AccInv, AccConfirmRead, AccSetupRead
<1>11. AccAdminRemains'
  <2>1. ASSUME accRaced' = {} PROVE \E v \in AccUsers : ~accUser'[v].disabled
    <3>1. CASE accReq[h].op = "disable"
      BY <1>5, <1>6, <1>7, <2>1, <3>1
    <3>2. CASE accReq[h].op = "enable"
      BY <1>3, <1>7, <3>2
    <3>3. QED BY <1>1, <3>1, <3>2
  <2>2. QED BY <2>1 DEF AccAdminRemains
<1>12. AccDisablerRemains'
  <2>1. \A g \in AccHandlers : accReq'[g].op = "disable" => accRaced' # {}
    BY <1>2, <1>5
  <2>2. QED BY <2>1 DEF AccDisablerRemains
<1>13. QED BY <1>8, <1>9, <1>10, <1>11, <1>12 DEF AccInv

\* A reset keeps AccInv.
LEMMA AccResetStep ==
  ASSUME AccInv, NEW h \in AccHandlers, ResetMFA(h)
  PROVE  AccInv'
<1> DEFINE u == accReq[h].target
<1>1. /\ AccTyped /\ AccEnds(h) /\ AccMayRace(h, u) /\ accReq[h].op = "reset"
      /\ accUser' = [accUser EXCEPT ![u].secret = 0, ![u].enrolled = FALSE]
      /\ UNCHANGED <<accScanned, accSecrets>>
  BY DEF AccInv, ResetMFA
<1>2. /\ accReq' \in [AccHandlers -> AccRequest] /\ accReq'[h].op = "idle"
      /\ \A g \in AccHandlers : g # h => accReq'[g] = accReq[g]
  BY <1>1, AccEndsKeepsTypes
<1>3. u \in AccUsers
  BY <1>1, AccRequestHolds
<1>4. accRaced \subseteq accRaced' /\ accRaced' \subseteq AccUsers
  BY <1>1, <1>3, AccRacedGrows DEF AccTyped
<1>5. u \notin accRaced' =>
         /\ \A g \in AccHandlers : g # h => accReq[g].op = "idle" \/ accReq[g].target # u
         /\ u \notin accRaced
  BY <1>1, AccUnracedAlone
<1>6. accSess' \subseteq AccSession /\ AccNoneOld'
  <2>1. ASSUME NEW t \in accSess' PROVE t \in AccSession /\ ~t.old
    <3>1. PICK s \in accSess : s.user # u /\ t = [s EXCEPT !.old = s.old \/ s.user = u]
      BY <2>1 DEF ResetMFA, EndSessions
    <3>2. s \in AccSession /\ ~s.old
      BY <1>1 DEF AccInv, AccTyped, AccNoneOld
    <3>3. (s.old \/ s.user = u) = FALSE
      BY <3>1, <3>2
    <3>4. t = [s EXCEPT !.old = FALSE]
      BY <3>1, <3>3
    <3>5. QED BY <3>2, <3>4 DEF AccSession
  <2>2. QED BY <2>1 DEF AccNoneOld
<1> HIDE DEF u
<1>7. /\ accUser' \in [AccUsers -> AccUserRecord]
      /\ \A v \in AccUsers : /\ v # u => accUser'[v] = accUser[v]
                             /\ accUser'[v].disabled = accUser[v].disabled
      /\ accUser'[u].enrolled = FALSE
  <2>1. 0 \in 0..AccMaxSecrets
    BY AccBoundsAssumption
  <2>2. QED BY <1>1, <1>3, <2>1 DEF AccTyped, AccUserRecord
<1>8. AccTyped'
  BY <1>1, <1>2, <1>4, <1>6, <1>7 DEF AccTyped
<1>9. AccEnrolledKnowsSecret'
  BY <1>1, <1>4, <1>7 DEF AccInv, AccEnrolledKnowsSecret
<1>10. \A g \in AccHandlers :
          accReq'[g].op # "idle" /\ accReq'[g].target \notin accRaced' =>
             /\ accReq'[g] = accReq[g] /\ accReq[g].target \in AccUsers
             /\ accReq[g].target # u /\ accReq[g].target \notin accRaced
  BY <1>1, <1>2, <1>4, <1>5, AccRequestHolds
<1>11. AccConfirmRead' /\ AccSetupRead'
  BY <1>1, <1>7, <1>10 DEF AccInv, AccConfirmRead, AccSetupRead
<1>12. AccAdminRemains' /\ AccDisablerRemains'
  BY <1>2, <1>4, <1>7 DEF AccInv, AccAdminRemains, AccDisablerRemains
<1>13. QED BY <1>6, <1>8, <1>9, <1>11, <1>12 DEF AccInv

-----------------------------------------------------------------------------
\* Every step keeps AccInv.
LEMMA AccStep == AccInv /\ [AccNext]_accVars => AccInv'
<1> SUFFICES ASSUME AccInv, [AccNext]_accVars PROVE AccInv'
  OBVIOUS
<1>1. CASE UNCHANGED accVars
  BY <1>1
  DEF accVars, AccInv, AccTyped, AccNoneOld, AccEnrolledKnowsSecret, AccConfirmRead, AccSetupRead,
      AccAdminRemains, AccDisablerRemains
<1>2. ASSUME NEW h \in AccHandlers,
             \/ CreateSession(h) \/ AccReadFactor(h) \/ BeginTOTPEnrollment(h)
             \/ CompleteTOTPEnrollment(h)
             \/ AccMark(h) \/ SetUserDisabled(h) \/ ResetMFA(h)
      PROVE  AccInv'
  BY <1>2, AccCreateStep, AccReadFactorStep, AccBeginTOTPStep, AccCompleteStep, AccMarkStep, AccDisableStep,
     AccResetStep
<1>3. ASSUME NEW s \in accSess, DeleteSession(s) PROVE AccInv'
  BY <1>3, AccDeleteStep
<1>4. ASSUME NEW h \in AccHandlers,
             \/ \E u \in AccUsers : AccLogin(h, u)
             \/ \E s \in accSess :
                   \/ AccSetup(h, s) \/ AccConfirm(h, s) \/ VerifySecondFactor(h, s)
                   \/ \E op \in {"disable", "enable", "reset"}, u \in AccUsers :
                         AccAdmitted(h, s, op, u)
      PROVE  AccInv'
  BY <1>4, AccStartersStep
<1>5. QED BY <1>1, <1>2, <1>3, <1>4 DEF AccNext

(* auth.go and api.go: a reset ends the sessions, enrolling locks nobody out,
   and somebody is left to administer. *)
THEOREM AccSafety == AccSpec => []AccSafe
<1>1. AccSpec => []AccInv
  BY AccInitInv, AccStep, PTL DEF AccSpec
<1>2. AccInv => AccSafe
  BY DEF AccInv, AccSafe, AccNoneOld, AccResetEndsSessions
<1>3. QED BY <1>1, <1>2, PTL

(* Every variable keeps its type. *)
THEOREM AccTyping == AccSpec => []AccTypeOK
<1>1. AccSpec => []AccInv
  BY AccInitInv, AccStep, PTL DEF AccSpec
<1>2. AccInv => AccTypeOK
  BY DEF AccInv, AccTyped, AccTypeOK, AccUserRecord, AccSession
<1>3. QED BY <1>1, <1>2, PTL

-----------------------------------------------------------------------------
(***************************************************************************)
(* The syslog forwarder, for every number of producers, every depth of the *)
(* queue and every number of calls.                                        *)
(***************************************************************************)

(* The number of the message that left the channel last. *)
FwdGone == fwdAccepted - Len(fwdQueue)

(* run holds a message exactly while it writes it or waits to write it again;
   a stopped run may still hold one. *)
FwdHolds ==
    /\ (fwdWorker.pc = "select" => fwdWorker.msg = FwdNoMsg)
    /\ (fwdWorker.pc \in {"write", "backoff", "rewrite"} => fwdWorker.msg # FwdNoMsg)

(* What the collector has comes before what run holds, and that before what
   is still queued. *)
FwdOrdered ==
    /\ fwdWorker.msg <= FwdGone
    /\ \A i \in 1..Len(fwdReceived) :
          /\ fwdReceived[i] <= FwdGone
          /\ (fwdWorker.msg # FwdNoMsg => fwdReceived[i] < fwdWorker.msg)

(* A producer between its two selects found a full channel, and knows how many
   messages left it since. *)
FwdSawFull ==
    \A p \in FwdProducers :
        fwdCall[p].pc = "evict" => fwdCall[p].taken + Len(fwdQueue) >= FwdDepth

FwdInv ==
    /\ FwdTypeOK /\ FwdSafe
    /\ FwdHolds /\ FwdOrdered /\ FwdSawFull
    /\ fwdConn # "torn"

\* Taking a message counts once for each producer inside enqueue.
LEMMA FwdTakenType ==
  ASSUME FwdTypeOK
  PROVE  /\ FwdTaken(fwdCall) \in [FwdProducers -> [pc : FwdCallStates, taken : Nat]]
         /\ \A p \in FwdProducers :
               /\ FwdTaken(fwdCall)[p].pc = fwdCall[p].pc
               /\ fwdCall[p].pc # "out" => FwdTaken(fwdCall)[p].taken = fwdCall[p].taken + 1
BY DEF FwdTypeOK, FwdTaken, FwdCallStates

(* Taking the oldest message out keeps an unbroken run in the queue. *)
LEMMA FwdTailKeepsRun ==
  ASSUME FwdTypeOK, FwdNewestKept, fwdQueue # <<>>
  PROVE  /\ Head(fwdQueue) = FwdGone + 1
         /\ Tail(fwdQueue) \in Seq(Nat)
         /\ Len(Tail(fwdQueue)) = Len(fwdQueue) - 1
         /\ Len(fwdQueue) \in Nat \ {0}
         /\ \A i \in 1..Len(Tail(fwdQueue)) :
               Tail(fwdQueue)[i] + Len(Tail(fwdQueue)) = fwdAccepted + i
<1>1. /\ fwdQueue \in Seq(Nat) /\ fwdAccepted \in Nat
      /\ Len(fwdQueue) \in Nat \ {0}
      /\ fwdQueue \in [1..Len(fwdQueue) -> Nat]
  BY EmptySeq, LenProperties DEF FwdTypeOK
<1>2. /\ Tail(fwdQueue) \in Seq(Nat)
      /\ Len(Tail(fwdQueue)) = Len(fwdQueue) - 1
      /\ \A i \in 1..Len(Tail(fwdQueue)) : Tail(fwdQueue)[i] = fwdQueue[i + 1]
  BY <1>1, HeadTailProperties
<1>3. Head(fwdQueue) = fwdQueue[1]
  BY ONLY <1>1
<1>4. Head(fwdQueue) = FwdGone + 1
  <2>1. fwdQueue[1] \in Nat /\ fwdQueue[1] + Len(fwdQueue) = fwdAccepted + 1
    BY <1>1 DEF FwdNewestKept
  <2>2. QED BY <1>1, <1>3, <2>1 DEF FwdGone
<1>5. ASSUME NEW i \in 1..Len(Tail(fwdQueue))
      PROVE  Tail(fwdQueue)[i] + Len(Tail(fwdQueue)) = fwdAccepted + i
  <2>1. i + 1 \in 1..Len(fwdQueue) /\ fwdQueue[i + 1] \in Nat
    BY <1>1, <1>2
  <2>2. fwdQueue[i + 1] + Len(fwdQueue) = fwdAccepted + (i + 1)
    BY <2>1 DEF FwdNewestKept
  <2>3. /\ Tail(fwdQueue)[i] = fwdQueue[i + 1] /\ Len(Tail(fwdQueue)) = Len(fwdQueue) - 1
        /\ i \in Nat /\ Len(fwdQueue) \in Nat /\ fwdAccepted \in Nat
    BY <1>1, <1>2
  <2>4. \A a, n, k, acc \in Nat : a + n = acc + (k + 1) => a + (n - 1) = acc + k
    OBVIOUS
  <2>5. QED BY ONLY <2>1, <2>2, <2>3, <2>4
<1>6. QED BY <1>1, <1>2, <1>4, <1>5

(* A message that leaves the channel is older than what stays in it. *)
LEMMA FwdTakeOut ==
  ASSUME FwdInv, fwdQueue # <<>>, fwdQueue' = Tail(fwdQueue),
         UNCHANGED fwdAccepted
  PROVE  /\ FwdNewestKept' /\ fwdQueue' \in Seq(Nat)
         /\ Len(fwdQueue') = Len(fwdQueue) - 1 /\ Len(fwdQueue) \in Nat \ {0}
         /\ FwdGone' = FwdGone + 1 /\ FwdGone \in Nat
<1>1. FwdTypeOK /\ FwdNewestKept
  BY DEF FwdInv, FwdSafe
<1>2. /\ fwdAccepted \in Nat /\ Len(fwdQueue) \in Nat \ {0}
      /\ Len(fwdQueue') = Len(fwdQueue) - 1 /\ fwdQueue' \in Seq(Nat)
      /\ \A i \in 1..Len(fwdQueue') : fwdQueue'[i] + Len(fwdQueue') = fwdAccepted + i
  BY <1>1, FwdTailKeepsRun DEF FwdTypeOK
<1>3. FwdNewestKept'
  BY <1>1, <1>2, FwdDepthAssumption DEF FwdNewestKept
<1>4. FwdGone' = FwdGone + 1
  BY <1>2 DEF FwdGone
<1>5. FwdGone \in Nat
  <2>1. fwdWorker.msg \in Nat /\ fwdWorker.msg <= FwdGone /\ FwdGone \in Int
    BY <1>2 DEF FwdInv, FwdTypeOK, FwdOrdered, FwdGone
  <2>2. QED BY <2>1
<1>6. QED BY <1>2, <1>3, <1>4, <1>5

\* FwdInv holds initially.
LEMMA FwdInitInv == FwdInit => FwdInv
<1> SUFFICES ASSUME FwdInit PROVE FwdInv
  OBVIOUS
<1>1. FwdTypeOK
  BY EmptySeq DEF FwdInit, FwdTypeOK, FwdCallStates, FwdWorkerStates, FwdNoMsg
<1>2. FwdSafe
  BY FwdDepthAssumption, EmptySeq
  DEF FwdInit, FwdSafe, FwdBooks, FwdNewestKept, FwdInOrder, FwdStreamAligned, FwdInHand,
      FwdNoMsg
<1>3. FwdHolds /\ FwdOrdered /\ FwdSawFull /\ fwdConn # "torn"
  BY EmptySeq DEF FwdInit, FwdHolds, FwdOrdered, FwdGone, FwdSawFull, FwdNoMsg
<1>4. QED BY <1>1, <1>2, <1>3 DEF FwdInv

(* A producer's step between or after its selects: run and the collector are
   not concerned. *)
LEMMA FwdEnqueueStep ==
  ASSUME FwdInv, NEW p \in FwdProducers, FwdEnqueue(p) \/ FwdFull(p) \/ FwdGiveUp(p)
  PROVE  FwdInv'
<1>1. /\ FwdTypeOK /\ FwdSafe /\ FwdSawFull
      /\ UNCHANGED <<fwdQueue, fwdAccepted, fwdWorker, fwdConn, fwdDone, fwdSent, fwdDropped,
                     fwdReceived, fwdGarbled>>
  BY DEF FwdInv, FwdEnqueue, FwdFull, FwdGiveUp
<1>2. FwdTypeOK'
  <2>1. CASE FwdEnqueue(p)
    <3>1. fwdCall' \in [FwdProducers -> [pc : FwdCallStates, taken : Nat]]
      BY <1>1, <2>1 DEF FwdTypeOK, FwdCallStates, FwdEnqueue
    <3>2. QED BY <1>1, <2>1, <3>1 DEF FwdTypeOK, FwdEnqueue
  <2>2. CASE FwdFull(p)
    <3>1. fwdCall' \in [FwdProducers -> [pc : FwdCallStates, taken : Nat]]
      BY <1>1, <2>2 DEF FwdTypeOK, FwdCallStates, FwdFull
    <3>2. QED BY <1>1, <2>2, <3>1 DEF FwdTypeOK, FwdFull
  <2>3. CASE FwdGiveUp(p)
    <3>1. fwdCall' \in [FwdProducers -> [pc : FwdCallStates, taken : Nat]]
      BY <1>1, <2>3 DEF FwdTypeOK, FwdCallStates, FwdGiveUp
    <3>2. QED BY <1>1, <2>3, <3>1 DEF FwdTypeOK, FwdGiveUp
  <2>4. QED BY <2>1, <2>2, <2>3
<1>3. FwdSafe' /\ FwdHolds' /\ FwdOrdered' /\ (fwdConn # "torn")'
  BY <1>1 DEF FwdInv, FwdSafe, FwdBooks, FwdNewestKept, FwdInOrder, FwdStreamAligned, FwdInHand,
              FwdHolds, FwdOrdered, FwdGone
<1>4. FwdSawFull'
  <2>1. Len(fwdQueue) \in Nat
    BY <1>1, LenProperties DEF FwdTypeOK
  <2>2. ASSUME NEW q \in FwdProducers, fwdCall'[q].pc = "evict"
        PROVE  fwdCall'[q].taken + Len(fwdQueue) >= FwdDepth
    <3>1. CASE FwdEnqueue(p)
      <4>1. q # p /\ fwdCall'[q] = fwdCall[q]
        BY <1>1, <2>2, <3>1 DEF FwdTypeOK, FwdEnqueue
      <4>2. QED BY <1>1, <2>2, <4>1 DEF FwdSawFull
    <3>2. CASE FwdFull(p)
      <4>1. CASE q = p
        <5>1. fwdCall'[q].taken = 0 /\ Len(fwdQueue) = FwdDepth
          BY <1>1, <3>2, <4>1 DEF FwdTypeOK, FwdFull
        <5>2. QED BY <2>1, <5>1, FwdDepthAssumption
      <4>2. CASE q # p
        <5>1. fwdCall'[q] = fwdCall[q]
          BY <1>1, <3>2, <4>2 DEF FwdTypeOK, FwdFull
        <5>2. QED BY <1>1, <2>2, <5>1 DEF FwdSawFull
      <4>3. QED BY <4>1, <4>2
    <3>3. CASE FwdGiveUp(p)
      <4>1. q # p /\ fwdCall'[q] = fwdCall[q]
        BY <1>1, <2>2, <3>3 DEF FwdTypeOK, FwdGiveUp
      <4>2. QED BY <1>1, <2>2, <4>1 DEF FwdSawFull
    <3>4. QED BY <3>1, <3>2, <3>3
  <2>3. QED BY <1>1, <2>2 DEF FwdSawFull
<1>5. QED BY <1>2, <1>3, <1>4 DEF FwdInv

\* A producer whose message is queued keeps FwdInv.
LEMMA FwdOfferStep ==
  ASSUME FwdInv, NEW p \in FwdProducers, FwdOffer(p)
  PROVE  FwdInv'
<1>1. /\ FwdTypeOK /\ FwdSafe /\ FwdSawFull /\ FwdHolds /\ FwdOrdered
      /\ fwdQueue \in Seq(Nat) /\ fwdAccepted \in Nat /\ Len(fwdQueue) \in Nat
      /\ \A i \in 1..Len(fwdQueue) : fwdQueue[i] \in Nat
  BY LenProperties, ElementOfSeq DEF FwdInv, FwdTypeOK
<1>2. /\ fwdQueue' \in Seq(Nat) /\ Len(fwdQueue') = Len(fwdQueue) + 1
      /\ \A i \in 1..Len(fwdQueue) : fwdQueue'[i] = fwdQueue[i]
      /\ fwdQueue'[Len(fwdQueue) + 1] = fwdAccepted + 1
      /\ fwdAccepted' = fwdAccepted + 1
      /\ Len(fwdQueue) < FwdDepth
      /\ UNCHANGED <<fwdWorker, fwdConn, fwdDone, fwdSent, fwdDropped, fwdReceived, fwdGarbled>>
  BY <1>1, AppendProperties DEF FwdOffer
<1>3. FwdTypeOK'
  BY <1>1, <1>2 DEF FwdTypeOK, FwdCallStates, FwdOffer
<1>4. FwdGone' = FwdGone
  BY <1>1, <1>2 DEF FwdGone
<1>5. FwdNewestKept'
  <2>1. Len(fwdQueue') <= FwdDepth
    BY <1>1, <1>2, FwdDepthAssumption
  <2>2. ASSUME NEW i \in 1..Len(fwdQueue')
        PROVE  fwdQueue'[i] + Len(fwdQueue') = fwdAccepted' + i
    <3>1. CASE i \in 1..Len(fwdQueue)
      <4>1. fwdQueue[i] + Len(fwdQueue) = fwdAccepted + i /\ fwdQueue[i] \in Nat
        BY <1>1, <3>1 DEF FwdSafe, FwdNewestKept
      <4>2. fwdQueue'[i] = fwdQueue[i]
        BY <1>2, <3>1
      <4>3. i \in Nat
        BY <1>1, <3>1
      <4>4. fwdQueue[i] + (Len(fwdQueue) + 1) = (fwdAccepted + 1) + i
        <5>1. Len(fwdQueue) \in Nat /\ fwdAccepted \in Nat
          BY <1>1
        <5>2. QED BY <4>1, <4>3, <5>1
      <4>5. Len(fwdQueue') = Len(fwdQueue) + 1 /\ fwdAccepted' = fwdAccepted + 1
        BY <1>2
      <4>6. QED BY <4>2, <4>4, <4>5
    <3>2. CASE i = Len(fwdQueue) + 1
      BY <1>1, <1>2, <3>2
    <3>3. QED BY <1>1, <1>2, <3>1, <3>2
  <2>3. QED BY <2>1, <2>2 DEF FwdNewestKept
<1>6. FwdBooks'
  BY <1>1, <1>2 DEF FwdSafe, FwdBooks, FwdInHand, FwdTypeOK
<1>7. FwdInOrder' /\ FwdStreamAligned' /\ FwdHolds' /\ FwdOrdered' /\ (fwdConn # "torn")'
  BY <1>1, <1>2, <1>4 DEF FwdInv, FwdSafe, FwdInOrder, FwdStreamAligned, FwdHolds, FwdOrdered
<1>8. FwdSawFull'
  BY <1>1, <1>2, FwdDepthAssumption DEF FwdTypeOK, FwdCallStates, FwdSawFull, FwdOffer
<1>9. QED BY <1>3, <1>5, <1>6, <1>7, <1>8 DEF FwdInv, FwdSafe

\* A producer that evicts the oldest keeps FwdInv.
LEMMA FwdEvictStep ==
  ASSUME FwdInv, NEW p \in FwdProducers, FwdEvict(p)
  PROVE  FwdInv'
<1>1. /\ FwdTypeOK /\ FwdSafe /\ FwdSawFull /\ FwdHolds /\ FwdOrdered
  BY DEF FwdInv
<1>2. /\ fwdQueue # <<>> /\ fwdQueue' = Tail(fwdQueue) /\ fwdDropped' = fwdDropped + 1
      /\ fwdCall' = [FwdTaken(fwdCall) EXCEPT ![p].pc = "offer"]
      /\ UNCHANGED <<fwdCalls, fwdAccepted, fwdWorker, fwdConn, fwdDone, fwdSent, fwdGivenUp,
                     fwdReceived, fwdGarbled>>
  BY DEF FwdEvict
<1>3. /\ FwdNewestKept' /\ fwdQueue' \in Seq(Nat)
      /\ Len(fwdQueue') = Len(fwdQueue) - 1 /\ Len(fwdQueue) \in Nat \ {0}
      /\ FwdGone' = FwdGone + 1 /\ FwdGone \in Nat
  BY <1>2, FwdTakeOut
<1>4. FwdTypeOK'
  <2>1. FwdTaken(fwdCall) \in [FwdProducers -> [pc : FwdCallStates, taken : Nat]]
    BY <1>1, FwdTakenType
  <2>2. fwdCall' \in [FwdProducers -> [pc : FwdCallStates, taken : Nat]]
    BY <1>2, <2>1 DEF FwdCallStates
  <2>3. fwdDropped' \in Nat
    BY <1>1, <1>2 DEF FwdTypeOK
  <2>4. QED BY <1>1, <1>2, <1>3, <2>2, <2>3 DEF FwdTypeOK
<1>5. FwdBooks'
  BY <1>1, <1>2, <1>3 DEF FwdSafe, FwdBooks, FwdInHand, FwdTypeOK
<1>6. FwdInOrder' /\ FwdStreamAligned' /\ FwdHolds' /\ (fwdConn # "torn")'
  BY <1>1, <1>2 DEF FwdInv, FwdSafe, FwdInOrder, FwdStreamAligned, FwdHolds
<1>7. FwdOrdered'
  <2>1. fwdWorker.msg \in Nat /\ \A i \in 1..Len(fwdReceived) : fwdReceived[i] \in Nat
    BY <1>1, ElementOfSeq DEF FwdTypeOK
  <2>2. QED BY <1>1, <1>2, <1>3, <2>1 DEF FwdOrdered
<1>8. FwdSawFull'
  <2>1. ASSUME NEW q \in FwdProducers, fwdCall'[q].pc = "evict"
        PROVE  fwdCall'[q].taken + Len(fwdQueue') >= FwdDepth
    <3>1. q # p /\ fwdCall'[q] = FwdTaken(fwdCall)[q]
      BY <1>1, <1>2, <2>1, FwdTakenType DEF FwdCallStates
    <3>2. fwdCall[q].pc = "evict" /\ fwdCall'[q].taken = fwdCall[q].taken + 1
      BY <1>1, <2>1, <3>1, FwdTakenType
    <3>3. fwdCall[q].taken \in Nat /\ fwdCall[q].taken + Len(fwdQueue) >= FwdDepth
      BY <1>1, <3>2 DEF FwdTypeOK, FwdSawFull
    <3>4. QED BY <1>3, <3>2, <3>3, FwdDepthAssumption
  <2>2. QED BY <2>1 DEF FwdSawFull
<1>9. QED BY <1>3, <1>4, <1>5, <1>6, <1>7, <1>8 DEF FwdInv, FwdSafe

\* The worker that takes the oldest keeps FwdInv.
LEMMA FwdTakeStep ==
  ASSUME FwdInv, FwdTake
  PROVE  FwdInv'
<1>1. /\ FwdTypeOK /\ FwdSafe /\ FwdSawFull /\ FwdHolds /\ FwdOrdered
  BY DEF FwdInv
<1>2. /\ fwdQueue # <<>> /\ fwdQueue' = Tail(fwdQueue)
      /\ fwdWorker.pc = "select" /\ fwdWorker' = [pc |-> "write", msg |-> Head(fwdQueue)]
      /\ fwdCall' = FwdTaken(fwdCall)
      /\ UNCHANGED <<fwdCalls, fwdAccepted, fwdConn, fwdDone, fwdSent, fwdDropped, fwdGivenUp,
                     fwdReceived, fwdGarbled>>
  BY DEF FwdTake
<1>3. /\ FwdNewestKept' /\ fwdQueue' \in Seq(Nat)
      /\ Len(fwdQueue') = Len(fwdQueue) - 1 /\ Len(fwdQueue) \in Nat \ {0}
      /\ FwdGone' = FwdGone + 1 /\ FwdGone \in Nat
  BY <1>2, FwdTakeOut
<1>4. Head(fwdQueue) = FwdGone + 1
  BY <1>1, <1>2, FwdTailKeepsRun DEF FwdSafe
<1>5. FwdTypeOK'
  <2>1. fwdWorker' \in [pc : FwdWorkerStates, msg : Nat]
    BY <1>2, <1>3, <1>4 DEF FwdWorkerStates
  <2>2. fwdCall' \in [FwdProducers -> [pc : FwdCallStates, taken : Nat]]
    BY <1>1, <1>2, FwdTakenType
  <2>3. QED BY <1>1, <1>2, <1>3, <2>1, <2>2 DEF FwdTypeOK
<1>6. FwdBooks'
  <2>1. FwdInHand = 0 /\ FwdInHand' = 1
    BY <1>1, <1>2, <1>3, <1>4 DEF FwdHolds, FwdInHand, FwdNoMsg
  <2>2. QED BY <1>1, <1>2, <1>3, <2>1 DEF FwdSafe, FwdBooks, FwdTypeOK
<1>7. FwdInOrder' /\ FwdStreamAligned' /\ FwdHolds' /\ (fwdConn # "torn")'
  BY <1>1, <1>2, <1>3, <1>4
  DEF FwdInv, FwdSafe, FwdInOrder, FwdStreamAligned, FwdHolds, FwdNoMsg
<1>8. FwdOrdered'
  <2>1. \A i \in 1..Len(fwdReceived) : fwdReceived[i] \in Nat /\ fwdReceived[i] <= FwdGone
    BY <1>1, ElementOfSeq DEF FwdTypeOK, FwdOrdered
  <2>2. fwdWorker'.msg = FwdGone' /\ UNCHANGED fwdReceived
    BY <1>2, <1>3, <1>4
  <2>3. QED BY <1>3, <2>1, <2>2 DEF FwdOrdered
<1>9. FwdSawFull'
  <2>1. ASSUME NEW q \in FwdProducers, fwdCall'[q].pc = "evict"
        PROVE  fwdCall'[q].taken + Len(fwdQueue') >= FwdDepth
    <3>1. fwdCall[q].pc = "evict" /\ fwdCall'[q].taken = fwdCall[q].taken + 1
      BY <1>1, <1>2, <2>1, FwdTakenType
    <3>2. fwdCall[q].taken \in Nat /\ fwdCall[q].taken + Len(fwdQueue) >= FwdDepth
      BY <1>1, <3>1 DEF FwdTypeOK, FwdSawFull
    <3>3. QED BY <1>3, <3>1, <3>2, FwdDepthAssumption
  <2>2. QED BY <2>1 DEF FwdSawFull
<1>10. QED BY <1>3, <1>5, <1>6, <1>7, <1>8, <1>9 DEF FwdInv, FwdSafe

\* A frame that went out whole keeps FwdInv.
LEMMA FwdWriteOKStep ==
  ASSUME FwdInv, FwdWriteOK
  PROVE  FwdInv'
<1> DEFINE m == fwdWorker.msg
<1>1. /\ FwdTypeOK /\ FwdSafe /\ FwdSawFull /\ FwdHolds /\ FwdOrdered /\ fwdConn # "torn"
  BY DEF FwdInv
<1>2. /\ fwdReceived' = Append(fwdReceived, m) /\ UNCHANGED fwdGarbled
      /\ fwdConn' \in {"clean", fwdConn} /\ fwdSent' = fwdSent + 1
      /\ fwdWorker.pc \in {"write", "rewrite"}
      /\ fwdWorker' = [pc |-> "select", msg |-> FwdNoMsg]
      /\ UNCHANGED <<fwdQueue, fwdCall, fwdCalls, fwdAccepted, fwdDone, fwdDropped, fwdGivenUp>>
  BY <1>1 DEF FwdWriteOK, FwdDeliverTo
<1>3. /\ m \in Nat /\ m # FwdNoMsg /\ m <= FwdGone
      /\ fwdReceived \in Seq(Nat) /\ Len(fwdReceived) \in Nat
      /\ \A i \in 1..Len(fwdReceived) :
            fwdReceived[i] \in Nat /\ fwdReceived[i] < m /\ fwdReceived[i] <= FwdGone
  BY <1>1, <1>2, ElementOfSeq, LenProperties DEF FwdTypeOK, FwdHolds, FwdOrdered
<1> HIDE DEF m
<1>4. /\ fwdReceived' \in Seq(Nat) /\ Len(fwdReceived') = Len(fwdReceived) + 1
      /\ \A i \in 1..Len(fwdReceived) : fwdReceived'[i] = fwdReceived[i]
      /\ fwdReceived'[Len(fwdReceived) + 1] = m
  BY <1>2, <1>3, AppendProperties
<1>5. FwdTypeOK'
  BY <1>1, <1>2, <1>4 DEF FwdTypeOK, FwdWorkerStates, FwdNoMsg
<1>6. FwdBooks'
  <2>1. FwdInHand = 1 /\ FwdInHand' = 0
    BY <1>2, <1>3 DEF FwdInHand, FwdNoMsg, m
  <2>2. QED BY <1>1, <1>2, <2>1, LenProperties DEF FwdSafe, FwdBooks, FwdTypeOK
<1>7. FwdInOrder'
  <2>1. ASSUME NEW i \in 1..Len(fwdReceived'), NEW j \in 1..Len(fwdReceived'), i < j
        PROVE  fwdReceived'[i] < fwdReceived'[j]
    <3>1. i \in 1..Len(fwdReceived) /\ fwdReceived'[i] = fwdReceived[i]
      BY <1>3, <1>4, <2>1
    <3>2. CASE j \in 1..Len(fwdReceived)
      BY <1>1, <1>4, <2>1, <3>1, <3>2 DEF FwdSafe, FwdInOrder
    <3>3. CASE j = Len(fwdReceived) + 1
      BY <1>3, <1>4, <3>1, <3>3
    <3>4. QED BY <1>3, <1>4, <2>1, <3>2, <3>3
  <2>2. QED BY <2>1 DEF FwdInOrder
<1>8. FwdOrdered'
  <2>1. FwdGone' = FwdGone /\ FwdGone \in Nat
    <3>1. FwdGone \in Int
      BY <1>1, LenProperties DEF FwdGone, FwdTypeOK
    <3>2. QED BY <1>2, <1>3, <3>1 DEF FwdGone
  <2>2. ASSUME NEW i \in 1..Len(fwdReceived') PROVE fwdReceived'[i] <= FwdGone
    BY <1>3, <1>4
  <2>3. QED BY <1>2, <2>1, <2>2 DEF FwdOrdered, FwdNoMsg
<1>9. FwdNewestKept' /\ FwdStreamAligned' /\ FwdHolds' /\ FwdSawFull' /\ (fwdConn # "torn")'
  BY <1>1, <1>2 DEF FwdSafe, FwdNewestKept, FwdStreamAligned, FwdHolds, FwdSawFull
<1>10. QED BY <1>5, <1>6, <1>7, <1>8, <1>9 DEF FwdInv, FwdSafe

(* A write fails, the wait is over, Close and its end: the queue, the producers
   and the collector are not concerned. *)
LEMMA FwdOtherStep ==
  ASSUME FwdInv, FwdWriteFails \/ FwdBackoffEnds \/ FwdRewriteFails \/ FwdClose \/ FwdStop
                    \/ FwdClosed
  PROVE  FwdInv'
<1>1. /\ FwdTypeOK /\ FwdSafe /\ FwdSawFull /\ FwdHolds /\ FwdOrdered /\ fwdConn # "torn"
      /\ UNCHANGED <<fwdQueue, fwdCall, fwdCalls, fwdAccepted, fwdSent, fwdGivenUp, fwdReceived,
                     fwdGarbled>>
  BY DEF FwdInv, FwdWriteFails, FwdBackoffEnds, FwdRewriteFails, FwdClose, FwdStop, FwdClosed
<1>2. /\ fwdConn' \in {"none", "clean"} /\ fwdDone' \in {"open", "closing", "closed"}
  BY <1>1 DEF FwdTypeOK, FwdDropConn, FwdWriteFails, FwdBackoffEnds, FwdRewriteFails, FwdClose,
              FwdStop, FwdClosed
<1>3. \/ /\ fwdWorker' = [pc |-> "select", msg |-> FwdNoMsg] /\ fwdWorker.pc = "rewrite"
         /\ fwdDropped' = fwdDropped + 1
      \/ /\ \E pc \in FwdWorkerStates :
               /\ fwdWorker' = [fwdWorker EXCEPT !.pc = pc]
               /\ (pc = fwdWorker.pc
                     \/ (pc \in {"backoff", "rewrite"} /\ fwdWorker.pc \in {"write", "backoff"})
                     \/ pc = "stopped")
         /\ fwdDropped' = fwdDropped
  BY <1>1 DEF FwdTypeOK, FwdWorkerStates, FwdWriteFails, FwdBackoffEnds, FwdRewriteFails, FwdClose,
              FwdStop, FwdClosed
<1>4. CASE /\ fwdWorker' = [pc |-> "select", msg |-> FwdNoMsg] /\ fwdWorker.pc = "rewrite"
           /\ fwdDropped' = fwdDropped + 1
  <2>1. FwdTypeOK'
    BY <1>1, <1>2, <1>4 DEF FwdTypeOK, FwdWorkerStates, FwdNoMsg
  <2>2. FwdInHand = 1 /\ FwdInHand' = 0
    BY <1>1, <1>4 DEF FwdInHand, FwdHolds, FwdNoMsg
  <2>3. FwdBooks'
    BY <1>1, <1>4, <2>2, LenProperties DEF FwdSafe, FwdBooks, FwdTypeOK
  <2>4. FwdOrdered'
    BY <1>1, <1>4, LenProperties DEF FwdOrdered, FwdGone, FwdNoMsg, FwdTypeOK
  <2>5. QED
    BY <1>1, <1>2, <1>4, <2>1, <2>3, <2>4
    DEF FwdInv, FwdSafe, FwdNewestKept, FwdInOrder, FwdStreamAligned, FwdHolds, FwdSawFull
<1>5. ASSUME NEW pc \in FwdWorkerStates,
             fwdWorker' = [fwdWorker EXCEPT !.pc = pc], fwdDropped' = fwdDropped,
             pc = fwdWorker.pc
               \/ (pc \in {"backoff", "rewrite"} /\ fwdWorker.pc \in {"write", "backoff"})
               \/ pc = "stopped"
      PROVE  FwdInv'
  <2>1. fwdWorker'.msg = fwdWorker.msg /\ fwdWorker'.pc = pc
        /\ fwdWorker' \in [pc : FwdWorkerStates, msg : Nat]
    BY <1>1, <1>5 DEF FwdTypeOK
  <2>2. FwdTypeOK'
    BY <1>1, <1>2, <1>5, <2>1 DEF FwdTypeOK
  <2>3. FwdHolds'
    BY <1>1, <1>5, <2>1 DEF FwdHolds
  <2>4. FwdBooks' /\ FwdOrdered'
    BY <1>1, <1>5, <2>1 DEF FwdSafe, FwdBooks, FwdInHand, FwdOrdered, FwdGone
  <2>5. QED
    BY <1>1, <1>2, <2>2, <2>3, <2>4
    DEF FwdInv, FwdSafe, FwdNewestKept, FwdInOrder, FwdStreamAligned, FwdSawFull
<1>6. QED BY <1>3, <1>4, <1>5

\* Every step keeps FwdInv.
LEMMA FwdStep == FwdInv /\ [FwdNext]_fwdVars => FwdInv'
<1> SUFFICES ASSUME FwdInv, [FwdNext]_fwdVars PROVE FwdInv'
  OBVIOUS
<1>1. CASE UNCHANGED fwdVars
  BY <1>1
  DEF FwdInv, fwdVars, FwdTypeOK, FwdSafe, FwdBooks, FwdInHand, FwdNewestKept, FwdInOrder,
      FwdStreamAligned, FwdHolds, FwdOrdered, FwdGone, FwdSawFull
<1>2. ASSUME NEW p \in FwdProducers, FwdEnqueue(p) \/ FwdInEnqueue(p) PROVE FwdInv'
  BY <1>2, FwdEnqueueStep, FwdOfferStep, FwdEvictStep DEF FwdInEnqueue
<1>3. CASE FwdRun
  BY <1>3, FwdTakeStep, FwdWriteOKStep, FwdOtherStep DEF FwdRun
<1>4. CASE FwdClose \/ FwdStop \/ FwdClosed
  BY <1>4, FwdOtherStep
<1>5. QED BY <1>1, <1>2, <1>3, <1>4 DEF FwdNext

(* forward.go: every message the queue took is sent, dropped and counted, or
   still there; the newest are kept; the collector reads whole messages in
   order, each once. *)
THEOREM FwdSafety == FwdSpec => []FwdSafe
<1>1. FwdSpec => []FwdInv
  BY FwdInitInv, FwdStep, PTL DEF FwdSpec
<1>2. FwdInv => FwdSafe
  BY DEF FwdInv
<1>3. QED BY <1>1, <1>2, PTL

(* Every variable keeps its type, for every depth and number of producers. *)
THEOREM FwdTyping == FwdSpec => []FwdTypeOK
<1>1. FwdSpec => []FwdInv
  BY FwdInitInv, FwdStep, PTL DEF FwdSpec
<1>2. FwdInv => FwdTypeOK
  BY DEF FwdInv
<1>3. QED BY <1>1, <1>2, PTL

(* enqueue returns without having queued its message only when a whole
   channel of messages left the queue while it tried. *)
THEOREM FwdGivesUpForCause == FwdSpec => FwdGiveUpNeedsDrain
<1> DEFINE Cause == \A p \in FwdProducers :
                        fwdCall[p].pc = "evict" /\ fwdCall'[p].pc = "out"
                           => fwdCall[p].taken >= FwdDepth
<1>1. FwdInv /\ [FwdNext]_fwdVars => [Cause]_fwdVars
  <2> SUFFICES ASSUME FwdInv, FwdNext,
                      NEW p \in FwdProducers, fwdCall[p].pc = "evict", fwdCall'[p].pc = "out"
               PROVE  fwdCall[p].taken >= FwdDepth
    OBVIOUS
  <2>1. FwdTypeOK /\ FwdSawFull
    BY DEF FwdInv
  <2>2. FwdGiveUp(p)
    <3>1. ASSUME fwdCall' = fwdCall \/ fwdCall' = FwdTaken(fwdCall) PROVE FALSE
      BY <2>1, <3>1, FwdTakenType
    <3>2. ASSUME NEW q \in FwdProducers, FwdEnqueue(q) \/ FwdInEnqueue(q)
          PROVE  FwdGiveUp(p)
      <4>1. CASE q # p
        <5>1. fwdCall'[p].pc = fwdCall[p].pc
          BY <2>1, <3>2, <4>1, FwdTakenType
          DEF FwdTypeOK, FwdEnqueue, FwdInEnqueue, FwdOffer, FwdFull, FwdEvict, FwdGiveUp
        <5>2. QED BY <5>1
      <4>2. CASE q = p
        BY <2>1, <3>2, <4>2, FwdTakenType
        DEF FwdTypeOK, FwdEnqueue, FwdInEnqueue, FwdOffer, FwdFull, FwdEvict
      <4>3. QED BY <4>1, <4>2
    <3>3. ASSUME FwdRun \/ FwdClose \/ FwdStop \/ FwdClosed PROVE FALSE
      BY <3>1, <3>3
      DEF FwdRun, FwdTake, FwdWriteOK, FwdWriteFails, FwdBackoffEnds, FwdRewriteFails, FwdClose,
          FwdStop, FwdClosed
    <3>4. QED BY <3>2, <3>3 DEF FwdNext
  <2>3. fwdCall[p].taken + Len(fwdQueue) >= FwdDepth /\ fwdCall[p].taken \in Nat
    BY <2>1 DEF FwdSawFull, FwdTypeOK
  <2>4. Len(fwdQueue) = 0
    BY <2>2, EmptySeq DEF FwdGiveUp
  <2>5. QED BY <2>3, <2>4, FwdDepthAssumption
<1>2. FwdSpec => []FwdInv
  BY FwdInitInv, FwdStep, PTL DEF FwdSpec
<1>3. QED BY <1>1, <1>2, PTL DEF FwdSpec, FwdGiveUpNeedsDrain

(* What Stats counts as sent is what the collector read. *)
FwdRead == fwdSent = Len(fwdReceived)

\* FwdRead holds initially and with FwdInv, every step keeps it.
LEMMA FwdReadStep ==
    /\ FwdInit => FwdRead
    /\ FwdInv /\ FwdRead /\ [FwdNext]_fwdVars => FwdRead'
<1>1. FwdInit => FwdRead
  BY EmptySeq DEF FwdInit, FwdRead
<1>2. SUFFICES ASSUME FwdInv, FwdRead, [FwdNext]_fwdVars PROVE FwdRead'
  BY <1>1
<1>3. CASE FwdWriteOK
  <2>1. fwdReceived' = Append(fwdReceived, fwdWorker.msg) /\ fwdSent' = fwdSent + 1
    BY <1>2, <1>3 DEF FwdInv, FwdWriteOK, FwdDeliverTo
  <2>2. fwdReceived \in Seq(Nat) /\ fwdWorker.msg \in Nat
    BY <1>2 DEF FwdInv, FwdTypeOK
  <2> QED BY <1>2, <2>1, <2>2, AppendProperties DEF FwdRead
<1>4. CASE ~FwdWriteOK
  <2>1. UNCHANGED <<fwdReceived, fwdSent>>
    BY <1>2, <1>4
    DEF fwdVars, FwdNext, FwdEnqueue, FwdInEnqueue, FwdOffer, FwdFull, FwdEvict, FwdGiveUp, FwdRun,
        FwdTake, FwdWriteFails, FwdBackoffEnds, FwdRewriteFails, FwdClose, FwdStop, FwdClosed
  <2> QED BY <1>2, <2>1 DEF FwdRead
<1> QED BY <1>3, <1>4

\* A sequence behind one element: its head, its tail and the rest.
LEMMA FwdBehind ==
    ASSUME NEW m \in Nat, NEW q \in Seq(Nat)
    PROVE  /\ <<m>> \o q \in Seq(Nat) /\ <<m>> \o q # <<>>
           /\ Len(<<m>> \o q) = Len(q) + 1
           /\ Head(<<m>> \o q) = m
           /\ Tail(<<m>> \o q) = q
<1> DEFINE s == <<m>> \o q
<1>1. <<m>> \in Seq(Nat) /\ Len(<<m>>) = 1 /\ <<m>>[1] = m
  OBVIOUS
<1>2. /\ s \in Seq(Nat) /\ Len(s) = 1 + Len(q) /\ Len(q) \in Nat
      /\ \A i \in 1..1 + Len(q) : s[i] = IF i <= 1 THEN <<m>>[i] ELSE q[i - 1]
  <2>1. /\ s \in Seq(Nat) /\ Len(s) = Len(<<m>>) + Len(q)
        /\ \A i \in 1..Len(<<m>>) + Len(q) :
              s[i] = IF i <= Len(<<m>>) THEN <<m>>[i] ELSE q[i - Len(<<m>>)]
    BY <1>1, ConcatProperties
  <2> QED BY <1>1, <2>1, LenProperties
<1> HIDE DEF s
<1>3. s # <<>>
  BY <1>2, EmptySeq
<1>4. s[1] = m
  BY <1>1, <1>2
<1>5. Head(s) = m
  BY <1>4
<1>6. /\ Tail(s) \in Seq(Nat) /\ Len(Tail(s)) = Len(q)
      /\ \A i \in 1..Len(Tail(s)) : Tail(s)[i] = s[i + 1]
  BY <1>2, <1>3, HeadTailProperties
<1>7. ASSUME NEW i \in 1..Len(q) PROVE Tail(s)[i] = q[i]
  <2>1. i + 1 \in 1..1 + Len(q) /\ ~(i + 1 <= 1) /\ (i + 1) - 1 = i
    BY <1>2
  <2> QED BY <1>2, <1>6, <2>1
<1>8. Tail(s) = q
  BY <1>6, <1>7, SeqEqual
<1> QED BY <1>2, <1>3, <1>5, <1>8 DEF s

\* A sequence is its head and what is behind it.
LEMMA FwdHeadBehind ==
    ASSUME NEW q \in Seq(Nat), q # <<>>
    PROVE  Head(q) \in Nat /\ Tail(q) \in Seq(Nat) /\ <<Head(q)>> \o Tail(q) = q
<1>1. /\ Head(q) \in Nat /\ Tail(q) \in Seq(Nat) /\ Len(Tail(q)) = Len(q) - 1
      /\ \A i \in 1..Len(Tail(q)) : Tail(q)[i] = q[i + 1]
      /\ Len(q) \in Nat \ {0}
  BY HeadTailProperties, EmptySeq
<1>2. Head(q) = q[1]
  BY <1>1
<1> DEFINE h == Head(q)
           t == Tail(q)
           s == <<h>> \o t
<1>3. <<h>> \in Seq(Nat) /\ Len(<<h>>) = 1 /\ <<h>>[1] = h
  BY <1>1
<1>4. /\ s \in Seq(Nat) /\ Len(s) = Len(<<h>>) + Len(t)
      /\ \A i \in 1..Len(<<h>>) + Len(t) :
            s[i] = IF i <= Len(<<h>>) THEN <<h>>[i] ELSE t[i - Len(<<h>>)]
  BY <1>1, <1>3, ConcatProperties
<1> HIDE DEF h, t, s
<1>5. ASSUME NEW i \in 1..Len(s) PROVE s[i] = q[i]
  <2>1. Len(s) = Len(q) /\ Len(t) = Len(q) - 1 /\ i \in 1..1 + Len(t)
    BY <1>1, <1>3, <1>4 DEF t
  <2>2. CASE i = 1
    BY <1>2, <1>3, <1>4, <2>1, <2>2 DEF h
  <2>3. CASE i # 1
    <3>1. s[i] = t[i - 1] /\ i - 1 \in 1..Len(t)
      BY <1>3, <1>4, <2>1, <2>3
    <3>2. t[i - 1] = q[(i - 1) + 1]
      BY <1>1, <3>1 DEF t
    <3> QED BY <3>1, <3>2
  <2> QED BY <2>2, <2>3
<1>6. Len(s) = Len(q)
  BY <1>1, <1>3, <1>4 DEF t
<1>7. s = q
  BY <1>4, <1>5, <1>6, SeqEqual
<1> QED BY <1>1, <1>7 DEF s, h, t

\* What is appended to a sequence is appended to what lies before it.
LEMMA FwdAppendBehind ==
    ASSUME NEW h \in Seq(Nat), NEW q \in Seq(Nat), NEW n \in Nat
    PROVE  h \o Append(q, n) = Append(h \o q, n)
<1>1. <<n>> \in Seq(Nat) /\ h \o q \in Seq(Nat)
  BY ConcatProperties
<1>2. Append(q, n) = q \o <<n>> /\ Append(h \o q, n) = (h \o q) \o <<n>>
  BY <1>1, AppendIsConcat
<1>3. (h \o q) \o <<n>> = h \o (q \o <<n>>)
  BY <1>1, ConcatAssociative
<1> QED BY <1>2, <1>3

\* What the mapping makes of a worker with and without a message.
LEMMA FwdHeldIs ==
    ASSUME FwdInv
    PROVE  /\ fwdQueue \in Seq(Nat) /\ fwdWorker.msg \in Nat /\ FwdHeld \in Seq(Nat)
           /\ fwdWorker.msg = FwdNoMsg => FwdHeld = fwdQueue
           /\ fwdWorker.msg # FwdNoMsg => FwdHeld = <<fwdWorker.msg>> \o fwdQueue
           /\ Len(FwdHeld) = FwdInHand + Len(fwdQueue)
<1>1. fwdQueue \in Seq(Nat) /\ fwdWorker.msg \in Nat
  BY DEF FwdInv, FwdTypeOK
<1>2. CASE fwdWorker.msg = FwdNoMsg
  <2>1. FwdHeld = fwdQueue
    BY <1>1, <1>2, ConcatEmptySeq DEF FwdHeld
  <2> QED BY <1>1, <1>2, <2>1, LenProperties DEF FwdInHand
<1>3. CASE fwdWorker.msg # FwdNoMsg
  <2>1. FwdHeld = <<fwdWorker.msg>> \o fwdQueue
    BY <1>3 DEF FwdHeld
  <2> QED BY <1>1, <1>3, <2>1, FwdBehind, LenProperties DEF FwdInHand
<1> QED BY <1>2, <1>3

\* The channel takes a message: the queue accepts one.
LEMMA FwdOfferAccepts ==
    ASSUME FwdInv, FwdRead, NEW p \in FwdProducers, FwdOffer(p)
    PROVE  FwdLossyQueue!Accept
<1>1. /\ Len(fwdQueue) < FwdDepth /\ Len(fwdQueue) \in Nat /\ fwdAccepted \in Nat
      /\ fwdQueue' = Append(fwdQueue, fwdAccepted + 1) /\ fwdAccepted + 1 \in Nat
      /\ UNCHANGED <<fwdWorker, fwdReceived, fwdDropped>>
  BY LenProperties DEF FwdInv, FwdTypeOK, FwdOffer
<1>2. Len(FwdHeld) < FwdDepth + 1
  BY <1>1, FwdHeldIs, FwdDepthAssumption DEF FwdInHand
<1>3. FwdLossyQueue!Taken = fwdAccepted
  <2>1. FwdLossyQueue!Taken = Len(fwdReceived) + fwdDropped + Len(FwdHeld)
    BY DEF FwdLossyQueue!Taken
  <2>2. Len(FwdHeld) = FwdInHand + Len(fwdQueue)
    BY FwdHeldIs
  <2>3. fwdAccepted = Len(fwdReceived) + fwdDropped + Len(fwdQueue) + FwdInHand
    BY DEF FwdRead, FwdInv, FwdSafe, FwdBooks
  <2>4. /\ Len(fwdReceived) \in Nat /\ fwdDropped \in Nat /\ Len(fwdQueue) \in Nat
        /\ FwdInHand \in Nat
    BY LenProperties DEF FwdInv, FwdTypeOK, FwdInHand
  <2> QED BY <2>1, <2>2, <2>3, <2>4
<1>4. FwdHeld' = Append(FwdHeld, fwdAccepted + 1)
  <2> DEFINE hand == IF fwdWorker.msg = FwdNoMsg THEN <<>> ELSE <<fwdWorker.msg>>
  <2>1. hand \in Seq(Nat) /\ fwdQueue \in Seq(Nat)
    BY FwdHeldIs, EmptySeq
  <2>2. FwdHeld = hand \o fwdQueue /\ FwdHeld' = hand \o Append(fwdQueue, fwdAccepted + 1)
    BY <1>1 DEF FwdHeld
  <2> HIDE DEF hand
  <2> QED BY <1>1, <2>1, <2>2, FwdAppendBehind
<1> QED BY <1>1, <1>2, <1>3, <1>4 DEF FwdLossyQueue!Accept

\* An eviction loses the first of what the queue holds, or the one behind it.
LEMMA FwdEvictLoses ==
    ASSUME FwdInv, NEW p \in FwdProducers, FwdEvict(p)
    PROVE  FwdLossyQueue!LoseFirst \/ FwdLossyQueue!LoseSecond
<1>1. /\ fwdQueue # <<>> /\ fwdQueue' = Tail(fwdQueue) /\ fwdDropped' = fwdDropped + 1
      /\ UNCHANGED <<fwdWorker, fwdReceived>>
  BY DEF FwdEvict
<1>2. Tail(fwdQueue) \in Seq(Nat) /\ Len(fwdQueue) \in Nat \ {0}
  BY <1>1, FwdHeldIs, HeadTailProperties, EmptySeq
<1>3. CASE fwdWorker.msg = FwdNoMsg
  <2>1. FwdHeld' = Tail(fwdQueue)
    BY <1>1, <1>2, <1>3, ConcatEmptySeq DEF FwdHeld
  <2> QED BY <1>1, <1>3, <2>1, FwdHeldIs DEF FwdLossyQueue!LoseFirst
<1>4. CASE fwdWorker.msg # FwdNoMsg
  <2>1. FwdHeld' = <<fwdWorker.msg>> \o Tail(fwdQueue)
    BY <1>1, <1>4 DEF FwdHeld
  <2>2. FwdHeld = <<fwdWorker.msg>> \o fwdQueue
    BY <1>4, FwdHeldIs
  <2>3. Head(FwdHeld) = fwdWorker.msg /\ Tail(FwdHeld) = fwdQueue /\ Len(FwdHeld) > 1
    BY <1>2, <2>2, FwdHeldIs, FwdBehind
  <2> QED BY <1>1, <2>1, <2>3 DEF FwdLossyQueue!LoseSecond
<1> QED BY <1>3, <1>4

\* run takes a message in hand: the queue does not notice.
LEMMA FwdTakeUnseen ==
    ASSUME FwdInv, FwdTake
    PROVE  UNCHANGED FwdLossyQueue!vars
<1>1. /\ fwdQueue # <<>> /\ fwdQueue' = Tail(fwdQueue)
      /\ fwdWorker' = [pc |-> "write", msg |-> Head(fwdQueue)]
      /\ fwdWorker.msg = FwdNoMsg
      /\ UNCHANGED <<fwdReceived, fwdDropped>>
  BY DEF FwdInv, FwdHolds, FwdTake
<1>2. Head(fwdQueue) # FwdNoMsg
  <2>1. FwdTypeOK /\ FwdNewestKept /\ fwdWorker.msg \in Nat /\ fwdWorker.msg <= FwdGone
    BY DEF FwdInv, FwdSafe, FwdOrdered, FwdTypeOK
  <2>2. Head(fwdQueue) = FwdGone + 1
    BY <1>1, <2>1, FwdTailKeepsRun
  <2>3. FwdGone \in Int
    BY <2>1, LenProperties DEF FwdGone, FwdTypeOK
  <2> QED BY <2>1, <2>2, <2>3 DEF FwdNoMsg
<1>3. FwdHeld' = <<Head(fwdQueue)>> \o Tail(fwdQueue)
  BY <1>1, <1>2 DEF FwdHeld, FwdNoMsg
<1>4. FwdHeld' = FwdHeld
  BY <1>1, <1>3, FwdHeldIs, FwdHeadBehind
<1> QED BY <1>1, <1>4 DEF FwdLossyQueue!vars

\* run is done with the message in hand: the first is delivered or lost.
LEMMA FwdHandLeaves ==
    ASSUME FwdInv, FwdWriteOK \/ FwdRewriteFails
    PROVE  FwdLossyQueue!Deliver \/ FwdLossyQueue!LoseFirst
<1>1. /\ fwdWorker.msg # FwdNoMsg /\ fwdWorker'.msg = FwdNoMsg
      /\ UNCHANGED fwdQueue
      /\ \/ fwdReceived' = Append(fwdReceived, fwdWorker.msg) /\ UNCHANGED fwdDropped
         \/ fwdDropped' = fwdDropped + 1 /\ UNCHANGED fwdReceived
  BY DEF FwdInv, FwdHolds, FwdWriteOK, FwdRewriteFails, FwdDeliverTo
<1>2. FwdHeld = <<fwdWorker.msg>> \o fwdQueue
  BY <1>1, FwdHeldIs
<1>3. FwdHeld # <<>> /\ Head(FwdHeld) = fwdWorker.msg /\ Tail(FwdHeld) = fwdQueue
  BY <1>2, FwdHeldIs, FwdBehind
<1>4. FwdHeld' = fwdQueue
  BY <1>1, FwdHeldIs, ConcatEmptySeq DEF FwdHeld
<1> QED BY <1>1, <1>3, <1>4 DEF FwdLossyQueue!Deliver, FwdLossyQueue!LoseFirst

\* Everything else is none of the queue's business.
LEMMA FwdOthersUnseen ==
    ASSUME FwdInv, \/ \E p \in FwdProducers : FwdEnqueue(p) \/ FwdFull(p) \/ FwdGiveUp(p)
                   \/ FwdWriteFails \/ FwdBackoffEnds \/ FwdClose \/ FwdStop \/ FwdClosed
                   \/ UNCHANGED fwdVars
    PROVE  UNCHANGED FwdLossyQueue!vars
<1>1. UNCHANGED <<fwdQueue, fwdReceived, fwdDropped>>
  BY DEF fwdVars, FwdEnqueue, FwdFull, FwdGiveUp, FwdWriteFails, FwdBackoffEnds, FwdClose, FwdStop,
         FwdClosed
<1>2. fwdWorker'.msg = fwdWorker.msg
  <2>1. fwdWorker \in [pc : FwdWorkerStates, msg : Nat]
    BY DEF FwdInv, FwdTypeOK
  <2> QED BY <2>1 DEF fwdVars, FwdEnqueue, FwdFull, FwdGiveUp, FwdWriteFails, FwdBackoffEnds,
                      FwdClose, FwdStop, FwdClosed
<1> QED BY <1>1, <1>2 DEF FwdLossyQueue!vars, FwdHeld

\* To the outside the forwarder is a bounded queue that delivers in order, each
\* message once, and counts its losses, whatever enqueue's two selects, run's
\* retry and Close do to one another (forward.go).
THEOREM ForwarderImplementsQueue == FwdSpec => FwdImplementsQueue
<1>1. FwdInit => FwdLossyQueue!Init
  <2> SUFFICES ASSUME FwdInit PROVE FwdLossyQueue!Init
    OBVIOUS
  <2>1. FwdHeld = <<>>
    BY FwdInitInv, FwdHeldIs DEF FwdInit
  <2> QED BY <2>1 DEF FwdInit, FwdLossyQueue!Init
<1>2. FwdInv /\ FwdRead /\ [FwdNext]_fwdVars => [FwdLossyQueue!Next]_(FwdLossyQueue!vars)
  <2> SUFFICES ASSUME FwdInv, FwdRead, [FwdNext]_fwdVars
               PROVE  FwdLossyQueue!Next \/ UNCHANGED FwdLossyQueue!vars
    OBVIOUS
  <2>1. ASSUME NEW p \in FwdProducers, FwdOffer(p) PROVE FwdLossyQueue!Next
    BY <2>1, FwdOfferAccepts DEF FwdLossyQueue!Next
  <2>2. ASSUME NEW p \in FwdProducers, FwdEvict(p) PROVE FwdLossyQueue!Next
    BY <2>2, FwdEvictLoses DEF FwdLossyQueue!Next
  <2>3. CASE FwdTake
    BY <2>3, FwdTakeUnseen
  <2>4. CASE FwdWriteOK \/ FwdRewriteFails
    BY <2>4, FwdHandLeaves DEF FwdLossyQueue!Next
  <2>5. CASE \/ \E p \in FwdProducers : FwdEnqueue(p) \/ FwdFull(p) \/ FwdGiveUp(p)
             \/ FwdWriteFails \/ FwdBackoffEnds \/ FwdClose \/ FwdStop \/ FwdClosed
             \/ UNCHANGED fwdVars
    BY <2>5, FwdOthersUnseen
  <2> QED BY <2>1, <2>2, <2>3, <2>4, <2>5 DEF FwdNext, FwdInEnqueue, FwdRun
<1>3. FwdSpec => [](FwdInv /\ FwdRead)
  BY FwdInitInv, FwdStep, FwdReadStep, PTL DEF FwdSpec
<1>4. QED BY <1>1, <1>2, <1>3, PTL DEF FwdSpec, FwdImplementsQueue, FwdLossyQueue!Spec

\* The console's books of what it forwards are right and a message is given up
\* only for cause, and to the outside it is the queue (enqueue, run, write and
\* Close, forward.go).
THEOREM ForwarderPromises == FwdSpec => FwdPromises
<1> QED BY FwdSafety, FwdGivesUpForCause, ForwarderImplementsQueue DEF FwdPromises

-----------------------------------------------------------------------------
(***************************************************************************)
(* Consensus over attestations, for every set of agents, digests and paths *)
(* and every quorum.                                                       *)
(***************************************************************************)

\* "Less than" has no infinite descent.
LEMMA ConNatLess == IsWellFoundedOn({p \in Nat \X Nat : p[1] < p[2]}, Nat)
  BY NatLessThanWellFounded DEF OpToRel

\* A set of numbers has a least one.
LEMMA ConLeast ==
    ASSUME NEW T, T \subseteq Nat, T # {}
    PROVE  \E x \in T : \A y \in T : x <= y
<1>1. PICK x \in T : \A y \in T : <<y, x>> \notin {p \in Nat \X Nat : p[1] < p[2]}
  BY ConNatLess, WFMin
<1>2. ASSUME NEW y \in T PROVE x <= y
  <2>1. x \in Nat /\ y \in Nat
    OBVIOUS
  <2>2. ~(y < x)
    BY <1>1, <2>1
  <2> QED BY <2>1, <2>2
<1> QED BY <1>2

\* Min of the community modules returns it.
LEMMA ConMin ==
    ASSUME NEW T, T \subseteq Nat, T # {}
    PROVE  Min(T) \in T /\ \A t \in T : Min(T) <= t
<1>1. PICK x \in T : \A y \in T : x <= y
  BY ConLeast
<1> QED BY <1>1 DEF Min

\* A bounded set of numbers has a greatest one.
LEMMA ConMax ==
    ASSUME NEW T, T \subseteq Nat, T # {}, NEW b \in Nat, \A y \in T : y <= b
    PROVE  Max(T) \in T
<1> DEFINE U == {b - y : y \in T}
<1>1. U \subseteq Nat /\ U # {}
  <2>1. \A y \in T : b - y \in Nat
    OBVIOUS
  <2> QED BY <2>1
<1> HIDE DEF U
<1>2. PICK u \in U : \A v \in U : u <= v
  BY <1>1, ConLeast
<1>3. PICK x \in T : u = b - x
  BY <1>2 DEF U
<1>4. ASSUME NEW y \in T PROVE x >= y
  <2>1. b - y \in U
    BY DEF U
  <2> QED BY <1>2, <1>3, <2>1
<1> QED BY <1>4 DEF Max

\* What a function makes of a finite set is finite.
LEMMA ConImage ==
    ASSUME NEW S, IsFiniteSet(S), NEW g, DOMAIN g = S, NEW T, \A t \in T : \E x \in S : t = g[x]
    PROVE  IsFiniteSet(T)
<1> DEFINE R == {g[x] : x \in S}
<1>1. [x \in S |-> g[x]] \in Surjection(S, R)
  BY DEF Surjection
<1>2. T \subseteq R
  OBVIOUS
<1> QED BY <1>1, <1>2, FS_Surjection, FS_Subset

-----------------------------------------------------------------------------
(* The rows *)

ConRows == [agent : ConAgents, sha : ConDigests, path : ConPaths, first : Nat, last : Nat,
            state : {"open", "dismissed"}]

\* The types hold initially.
LEMMA ConInitTypeOK == ConInit => ConTypeOK
<1> SUFFICES ASSUME ConInit PROVE ConTypeOK
  OBVIOUS
<1> QED BY FS_EmptySet, ConConstantsAssumption DEF ConInit, ConTypeOK

\* What a row is, its times apart.
LEMMA ConRowFacts ==
    ASSUME ConTypeOK, NEW f \in conFind
    PROVE  /\ f.agent \in ConAgents /\ f.sha \in ConDigests /\ f.path \in ConPaths
           /\ f.state \in {"open", "dismissed"}
           /\ f.first \in Nat /\ f.last \in Nat /\ conTime \in Nat /\ conTime <= ConMaxTime
           /\ f.first <= f.last /\ f.last <= conTime /\ f.last <= ConMaxTime /\ f.first <= conTime
           /\ f = [agent |-> f.agent, sha |-> f.sha, path |-> f.path, first |-> f.first,
                   last |-> f.last, state |-> f.state]
<1>1. f \in [agent : ConAgents, sha : ConDigests, path : ConPaths, first : 0..conTime,
             last : 0..conTime, state : {"open", "dismissed"}]
  BY DEF ConTypeOK
<1>2. conTime \in 0..ConMaxTime /\ ConMaxTime \in Nat /\ f.first <= f.last
  BY ConConstantsAssumption DEF ConTypeOK
<1>3. f.first \in 0..conTime /\ f.last \in 0..conTime
  BY <1>1
<1> QED BY <1>1, <1>2, <1>3

\* A row that is what it should be at a later time.
LEMMA ConNewRows ==
    ASSUME NEW rows, NEW t \in Nat, IsFiniteSet(rows),
           \A r \in rows : /\ r \in ConRows /\ r.first <= r.last /\ r.last <= t
    PROVE  /\ rows \subseteq [agent : ConAgents, sha : ConDigests, path : ConPaths, first : 0..t,
                              last : 0..t, state : {"open", "dismissed"}]
           /\ IsFiniteSet(rows) /\ \A r \in rows : r.first <= r.last
<1>1. ASSUME NEW r \in rows
      PROVE  r \in [agent : ConAgents, sha : ConDigests, path : ConPaths, first : 0..t,
                    last : 0..t, state : {"open", "dismissed"}]
  <2>1. r \in ConRows /\ r.first <= r.last /\ r.last <= t
    OBVIOUS
  <2>2. r.first \in Nat /\ r.last \in Nat
    BY <2>1 DEF ConRows
  <2>3. r.first \in 0..t /\ r.last \in 0..t
    BY <2>1, <2>2
  <2> QED BY <2>1, <2>3 DEF ConRows
<1> QED BY <1>1

\* Every step keeps the types.
LEMMA ConStepTypeOK == ConTypeOK /\ [ConNext]_conVars => ConTypeOK'
<1> SUFFICES ASSUME ConTypeOK, [ConNext]_conVars PROVE ConTypeOK'
  OBVIOUS
<1>0. /\ conTime \in 0..ConMaxTime /\ ConMaxTime \in Nat /\ conTime \in Nat
      /\ IsFiniteSet(conFind) /\ conRetired \subseteq ConAgents
      /\ \A m \in conManual : m.estate \in ConEstates
      /\ \A f \in conFind : f \in ConRows /\ f.first <= f.last /\ f.last <= conTime
  <2>1. /\ conTime \in 0..ConMaxTime /\ ConMaxTime \in Nat /\ IsFiniteSet(conFind)
        /\ conRetired \subseteq ConAgents /\ \A m \in conManual : m.estate \in ConEstates
    BY ConConstantsAssumption DEF ConTypeOK
  <2>2. ASSUME NEW f \in conFind PROVE f \in ConRows /\ f.first <= f.last /\ f.last <= conTime
    BY ConRowFacts DEF ConRows
  <2> QED BY <2>1, <2>2
<1>1. ASSUME NEW a \in ConAgents, NEW d \in ConDigests, NEW p \in ConPaths, ConReport(a, d, p)
      PROVE  ConTypeOK'
  <2> DEFINE old == {f \in conFind : f.agent = a /\ f.sha = d /\ f.path = p}
  <2>1. UNCHANGED <<conRetired, conManual, conTime>>
    BY <1>1 DEF ConReport
  <2>2. CASE old = {}
    <3> DEFINE row == [agent |-> a, sha |-> d, path |-> p, first |-> conTime,
                       last |-> conTime, state |-> "open"]
    <3>1. conFind' = conFind \cup {row}
      BY <1>1, <2>2 DEF ConReport
    <3>2. row \in ConRows /\ row.first <= row.last /\ row.last <= conTime
      BY <1>0 DEF ConRows
    <3>3. IsFiniteSet(conFind')
      BY <1>0, <3>1, FS_AddElement
    <3> HIDE DEF row
    <3>4. \A r \in conFind' : r \in ConRows /\ r.first <= r.last /\ r.last <= conTime
      BY <1>0, <3>1, <3>2
    <3> QED BY <1>0, <2>1, <3>3, <3>4, ConNewRows DEF ConTypeOK
  <2>3. CASE old # {}
    <3> DEFINE new == {[f EXCEPT !.last = conTime] : f \in old}
    <3>1. conFind' = (conFind \ old) \cup new
      BY <1>1, <2>3 DEF ConReport
    <3>2. IsFiniteSet(old) /\ IsFiniteSet(conFind \ old)
      BY <1>0, FS_Subset
    <3>3. IsFiniteSet(new)
      <4> DEFINE g == [f \in old |-> [f EXCEPT !.last = conTime]]
      <4>1. DOMAIN g = old /\ \A r \in new : \E f \in old : r = g[f]
        OBVIOUS
      <4> HIDE DEF g, new, old
      <4> QED BY <3>2, <4>1, ConImage
    <3>4. ASSUME NEW f \in old
          PROVE  LET r == [f EXCEPT !.last = conTime]
                 IN  r \in ConRows /\ r.first <= r.last /\ r.last <= conTime
      <4>1. f \in ConRows /\ f.first <= conTime /\ conTime \in Nat
        BY <1>0, ConRowFacts
      <4> QED BY <4>1 DEF ConRows
    <3>5. \A r \in new : r \in ConRows /\ r.first <= r.last /\ r.last <= conTime
      BY <3>4
    <3>6. IsFiniteSet(conFind')
      BY <3>1, <3>2, <3>3, FS_Union
    <3> HIDE DEF old, new
    <3>7. \A r \in conFind' : r \in ConRows /\ r.first <= r.last /\ r.last <= conTime
      BY <1>0, <3>1, <3>5
    <3> QED BY <1>0, <2>1, <3>6, <3>7, ConNewRows DEF ConTypeOK
  <2> QED BY <2>2, <2>3
<1>2. ASSUME NEW f \in conFind, ConDismiss(f) PROVE ConTypeOK'
  <2> DEFINE row == [f EXCEPT !.state = "dismissed"]
  <2>1. UNCHANGED <<conRetired, conManual, conTime>> /\ conFind' = (conFind \ {f}) \cup {row}
    BY <1>2 DEF ConDismiss
  <2>2. row \in ConRows /\ row.first <= row.last /\ row.last <= conTime
    <3>1. f \in ConRows /\ f.first <= f.last /\ f.last <= conTime
      BY <1>0
    <3> QED BY <3>1 DEF ConRows
  <2>3. IsFiniteSet(conFind')
    BY <1>0, <2>1, FS_Subset, FS_AddElement
  <2> HIDE DEF row
  <2>4. \A r \in conFind' : r \in ConRows /\ r.first <= r.last /\ r.last <= conTime
    BY <1>0, <2>1, <2>2
  <2> QED BY <1>0, <2>1, <2>3, <2>4, ConNewRows DEF ConTypeOK
<1>3. ASSUME NEW a \in ConAgents, ConRetire(a) PROVE ConTypeOK'
  BY <1>3 DEF ConRetire, ConTypeOK
<1>4. ASSUME NEW a \in ConAgents, ConFetch(a) PROVE ConTypeOK'
  BY <1>4 DEF ConFetch, ConTypeOK
<1>5. ASSUME NEW e \in ConEstates, NEW d \in ConDigests, NEW p \in ConPaths, AttestArtefact(e, d, p)
      PROVE  ConTypeOK'
  BY <1>5 DEF AttestArtefact, ConTypeOK
<1>6. ASSUME NEW m \in conManual, RevokeAttestation(m) PROVE ConTypeOK'
  BY <1>6 DEF RevokeAttestation, ConTypeOK
<1>7. CASE ConTick
  <2>1. /\ conTime < ConMaxTime /\ conTime' = conTime + 1
        /\ UNCHANGED <<conFind, conRetired, conManual>>
    BY <1>7 DEF ConTick
  <2>2. conTime' \in 0..ConMaxTime /\ conTime' \in Nat
    BY <1>0, <2>1
  <2>3. \A r \in conFind : r \in ConRows /\ r.first <= r.last /\ r.last <= conTime'
    <3> TAKE r \in conFind
    <3>1. r.last \in Nat /\ r.last <= conTime
      BY ConRowFacts
    <3> QED BY <1>0, <2>1, <3>1
  <2> QED BY <1>0, <2>1, <2>2, <2>3, ConNewRows DEF ConTypeOK
<1>8. CASE UNCHANGED conVars
  BY <1>8 DEF conVars, ConTypeOK
<1> QED BY <1>1, <1>2, <1>3, <1>4, <1>5, <1>6, <1>7, <1>8 DEF ConNext

-----------------------------------------------------------------------------
(* What is vouched for *)

\* One value of one, and the value is known.
LEMMA ConOnlyOne ==
    ASSUME NEW S, NEW x \in S, IsFiniteSet(S), ~(Cardinality(S) > 1)
    PROVE  S = {x}
<1>1. Cardinality(S) \in Nat /\ Cardinality(S) # 0
  BY FS_CardinalityType, FS_EmptySet
<1>2. Cardinality(S) = 1
  BY <1>1
<1> QED BY <1>2, FS_Singleton

ConOf(e, d) == {f \in ConVotes(e) : f.sha = d}

\* Rows that speak for an update of the vendor's at one path.
ConVendorRows(rows, p) ==
    /\ rows # {} /\ \A f \in rows : f.path = p
    /\ ConTree[p] # ""
    /\ Cardinality(ConHosts(rows)) >= ConMinSites
    /\ \E f, g \in rows : f.last >= g.first + ConWindow

\* A verdict of "vendor" is what the estate's rows say.
LEMMA ConVendorVerdict ==
    ASSUME ConTypeOK, NEW e \in ConEstates, NEW d, ConsensusFor(e, d).verdict = "vendor",
           NEW p \in ConsensusFor(e, d).paths, NEW rows, rows = ConOf(e, d)
    PROVE  ConVendorRows(rows, p)
<1> DEFINE paths == {f.path : f \in rows}
           tree == ConAgreedTree(paths)
           age == Max({f.last : f \in rows}) - Min({f.first : f \in rows})
           sites == Cardinality(ConHosts(rows))
<1>1. /\ tree # "" /\ ~(Cardinality(paths) > 1) /\ ~(sites < ConMinSites) /\ ~(age < ConWindow)
      /\ p \in paths
  BY DEF ConsensusFor, ConOf
<1>2. rows \subseteq conFind /\ IsFiniteSet(rows)
  BY FS_Subset DEF ConVotes, ConTypeOK, ConOf
<1>3. IsFiniteSet(paths) /\ IsFiniteSet(ConHosts(rows))
  <2> DEFINE g == [f \in rows |-> f.path]
             h == [f \in rows |-> CorrelationHost(f.agent)]
  <2>1. /\ DOMAIN g = rows /\ DOMAIN h = rows
        /\ \A t \in paths : \E f \in rows : t = g[f]
        /\ \A t \in ConHosts(rows) : \E f \in rows : t = h[f]
    BY DEF ConHosts
  <2> HIDE DEF g, h, paths
  <2> QED BY <1>2, <2>1, ConImage
<1>4. paths = {p}
  BY <1>1, <1>3, ConOnlyOne
<1>5. {ConTree[q] : q \in paths} = {ConTree[p]}
  BY <1>4
<1>6. ConTree[p] # ""
  BY <1>1, <1>5 DEF ConAgreedTree
<1>7. sites >= ConMinSites
  <2>1. sites \in Nat
    BY <1>3, FS_CardinalityType
  <2>2. ConMinSites \in Nat /\ ~(sites < ConMinSites)
    BY <1>1, ConConstantsAssumption
  <2> HIDE DEF sites
  <2> QED BY ONLY <2>1, <2>2
<1>8. \E f, g \in rows : f.last >= g.first + ConWindow
  <2> DEFINE lasts == {f.last : f \in rows}
             firsts == {f.first : f \in rows}
  <2>1. lasts \subseteq Nat /\ firsts \subseteq Nat /\ \A y \in lasts : y <= ConMaxTime
    BY <1>2, ConRowFacts
  <2>2. lasts # {} /\ firsts # {}
    BY <1>1
  <2>3. Max(lasts) \in lasts /\ Min(firsts) \in firsts
    <3> HIDE DEF lasts, firsts
    <3> QED BY <2>1, <2>2, ConMax, ConMin, ConConstantsAssumption
  <2>4. PICK f \in rows, g \in rows : f.last = Max(lasts) /\ g.first = Min(firsts)
    BY <2>3
  <2>5. f.last \in Nat /\ g.first \in Nat /\ ConWindow \in Nat
    BY <1>2, ConRowFacts, ConConstantsAssumption
  <2>6. ~(f.last - g.first < ConWindow)
    BY <1>1, <2>4
  <2>7. f.last >= g.first + ConWindow
    BY <2>5, <2>6
  <2> QED BY <2>7
<1>9. rows # {} /\ \A f \in rows : f.path = p
  BY <1>1, <1>4
<1> QED BY <1>6, <1>7, <1>8, <1>9 DEF ConVendorRows

\* What the fleet attests has its soak and its quorum, whatever the rows.
LEMMA ConInvSound == ConTypeOK => ConVendorSound
<1> SUFFICES ASSUME ConTypeOK, NEW e \in ConEstates, NEW v \in VendorAttestations(e), v.sites > 0,
                    NEW seen,
                    seen = {f \in conFind : /\ f.sha = v.sha /\ f.state # "dismissed"
                                            /\ f.agent \notin conRetired /\ ConEstate[f.agent] = e}
             PROVE  /\ {f.path : f \in seen} = {v.path}
                    /\ ConTree[v.path] # ""
                    /\ \/ \E f \in seen : ConMachine[f.agent] \notin ConNamed
                       \/ Cardinality({ConMachine[f.agent] : f \in seen}) >= ConMinSites
                    /\ \E f, g \in seen : f.last >= g.first + ConWindow
  BY DEF ConVendorSound
<1>1. e # 0
  BY DEF ConEstates
<1>2. v \notin OperatorAttestations(e)
  <2>1. \A x \in OperatorAttestations(e) : x.sites = 0
    BY DEF OperatorAttestations
  <2> QED BY <2>1
<1>3. PICK d \in Correlate(2, e) :
         /\ ConsensusFor(e, d).verdict = "vendor"
         /\ \E p \in ConsensusFor(e, d).paths :
               v = [sha |-> d, path |-> p, sites |-> ConsensusFor(e, d).sites]
  <2> DEFINE verdicts == [d \in Correlate(2, e) |-> ConsensusFor(e, d)]
             vouched == UNION {{[sha |-> d, path |-> p, sites |-> verdicts[d].sites] :
                                   p \in verdicts[d].paths} :
                               d \in {x \in DOMAIN verdicts : verdicts[x].verdict = "vendor"}}
  <2>1. v \in vouched
    BY <1>1, <1>2 DEF VendorAttestations
  <2>2. \A d \in Correlate(2, e) : verdicts[d] = ConsensusFor(e, d)
    OBVIOUS
  <2> HIDE DEF verdicts
  <2>3. PICK d \in {x \in DOMAIN verdicts : verdicts[x].verdict = "vendor"} :
           v \in {[sha |-> d, path |-> p, sites |-> verdicts[d].sites] : p \in verdicts[d].paths}
    BY <2>1
  <2>4. d \in Correlate(2, e) /\ verdicts[d].verdict = "vendor"
    BY <2>3 DEF verdicts
  <2>5. \E p \in verdicts[d].paths : v = [sha |-> d, path |-> p, sites |-> verdicts[d].sites]
    BY <2>3
  <2> QED BY <2>2, <2>4, <2>5
<1>4. v.sha = d /\ v.path \in ConsensusFor(e, d).paths
  BY <1>3
<1>5. seen = ConOf(e, d)
  BY <1>1, <1>4 DEF ConVotes, ConOf
<1>6. ConVendorRows(seen, v.path)
  <2>1. ConsensusFor(e, d).verdict = "vendor" /\ v.path \in ConsensusFor(e, d).paths
    BY <1>3, <1>4
  <2> QED BY <1>5, <2>1, ConVendorVerdict
<1>7. (\A f \in seen : ConMachine[f.agent] \in ConNamed)
         => ConHosts(seen) = {ConMachine[f.agent] : f \in seen}
  BY DEF ConHosts, CorrelationHost
<1>8. {f.path : f \in seen} = {v.path}
  <2>1. seen # {} /\ \A f \in seen : f.path = v.path
    BY <1>6 DEF ConVendorRows
  <2> QED BY ONLY <2>1
<1> QED BY <1>6, <1>7, <1>8 DEF ConVendorRows

\* The answer, of the verdicts and of what operators said.
ConGive(verdicts, ruled) ==
    LET vouched == UNION {{[sha |-> d, path |-> p, sites |-> verdicts[d].sites] :
                              p \in verdicts[d].paths} :
                          d \in {x \in DOMAIN verdicts : verdicts[x].verdict = "vendor"}}
    IN  vouched \cup {m \in ruled : \A v \in vouched : <<v.sha, v.path>> # <<m.sha, m.path>>}

\* An estate's answer depends on the estate's rows and rulings alone.
LEMMA ConAnswerIsLocal ==
    ASSUME NEW e \in ConEstates,
           {f \in conFind' : ConEstate[f.agent] = e} = {f \in conFind : ConEstate[f.agent] = e},
           {a \in conRetired' : ConEstate[a] = e} = {a \in conRetired : ConEstate[a] = e},
           {m \in conManual' : m.estate = e} = {m \in conManual : m.estate = e}
    PROVE  VendorAttestations(e)' = VendorAttestations(e)
<1>1. e # 0
  BY DEF ConEstates
<1>2. ConVotes(e)' = ConVotes(e)
  BY <1>1 DEF ConVotes
<1>3. OperatorAttestations(e)' = OperatorAttestations(e)
  BY DEF OperatorAttestations
<1>4. Correlate(2, e)' = Correlate(2, e)
  BY <1>2 DEF Correlate
<1>5. \A t : SitesRunningTree(t, e)' = SitesRunningTree(t, e)
  BY <1>2 DEF SitesRunningTree
<1>6. \A d : ConsensusFor(e, d)' = ConsensusFor(e, d)
  BY <1>2, <1>5 DEF ConsensusFor
<1>7. PICK verdicts : verdicts = [d \in Correlate(2, e) |-> ConsensusFor(e, d)]
  OBVIOUS
<1>8. CASE Correlate(2, e) = {}
  BY <1>1, <1>4, <1>8 DEF VendorAttestations
<1>9. SUFFICES ASSUME Correlate(2, e) # {} PROVE VendorAttestations(e)' = VendorAttestations(e)
  BY <1>8
<1>10. VendorAttestations(e) = ConGive(verdicts, OperatorAttestations(e))
  BY <1>1, <1>7, <1>9 DEF VendorAttestations, ConGive
<1>11. verdicts = [d \in Correlate(2, e) |-> ConsensusFor(e, d)]'
  BY <1>4, <1>6, <1>7
<1>12. VendorAttestations(e)' = ConGive(verdicts, OperatorAttestations(e)')
  BY <1>1, <1>4, <1>11, <1>9 DEF VendorAttestations, ConGive
<1> QED BY <1>3, <1>10, <1>12

\* What another estate does changes nothing of an estate's attestations.
LEMMA ConStepIsolated == [ConNext]_conVars =>
    [\A e \in ConEstates :
          (/\ {f \in conFind' : ConEstate[f.agent] = e} = {f \in conFind : ConEstate[f.agent] = e}
           /\ {a \in conRetired' : ConEstate[a] = e} = {a \in conRetired : ConEstate[a] = e}
           /\ {m \in conManual' : m.estate = e} = {m \in conManual : m.estate = e})
              => VendorAttestations(e)' = VendorAttestations(e)]_conVars
  BY ConAnswerIsLocal

\* What an estate vouches for on its agents' behalf is vendor-shaped on the
\* estate's own evidence, and nothing another customer does changes it, for
\* fleets, trees and windows of any size.
THEOREM ConsensusPromises == ConSpec => ConPromises
<1> QED BY ConInitTypeOK, ConStepTypeOK, ConInvSound, ConStepIsolated, PTL
        DEF ConSpec, ConPromises, ConEstateIsolated

-----------------------------------------------------------------------------
(***************************************************************************)
(* The scheduler, for every set of schedules, scope, jitter and hash, and  *)
(* any bounds on time, faults and the operators' changes.                  *)
(***************************************************************************)

(* The calendar *)

\* A zone as time.Location has it: one clock change between whole offsets.
CalZones == [at : Int, before : Int, after : Int]

\* A firing falls on an instant, whatever the zone.
LEMMA CalInstants ==
    ASSUME NEW z \in CalZones, NEW minute \in Int, NEW t \in Int, NEW i \in Int
    PROVE  CalFire(z, minute, CalDayOf(z, CalAddDays(z, t, i))) \in Int
<1>1. \A l \in Int : CalOffset(z, l) \in Int
  BY DEF CalOffset, CalZones
<1>2. \A l \in Int : CalLocal(z, l) \in Int
  BY <1>1 DEF CalLocal
<1>3. \A l \in Int : CalDate(z, l) \in Int
  BY <1>1 DEF CalDate
<1>4. CalLocal(z, t) + i * CalDay \in Int
  BY <1>2, CalDayAssumption
<1>5. CalLocal(z, CalAddDays(z, t, i)) \in Int
  BY <1>2, <1>3, <1>4 DEF CalAddDays
<1>6. CalDayOf(z, CalAddDays(z, t, i)) \in Int
  BY <1>5, CalDayAssumption DEF CalDayOf
<1> QED BY <1>3, <1>6, CalDayAssumption DEF CalFire

\* The next run is after the instant it is asked from, in every zone and for
\* any weekdays, also across a clock change (NextRunAfter, schedules.go):
\* without it a schedule would be due again at once, forever.
THEOREM NextRunIsLater ==
    ASSUME NEW z \in CalZones, NEW minute \in Int, NEW weekdays, NEW from \in Int
    PROVE  NextRunAfter(z, minute, weekdays, from) \in Int /\ NextRunAfter(z, minute, weekdays, from) > from
<1> DEFINE day(i) == CalDayOf(z, CalAddDays(z, from, i))
           hits == {i \in 0..7 : /\ CalWeekday(day(i)) \in weekdays
                                 /\ CalFire(z, minute, day(i)) > from}
<1>1. NextRunAfter(z, minute, weekdays, from) =
          IF hits = {} THEN from + CalDay ELSE CalFire(z, minute, day(Min(hits)))
  BY DEF NextRunAfter
<1>2. CASE hits = {}
  BY <1>1, <1>2, CalDayAssumption
<1>3. CASE hits # {}
  <2>1. Min(hits) \in hits
    BY <1>3, ConMin
  <2>2. Min(hits) \in Int /\ CalFire(z, minute, day(Min(hits))) > from
    BY <2>1
  <2>3. CalFire(z, minute, day(Min(hits))) \in Int
    BY <2>2, CalInstants
  <2> QED BY <1>1, <1>3, <2>2, <2>3
<1> QED BY <1>2, <1>3

\* A local time lies between the midnight of its day and the next.
LEMMA CalDivision ==
    ASSUME NEW l \in Int
    PROVE  /\ l \div CalDay \in Int
           /\ CalDay * (l \div CalDay) <= l
           /\ l < CalDay * (l \div CalDay) + CalDay
<1>1. CalDay \in Int /\ CalDay > 0
  BY CalDayAssumption
<1> QED BY <1>1

\* Between one midnight and the next it is one day.
LEMMA CalSameDay ==
    ASSUME NEW l \in Int, NEW d \in Int, CalDay * d <= l, l < CalDay * d + CalDay
    PROVE  l \div CalDay = d
<1>1. CalDay \in Int /\ CalDay > 0
  BY CalDayAssumption
<1>2. PICK e \in Int : e = l \div CalDay /\ CalDay * e <= l /\ l < CalDay * e + CalDay
  BY CalDivision
<1>3. CASE e < d
  <2>1. e + 1 <= d
    BY <1>2, <1>3
  <2>2. CalDay * (e + 1) <= CalDay * d
    BY <1>1, <1>2, <2>1
  <2>3. CalDay * (e + 1) = CalDay * e + CalDay
    BY <1>1, <1>2
  <2> QED BY <1>1, <1>2, <2>2, <2>3
<1>4. CASE d < e
  <2>1. d + 1 <= e
    BY <1>2, <1>4
  <2>2. CalDay * (d + 1) <= CalDay * e
    BY <1>1, <1>2, <2>1
  <2>3. CalDay * (d + 1) = CalDay * d + CalDay
    BY <1>1
  <2> QED BY <1>1, <1>2, <2>2, <2>3
<1> QED BY <1>2, <1>3, <1>4

\* The times of a later day are later.
LEMMA CalLaterDay ==
    ASSUME NEW k \in Int, NEW l \in Int, k \div CalDay < l \div CalDay
    PROVE  k < l
<1>1. CalDay \in Int /\ CalDay > 0
  BY CalDayAssumption
<1>2. PICK d \in Int : d = k \div CalDay /\ k < CalDay * d + CalDay
  BY CalDivision
<1>3. PICK e \in Int : e = l \div CalDay /\ CalDay * e <= l
  BY CalDivision
<1>4. d + 1 <= e
  BY <1>2, <1>3
<1>5. CalDay * (d + 1) <= CalDay * e
  BY <1>1, <1>4
<1>6. CalDay * (d + 1) = CalDay * d + CalDay
  BY <1>1
<1> QED BY <1>1, <1>2, <1>3, <1>5, <1>6

\* i days on, the day is i later.
LEMMA CalDaysOn ==
    ASSUME NEW l \in Int, NEW i \in Int
    PROVE  (l + i * CalDay) \div CalDay = l \div CalDay + i
<1>1. CalDay \in Int /\ CalDay > 0
  BY CalDayAssumption
<1>2. PICK d \in Int : d = l \div CalDay /\ CalDay * d <= l /\ l < CalDay * d + CalDay
  BY CalDivision
<1>3. CalDay * (d + i) = CalDay * d + i * CalDay
  BY <1>1, <1>2
<1>4. i * CalDay \in Int /\ CalDay * d \in Int
  BY <1>1, <1>2
<1>5. CalDay * (d + i) <= l + i * CalDay /\ l + i * CalDay < CalDay * (d + i) + CalDay
  BY <1>1, <1>2, <1>3, <1>4
<1>6. l + i * CalDay \in Int /\ d + i \in Int
  BY <1>2, <1>4
<1> QED BY <1>2, <1>5, <1>6, CalSameDay

\* Offsets, local times, instants and days are whole numbers.
LEMMA CalTypes ==
    ASSUME NEW z \in CalZones, NEW l \in Int
    PROVE  CalOffset(z, l) \in Int /\ CalLocal(z, l) \in Int /\ CalDate(z, l) \in Int /\ CalDayOf(z, l) \in Int
<1>1. \A t \in Int : CalOffset(z, t) \in Int
  BY DEF CalOffset, CalZones
<1>2. CalLocal(z, l) \in Int /\ CalDate(z, l) \in Int
  BY <1>1 DEF CalLocal, CalDate
<1> QED BY <1>1, <1>2, CalDivision DEF CalDayOf

\* time.Date gives a local time on the day it was asked for.
LEMMA CalDateOnDay ==
    ASSUME NEW z \in CalZones, CalKeepsDays(z), NEW l \in Int
    PROVE  CalDayOf(z, CalDate(z, l)) = l \div CalDay
<1>0. z.at \in Int /\ z.before \in Int /\ z.after \in Int
  BY DEF CalZones
<1>1. CASE l \in z.at + z.before .. z.at + z.after - 1
  BY <1>1 DEF CalKeepsDays
<1>2. CASE l \notin z.at + z.before .. z.at + z.after - 1
  <2>1. CalLocal(z, CalDate(z, l)) = l
    BY <1>0, <1>2 DEF CalLocal, CalDate, CalOffset
  <2> QED BY <2>1 DEF CalDayOf
<1> QED BY <1>1, <1>2

\* Local days come one after the other.
LEMMA CalDaysInOrder ==
    ASSUME NEW z \in CalZones, CalKeepsDays(z), NEW s \in Int, NEW t \in Int,
           CalDayOf(z, s) < CalDayOf(z, t)
    PROVE  s < t
<1>0. z.at \in Int /\ z.before \in Int /\ z.after \in Int
  BY DEF CalZones
<1>1. CalLocal(z, s) \in Int /\ CalLocal(z, t) \in Int /\ CalLocal(z, s) < CalLocal(z, t)
  BY CalTypes, CalLaterDay DEF CalDayOf
<1>2. SUFFICES ASSUME t < z.at, s >= z.at, z.at + z.after < z.at + z.before, CalLocal(z, s) < CalLocal(z, t) PROVE FALSE
  BY <1>0, <1>1 DEF CalLocal, CalOffset
<1>3. /\ CalLocal(z, s) \in z.at + z.after .. z.at + z.before - 1
      /\ CalLocal(z, t) \in z.at + z.after .. z.at + z.before - 1
  BY <1>0, <1>1, <1>2 DEF CalLocal, CalOffset
<1>4. CalDayOf(z, s) = CalDayOf(z, t)
  BY <1>3 DEF CalKeepsDays, CalDayOf
<1> QED BY <1>4, CalTypes

\* A week holds every weekday.
LEMMA CalWeek ==
    ASSUME NEW today \in Int, NEW w \in 0..6
    PROVE  \E i \in 1..7 : CalWeekday(today + i) = w
<1> DEFINE i == ((w - today - 1) % 7) + 1
<1>1. i \in 1..7 /\ (today + i) % 7 = w
  OBVIOUS
<1> QED BY <1>1 DEF CalWeekday

\* A bounded set of numbers has its least one as Min.
LEMMA CalMinOf ==
    ASSUME NEW T, T \subseteq Int, NEW m \in T, \A t \in T : m <= t
    PROVE  Min(T) = m
<1>1. \A x \in T : (\A y \in T : x <= y) => x = m
  OBVIOUS
<1> QED BY <1>1 DEF Min

\* The next run is the next one: of all firings on the weekdays asked for that are
\* still to come, the loop over today and the seven days after it takes the
\* earliest, in every zone whose clock change keeps local times on their day, from
\* every instant, on either side of the change (NextRunAfter, schedules.go).
THEOREM NextRunIsTheNext ==
    ASSUME NEW z \in CalZones, CalKeepsDays(z), NEW minute \in 0..CalDay - 1,
           NEW weekdays, weekdays \cap 0..6 # {}, NEW from \in Int
    PROVE  NextRunAfter(z, minute, weekdays, from) = CalNextFiring(z, minute, weekdays, from)
<1> DEFINE today == CalDayOf(z, from)
           day(i) == CalDayOf(z, CalAddDays(z, from, i))
           hits == {i \in 0..7 : /\ CalWeekday(day(i)) \in weekdays
                                 /\ CalFire(z, minute, day(i)) > from}
           days == {e \in today - 1 .. today + 9 : /\ CalWeekday(e) \in weekdays
                                                   /\ CalFire(z, minute, e) > from}
           fires == {CalFire(z, minute, d) : d \in days}
<1>1. today \in Int
  BY CalTypes
<1>2. \A d \in Int : CalFire(z, minute, d) \in Int /\ CalDayOf(z, CalFire(z, minute, d)) = d
  <2>1. SUFFICES ASSUME NEW d \in Int
                 PROVE  CalFire(z, minute, d) \in Int /\ CalDayOf(z, CalFire(z, minute, d)) = d
    OBVIOUS
  <2>2. CalDay \in Int /\ CalDay > 0
    BY CalDayAssumption
  <2>3. d * CalDay \in Int /\ d * CalDay = CalDay * d
    BY <2>2
  <2>4. (d * CalDay + minute) \div CalDay = d /\ d * CalDay + minute \in Int
    BY <2>2, <2>3, CalSameDay
  <2> QED BY <2>4, CalDateOnDay, CalTypes DEF CalFire
<1>3. \A i \in Int : day(i) = today + i
  <2>1. SUFFICES ASSUME NEW i \in Int PROVE day(i) = today + i
    OBVIOUS
  <2>2. CalLocal(z, from) \in Int /\ CalLocal(z, from) + i * CalDay \in Int
    BY CalTypes, CalDayAssumption
  <2>3. day(i) = (CalLocal(z, from) + i * CalDay) \div CalDay
    BY <2>2, CalDateOnDay DEF CalAddDays
  <2> QED BY <2>2, <2>3, CalDaysOn DEF CalDayOf
<1>4. \A c, d \in Int : c < d => CalFire(z, minute, c) < CalFire(z, minute, d)
  BY <1>2, CalDaysInOrder
<1>5. \A d \in Int : (d < today => CalFire(z, minute, d) < from)
                       /\ (d > today => CalFire(z, minute, d) > from)
  <2>1. SUFFICES ASSUME NEW d \in Int
                 PROVE  (d < today => CalFire(z, minute, d) < from)
                          /\ (d > today => CalFire(z, minute, d) > from)
    OBVIOUS
  <2>2. CalFire(z, minute, d) \in Int /\ CalDayOf(z, CalFire(z, minute, d)) = d
    BY <1>2
  <2>3. CASE d < today
    BY <2>2, <2>3, CalDaysInOrder
  <2>4. CASE d > today
    <3>1. from < CalFire(z, minute, d)
      BY <2>2, <2>4, CalDaysInOrder
    <3> QED BY <1>1, <2>2, <2>4, <3>1
  <2> QED BY <1>1, <2>2, <2>3, <2>4
<1>6. hits = {i \in 0..7 : /\ CalWeekday(today + i) \in weekdays
                           /\ CalFire(z, minute, today + i) > from}
  BY <1>3
<1>7. hits # {}
  <2>1. PICK w \in 0..6 : w \in weekdays
    OBVIOUS
  <2>2. PICK i \in 1..7 : CalWeekday(today + i) = w
    BY <1>1, CalWeek
  <2>3. CalFire(z, minute, today + i) > from
    BY <1>1, <1>5
  <2> QED BY <1>6, <2>1, <2>2, <2>3
<1> HIDE DEF hits
<1>8. Min(hits) \in hits /\ \A i \in hits : Min(hits) <= i
  BY <1>6, <1>7, ConMin
<1>9. PICK m \in 0..7 : m = Min(hits) /\ CalWeekday(today + m) \in weekdays
                          /\ CalFire(z, minute, today + m) > from
  BY <1>6, <1>8
<1>10. today + m \in days
  BY <1>1, <1>9
<1>11. ASSUME NEW d \in days PROVE today + m <= d
  <2>1. d \in Int /\ d >= today
    BY <1>1, <1>2, <1>5
  <2>2. CASE d <= today + 7
    <3>1. d - today \in 0..7 /\ today + (d - today) = d
      BY <1>1, <2>1, <2>2
    <3>2. d - today \in hits
      BY <1>6, <3>1
    <3> QED BY <1>1, <1>8, <1>9, <2>1, <3>2
  <2> QED BY <1>1, <1>9, <2>1, <2>2
<1>12. fires \subseteq Int /\ CalFire(z, minute, today + m) \in fires
  BY <1>1, <1>2, <1>10
<1>13. \A f \in fires : CalFire(z, minute, today + m) <= f
  <2>1. SUFFICES ASSUME NEW d \in days PROVE CalFire(z, minute, today + m) <= CalFire(z, minute, d)
    OBVIOUS
  <2>2. d \in Int /\ today + m \in Int /\ (today + m = d \/ today + m < d)
    BY <1>1, <1>11
  <2> QED BY <1>2, <1>4, <2>2
<1> HIDE DEF fires
<1>14. Min(fires) = CalFire(z, minute, today + m)
  BY <1>12, <1>13, CalMinOf
<1>15. CalNextFiring(z, minute, weekdays, from) = Min(fires)
  BY DEF CalNextFiring, fires
<1>16. NextRunAfter(z, minute, weekdays, from) = CalFire(z, minute, day(Min(hits)))
  BY <1>7 DEF NextRunAfter, hits
<1> QED BY <1>3, <1>9, <1>14, <1>15, <1>16

\* Every host has a place of its own choosing inside the jitter window
\* (AgentOffset, schedules.go).
THEOREM OffsetInWindow ==
    ASSUME NEW hash \in Nat, NEW jitter \in Nat
    PROVE  /\ AgentOffset(hash, jitter) \in Nat
           /\ jitter > 0 => AgentOffset(hash, jitter) < jitter
  BY DEF AgentOffset

\* The next run is in the future, and never 0.
LEMMA SchNextRunLater ==
    ASSUME NEW t \in 0..SchMaxTime
    PROVE  SchNextRun[t] \in Nat /\ SchNextRun[t] > t
<1>1. SchUTC \in CalZones
  BY DEF SchUTC, CalZones
<1>2. t \in Int /\ t \in Nat
  BY SchBoundsAssumption
<1>3. NextRunAfter(SchUTC, 0, 0..6, t) \in Int /\ NextRunAfter(SchUTC, 0, 0..6, t) > t
  BY <1>1, <1>2, NextRunIsLater
<1>4. SchNextRun[t] = NextRunAfter(SchUTC, 0, 0..6, t)
  BY DEF SchNextRun
<1> QED BY <1>2, <1>3, <1>4

-----------------------------------------------------------------------------
(* The invariant *)

SchDues == SchIds \X (0..SchMaxTime)
SchActive == {"resolve", "create", "date"}
SchCommands == [n : Nat, sch : SchIds, slot : 0..SchMaxTime, agent : SchAgents,
                start : Nat \cup {SchUndated}]
SchPasses == [pc : {"idle", "mark"} \cup SchActive, due : Seq(SchDues), at : 0..SchMaxTime,
              todo : SUBSET SchAgents]

SchTyped ==
    /\ SchTypeOK
    /\ schPass \in SchPasses
    /\ schResume \in {<<>>} \cup (SchIds \X Nat \X (0..SchMaxTime))
    /\ schCmds \subseteq SchCommands /\ IsFiniteSet(schCmds)
    /\ schFired \subseteq SchDues
    /\ schResumed \in [SchIds -> 0..SchMaxTime]
    /\ schRaced \subseteq SchIds

\* The list of a pass names every schedule once, and what was due when it began.
SchListed ==
    /\ schPass.at <= schNow
    /\ \A i \in 1..Len(schPass.due) : schPass.due[i][2] <= schPass.at
    /\ \A i, j \in 1..Len(schPass.due) : schPass.due[i][1] = schPass.due[j][1] => i = j

\* A slot that fired, and the instant of a resume, are over: before next_run
\* unless a resume raced, and before what the list of the pass still holds.
SchBehind ==
    /\ \A f \in schFired : f[2] <= schNow /\ (schPass.pc # "idle" => f[2] <= schPass.at)
    /\ \A s \in SchIds : schResumed[s] <= schNow
    /\ schResume # <<>> => schResume[3] <= schNow /\ schResume[3] < schResume[2]
    /\ \A s \in SchIds \ schRaced : schRow[s].st # "none" =>
          /\ schResumed[s] < schRow[s].next
          /\ \A f \in schFired : f[1] = s => f[2] < schRow[s].next
    /\ \A i \in 1..Len(schPass.due) : schPass.due[i][1] \notin schRaced =>
          /\ schResumed[schPass.due[i][1]] < schPass.due[i][2]
          /\ i > 1 \/ schPass.pc = "mark" => schPass.due[i] \notin schFired

\* A command there is for a host.
SchHas(f, a) == \E c \in schCmds : c.sch = f[1] /\ c.slot = f[2] /\ c.agent = a

\* What was marked is dispatched, or in hand, or was cut; one command at most
\* waits for its date.
SchServed ==
    /\ schPass.pc \in SchActive => SchFiring \in schFired
    /\ SchFullDispatch /\ SchStaggered
    /\ schPass.pc \in {"create", "date"} /\ SchFiring \notin schCut =>
          \A a \in SchScope[SchFiring[1]] \ schRetired : a \in schPass.todo \/ SchHas(SchFiring, a)
    /\ schPass.pc = "date" /\ SchFiring \notin schCut =>
          \A c, d \in SchUndatedCmds : c = d

SchInv == SchTyped /\ SchListed /\ SchBehind /\ SchServed

\* SchInv implies what the scheduler promises of a state and of a step.
LEMMA SchInvSafe ==
    /\ SchInv => SchFullDispatch /\ SchStaggered
    /\ SchInv /\ [SchNext]_schVars =>
          /\ \A s \in SchIds, k \in 0..SchMaxTime :
                SchMarks(s, k) /\ <<s, k>> \in schFired => s \in schRaced
          /\ \A s \in SchIds, k \in 0..SchMaxTime :
                SchMarks(s, k) /\ s \notin schRaced => k > schResumed[s]
<1>1. SchInv => SchFullDispatch /\ SchStaggered
  BY DEF SchInv, SchServed
<1>2. ASSUME SchInv, NEW s \in SchIds, NEW k \in 0..SchMaxTime, SchMarks(s, k), s \notin schRaced
      PROVE  <<s, k>> \notin schFired /\ k > schResumed[s]
  <2>1. schPass.pc = "mark" /\ SchFiring = <<s, k>>
    BY <1>2 DEF SchMarks
  <2>2. schPass.due # <<>> /\ schPass.due \in Seq(SchDues)
    BY <1>2, <2>1 DEF SchInv, SchTyped, SchTypeOK, SchPasses
  <2>3. 1 \in 1..Len(schPass.due) /\ schPass.due[1] \in SchDues
    BY <2>2, EmptySeq, ElementOfSeq, LenProperties
  <2>4. schPass.due[1] = <<s, k>>
    BY <2>1, <2>3 DEF SchFiring, SchDues
  <2>5. schResumed[s] < k /\ <<s, k>> \notin schFired
    BY <1>2, <2>1, <2>3, <2>4 DEF SchInv, SchBehind
  <2> QED BY <1>2, <2>5, SchBoundsAssumption DEF SchInv, SchTyped
<1> QED BY <1>1, <1>2

\* SchInv holds initially.
LEMMA SchInitInv == SchInit => SchInv
<1> SUFFICES ASSUME SchInit PROVE SchInv
  OBVIOUS
<1> USE DEF SchInit, SchIdle
<1>1. SchTyped
  <2>1. 0 \in 0..SchMaxTime /\ 1 \in 0..SchMaxTime /\ 0 \in 0..SchMaxFaults
    BY SchBoundsAssumption
  <2>2. schPass \in SchPasses
    BY <2>1 DEF SchPasses
  <2>3. IsFiniteSet(schCmds)
    BY FS_EmptySet
  <2>4. schRow \in [SchIds -> [st : {"none", "on", "off"}, next : Nat]]
    BY DEF SchNoRow
  <2> QED BY <2>1, <2>2, <2>3, <2>4 DEF SchTyped, SchTypeOK
<1>2. SchListed
  BY DEF SchListed
<1>3. SchBehind
  BY DEF SchBehind, SchNoRow
<1>4. SchServed
  BY DEF SchServed, SchActive, SchFullDispatch, SchStaggered
<1> QED BY <1>1, <1>2, <1>3, <1>4 DEF SchInv

-----------------------------------------------------------------------------
(* The pass *)

\* What is left of the list when the pass goes on.
LEMMA SchAdvanceFacts ==
    ASSUME SchTyped, schPass.pc # "idle", NEW p, p = SchAdvance
    PROVE  /\ p \in SchPasses
           /\ p.pc \in {"idle", "mark"} /\ (p.pc = "idle") = (p.due = <<>>)
           /\ p.pc # "idle" => p.at = schPass.at
           /\ p.at <= schPass.at
           /\ \A i \in 1..Len(p.due) : i + 1 \in 1..Len(schPass.due) /\ p.due[i] = schPass.due[i + 1]
<1>1. schPass \in SchPasses /\ schPass.due \in Seq(SchDues) /\ schPass.due # <<>>
      /\ schPass.at \in 0..SchMaxTime
  BY DEF SchTyped, SchTypeOK, SchPasses
<1>2. Len(schPass.due) \in Nat /\ Len(schPass.due) # 0
  BY <1>1, EmptySeq, LenProperties
<1>3. CASE Len(schPass.due) = 1
  <2>1. p = SchIdle
    BY <1>3 DEF SchAdvance
  <2>2. p \in SchPasses /\ p.pc = "idle" /\ p.due = <<>> /\ p.at = 0
    BY <2>1, SchBoundsAssumption DEF SchIdle, SchPasses
  <2> QED BY <1>1, <2>2, SchBoundsAssumption
<1>4. CASE Len(schPass.due) # 1
  <2>1. p = [schPass EXCEPT !.pc = "mark", !.due = Tail(@), !.todo = {}]
    BY <1>4 DEF SchAdvance
  <2>2. PICK q : q = Tail(schPass.due)
    OBVIOUS
  <2>3. q \in Seq(SchDues) /\ Len(q) = Len(schPass.due) - 1
        /\ \A i \in 1..Len(q) : q[i] = schPass.due[i + 1]
    BY <1>1, <2>2, HeadTailProperties
  <2>4. p = [schPass EXCEPT !.pc = "mark", !.due = q, !.todo = {}]
    BY <2>1, <2>2
  <2>5. p \in SchPasses /\ p.pc = "mark" /\ p.due = q /\ p.at = schPass.at
    BY <1>1, <2>3, <2>4 DEF SchPasses
  <2>6. q # <<>>
    <3>1. Len(q) # 0
      BY <1>2, <1>4, <2>3
    <3> QED BY <3>1
  <2>7. \A i \in 1..Len(q) : i + 1 \in 1..Len(schPass.due)
    BY <1>2, <2>3
  <2> QED BY <1>1, <2>3, <2>5, <2>6, <2>7, SchBoundsAssumption
<1> QED BY <1>3, <1>4

\* What a pass that goes on with what it has in hand, or to the next, leaves true.
LEMMA SchGoesOn ==
    ASSUME SchInv, schPass.pc # "idle", schPass' \in SchPasses,
           UNCHANGED <<schNow, schRow, schResume, schFired, schResumed, schRaced>>,
           \/ schPass' = SchAdvance
           \/ /\ schPass.pc \in SchActive /\ schPass'.pc \in SchActive
              /\ schPass'.due = schPass.due /\ schPass'.at = schPass.at
    PROVE  SchListed' /\ SchBehind'
<1>1. CASE schPass' = SchAdvance
  <2>1. PICK p : p = schPass'
    OBVIOUS
  <2>2. /\ p.pc \in {"idle", "mark"} /\ (p.pc = "idle") = (p.due = <<>>)
        /\ p.pc # "idle" => p.at = schPass.at
        /\ p.at <= schPass.at
        /\ \A i \in 1..Len(p.due) : i + 1 \in 1..Len(schPass.due) /\ p.due[i] = schPass.due[i + 1]
    BY <1>1, <2>1, SchAdvanceFacts DEF SchInv
  <2>3. /\ schNow \in Nat /\ schPass.at \in Nat /\ p.at \in Nat /\ p.due \in Seq(SchDues)
        /\ schPass.at <= schNow
    BY <2>1, SchBoundsAssumption DEF SchInv, SchTyped, SchTypeOK, SchPasses, SchListed
  <2>4. Len(p.due) \in Nat /\ (p.due # <<>> => p.at = schPass.at) /\ (Len(p.due) # 0 => p.due # <<>>)
    BY <2>2, <2>3, LenProperties
  <2>5. \A i \in 1..Len(p.due) : i + 1 > 1
    BY <2>4
  <2>6. SchListed'
    <3>1. p.at <= schNow
      BY <2>2, <2>3
    <3>2. ASSUME NEW i \in 1..Len(p.due) PROVE p.due[i][2] <= p.at
      <4>1. p.at = schPass.at
        BY <2>4
      <4> QED BY <2>2, <4>1 DEF SchInv, SchListed
    <3>3. ASSUME NEW i \in 1..Len(p.due), NEW j \in 1..Len(p.due), p.due[i][1] = p.due[j][1] PROVE i = j
      <4>1. i + 1 = j + 1
        BY <2>2, <3>3 DEF SchInv, SchListed
      <4> QED BY <4>1
    <3> QED BY <2>1, <3>1, <3>2, <3>3 DEF SchListed
  <2>7. SchBehind'
    <3>1. \A f \in schFired : f[2] <= schNow /\ (p.pc # "idle" => f[2] <= p.at)
      <4>1. CASE p.pc = "idle"
        BY <4>1 DEF SchInv, SchBehind
      <4>2. CASE p.pc # "idle"
        BY <2>2, <4>2 DEF SchInv, SchBehind
      <4> QED BY <4>1, <4>2
    <3>2. \A i \in 1..Len(p.due) : p.due[i][1] \notin schRaced =>
              schResumed[p.due[i][1]] < p.due[i][2] /\ p.due[i] \notin schFired
      BY <2>2, <2>5 DEF SchInv, SchBehind
    <3>3. /\ \A s \in SchIds : schResumed[s] <= schNow
          /\ schResume # <<>> => schResume[3] <= schNow /\ schResume[3] < schResume[2]
          /\ \A s \in SchIds \ schRaced : schRow[s].st # "none" =>
                /\ schResumed[s] < schRow[s].next
                /\ \A f \in schFired : f[1] = s => f[2] < schRow[s].next
      BY DEF SchInv, SchBehind
    <3> QED BY <2>1, <3>1, <3>2, <3>3 DEF SchBehind
  <2> QED BY <2>6, <2>7
<1>2. CASE /\ schPass.pc \in SchActive /\ schPass'.pc \in SchActive
           /\ schPass'.due = schPass.due /\ schPass'.at = schPass.at
  <2>1. SchListed'
    BY <1>2 DEF SchInv, SchListed
  <2>2. SchBehind'
    BY <1>2 DEF SchInv, SchBehind, SchActive
  <2> QED BY <2>1, <2>2
<1> QED BY <1>1, <1>2

\* Reading what is due keeps SchInv.
LEMMA SchTickBegin == SchInv /\ SchBegin => SchInv'
<1> SUFFICES ASSUME SchInv, SchBegin PROVE SchInv'
  OBVIOUS
<1> DEFINE due == {s \in SchIds : schRow[s].st = "on" /\ schRow[s].next <= schNow}
           S == {<<s, schRow[s].next>> : s \in due}
<1>1. PICK q \in SetToSeqs(S) : q # <<>> /\ schPass' = [pc |-> "mark", due |-> q, at |-> schNow, todo |-> {}]
  BY DEF SchBegin, DueSchedules
<1>2. /\ schPass.pc = "idle"
      /\ UNCHANGED <<schNow, schRow, schResume, schUp, schCmds, schRetired, schFaults, schFired, schCut,
                     schResumed, schRaced>>
  BY DEF SchBegin, SchUnchangedByPass
<1>3. schNow \in Nat /\ schNow <= SchMaxTime /\ \A s \in SchIds : schRow[s].next \in Nat
  BY SchBoundsAssumption DEF SchInv, SchTyped, SchTypeOK
<1>4. S \subseteq SchDues
  <2>1. \A s \in due : schRow[s].next \in 0..SchMaxTime
    BY <1>3, SchBoundsAssumption
  <2> QED BY <2>1 DEF SchDues
<1>5. IsFiniteSet(S)
  <2>1. IsFiniteSet(due)
    BY SchScopeAssumption, FS_Subset
  <2> DEFINE g == [r \in due |-> <<r, schRow[r].next>>]
  <2>2. DOMAIN g = due /\ \A x \in S : \E s \in due : x = g[s]
    OBVIOUS
  <2> HIDE DEF due, S, g
  <2> QED BY <2>1, <2>2, ConImage
<1>6. Cardinality(S) \in Nat
  BY <1>5, FS_CardinalityType
<1>7. /\ q \in [1..Cardinality(S) -> S]
      /\ \A i, j \in 1..Cardinality(S) : i # j => q[i] # q[j]
  BY <1>1 DEF SetToSeqs
<1>8. \A x \in S : x[1] \in due /\ x[2] = schRow[x[1]].next
  OBVIOUS
<1>9. \A x, y \in S : x[1] = y[1] => x = y
  OBVIOUS
<1> HIDE DEF S
<1>10. q \in Seq(S) /\ Len(q) = Cardinality(S)
  BY <1>6, <1>7
<1>11. q \in Seq(SchDues) /\ \A i \in 1..Len(q) : q[i] \in S
  BY <1>4, <1>7, <1>10
<1>12. SchTyped'
  <2>1. schPass' \in SchPasses
    BY <1>1, <1>3, <1>11, SchBoundsAssumption DEF SchPasses
  <2>2. schPass'.pc = "mark" /\ schPass'.due # <<>> /\ schPass'.todo = {}
    BY <1>1
  <2> QED BY <1>2, <2>1, <2>2 DEF SchInv, SchTyped, SchTypeOK
<1>13. schPass'.pc = "mark" /\ schPass'.due = q /\ schPass'.at = schNow
  BY <1>1
<1>14. SchListed'
  <2>1. \A i \in 1..Len(q) : q[i][2] <= schNow
    BY <1>8, <1>11
  <2>2. \A i, j \in 1..Len(q) : q[i][1] = q[j][1] => i = j
    BY <1>7, <1>9, <1>10, <1>11
  <2> QED BY <1>2, <1>3, <1>13, <2>1, <2>2 DEF SchListed
<1>15. SchBehind'
  <2>1. \A f \in schFired : f[2] <= schNow
    BY DEF SchInv, SchBehind
  <2>2. ASSUME NEW i \in 1..Len(q), q[i][1] \notin schRaced
        PROVE  schResumed[q[i][1]] < q[i][2] /\ q[i] \notin schFired
    <3>1. q[i][1] \in SchIds /\ schRow[q[i][1]].st = "on" /\ q[i][2] = schRow[q[i][1]].next
      BY <1>8, <1>11
    <3>2. schResumed[q[i][1]] < q[i][2] /\ \A f \in schFired : f[1] = q[i][1] => f[2] < q[i][2]
      BY <2>2, <3>1 DEF SchInv, SchBehind
    <3>3. q[i][2] \in Nat
      BY <1>3, <3>1
    <3>4. q[i] \notin schFired
      BY <3>2, <3>3
    <3> QED BY <3>2, <3>4
  <2>3. /\ \A s \in SchIds : schResumed[s] <= schNow
        /\ schResume # <<>> => schResume[3] <= schNow /\ schResume[3] < schResume[2]
        /\ \A s \in SchIds \ schRaced : schRow[s].st # "none" =>
              /\ schResumed[s] < schRow[s].next
              /\ \A f \in schFired : f[1] = s => f[2] < schRow[s].next
    BY DEF SchInv, SchBehind
  <2> QED BY <1>2, <1>13, <2>1, <2>2, <2>3 DEF SchBehind
<1>16. SchServed'
  <2>1. SchFullDispatch'
    BY <1>2, <1>13 DEF SchInv, SchServed, SchFullDispatch
  <2>2. SchStaggered'
    BY <1>2, <1>13 DEF SchInv, SchServed, SchStaggered
  <2> QED BY <1>13, <2>1, <2>2 DEF SchServed, SchActive
<1> QED BY <1>12, <1>14, <1>15, <1>16 DEF SchInv

\* MarkScheduleRun keeps SchInv: the slot it fires was not fired before.
LEMMA SchMarkKeeps == SchInv /\ MarkScheduleRun => SchInv'
<1> SUFFICES ASSUME SchInv, MarkScheduleRun PROVE SchInv'
  OBVIOUS
<1>1. /\ schPass.pc = "mark" /\ schPass' = [schPass EXCEPT !.pc = "resolve"]
      /\ schFired' = schFired \cup {SchFiring}
      /\ UNCHANGED <<schNow, schResume, schUp, schCmds, schRetired, schFaults, schCut, schResumed, schRaced>>
  BY DEF MarkScheduleRun, SchUnchangedByPass
<1>2. /\ schPass'.pc = "resolve" /\ schPass'.due = schPass.due /\ schPass'.at = schPass.at
      /\ schPass'.todo = schPass.todo /\ schPass' \in SchPasses
  BY <1>1 DEF SchInv, SchTyped, SchPasses, SchActive
<1>3. schPass.due # <<>> /\ schPass.due \in Seq(SchDues)
  BY <1>1 DEF SchInv, SchTyped, SchTypeOK, SchPasses
<1>4. 1 \in 1..Len(schPass.due) /\ Len(schPass.due) \in Nat
      /\ \A i \in 1..Len(schPass.due) : schPass.due[i] \in SchDues
  BY <1>3, EmptySeq, ElementOfSeq, LenProperties
<1>5. PICK s \in SchIds, k \in 0..SchMaxTime : schPass.due[1] = <<s, k>>
  BY <1>4 DEF SchDues
<1>6. SchFiring = <<s, k>> /\ SchFiring' = <<s, k>>
  BY <1>2, <1>5 DEF SchFiring
<1>7. /\ schNow \in Nat /\ schPass.at \in Nat /\ k \in Nat /\ k <= schPass.at /\ schPass.at <= schNow
      /\ schPass.at \in 0..SchMaxTime
  <2>1. schPass.at \in 0..SchMaxTime /\ schNow \in 0..SchMaxTime
    BY DEF SchInv, SchTyped, SchTypeOK, SchPasses
  <2>2. schPass.due[1][2] = k
    BY <1>5
  <2> QED BY <1>4, <2>1, <2>2, SchBoundsAssumption DEF SchInv, SchListed
<1>8. PICK n : n = SchNextRun[schPass.at]
  OBVIOUS
<1>9. n \in Nat /\ n > schPass.at
  BY <1>7, <1>8, SchNextRunLater
<1>10. schRow' = IF schRow[s].st = "none" THEN schRow ELSE [schRow EXCEPT ![s].next = n]
  BY <1>5, <1>8 DEF MarkScheduleRun
<1>11. /\ \A r \in SchIds \ {s} : schRow'[r] = schRow[r]
       /\ schRow'[s].st = schRow[s].st /\ (schRow[s].st # "none" => schRow'[s].next = n)
       /\ schRow' \in [SchIds -> [st : {"none", "on", "off"}, next : Nat]]
  BY <1>9, <1>10 DEF SchInv, SchTyped, SchTypeOK
<1>12. SchTyped'
  <2>1. <<s, k>> \in SchDues
    BY DEF SchDues
  <2>2. schFired' \subseteq SchDues /\ schCut' \subseteq schFired'
    BY <1>1, <1>6, <2>1 DEF SchInv, SchTyped, SchTypeOK
  <2> QED BY <1>1, <1>2, <1>3, <1>11, <2>2 DEF SchInv, SchTyped, SchTypeOK
<1>13. SchListed'
  BY <1>1, <1>2 DEF SchInv, SchListed
<1>14. SchBehind'
  <2>1. \A f \in schFired' : f[2] <= schNow /\ f[2] <= schPass.at
    <3>1. \A f \in schFired : f[2] <= schNow /\ f[2] <= schPass.at
      BY <1>1 DEF SchInv, SchBehind
    <3>2. k <= schNow
      BY <1>7
    <3> QED BY <1>1, <1>6, <1>7, <3>1, <3>2
  <2>2. ASSUME NEW r \in SchIds \ schRaced, schRow'[r].st # "none"
        PROVE  schResumed[r] < schRow'[r].next /\ \A f \in schFired' : f[1] = r => f[2] < schRow'[r].next
    <3>1. CASE r # s
      BY <1>1, <1>6, <1>11, <2>2, <3>1 DEF SchInv, SchBehind
    <3>2. CASE r = s
      <4>1. schRow'[r].next = n
        BY <1>11, <2>2, <3>2
      <4>2. schResumed[s] < schPass.due[1][2]
        BY <1>4, <1>5, <2>2, <3>2 DEF SchInv, SchBehind
      <4>3. schResumed[s] < k /\ schResumed[s] \in Nat
        BY <1>5, <4>2, SchBoundsAssumption DEF SchInv, SchTyped
      <4>4. schResumed[s] < n
        BY ONLY <1>7, <1>9, <4>3
      <4>5. \A f \in schFired' : f[2] \in Nat
        BY <1>12, SchBoundsAssumption DEF SchTyped, SchDues
      <4>6. \A f \in schFired' : f[2] < n
        BY ONLY <2>1, <4>5, <1>7, <1>9
      <4> QED BY <3>2, <4>1, <4>4, <4>6
    <3> QED BY <3>1, <3>2
  <2>3. ASSUME NEW i \in 1..Len(schPass.due), schPass.due[i][1] \notin schRaced
        PROVE  /\ schResumed[schPass.due[i][1]] < schPass.due[i][2]
               /\ i > 1 => schPass.due[i] \notin schFired'
    <3>1. schResumed[schPass.due[i][1]] < schPass.due[i][2] /\ schPass.due[i] \notin schFired
      BY <1>1, <2>3 DEF SchInv, SchBehind
    <3>2. i > 1 => schPass.due[i] # <<s, k>>
      BY <1>4, <1>5 DEF SchInv, SchListed
    <3> QED BY <1>1, <1>6, <3>1, <3>2
  <2>4. /\ \A r \in SchIds : schResumed[r] <= schNow
        /\ schResume # <<>> => schResume[3] <= schNow /\ schResume[3] < schResume[2]
    BY DEF SchInv, SchBehind
  <2> QED BY <1>1, <1>2, <2>1, <2>2, <2>3, <2>4 DEF SchBehind
<1>15. SchServed'
  <2>1. SchFullDispatch'
    BY <1>1, <1>2, <1>6 DEF SchInv, SchServed, SchFullDispatch
  <2>2. SchStaggered'
    BY <1>1, <1>2 DEF SchInv, SchServed, SchStaggered
  <2> QED BY <1>1, <1>2, <1>6, <2>1, <2>2 DEF SchServed
<1> QED BY <1>12, <1>13, <1>14, <1>15 DEF SchInv

\* A mark that fails keeps SchInv.
LEMMA SchMarkFailsKeeps == SchInv /\ MarkFails => SchInv'
<1> SUFFICES ASSUME SchInv, MarkFails PROVE SchInv'
  OBVIOUS
<1>1. /\ schPass.pc = "mark" /\ schPass' = SchAdvance /\ schFaults' = schFaults + 1 /\ schFaults < SchMaxFaults
      /\ UNCHANGED <<schNow, schRow, schResume, schUp, schCmds, schRetired, schFired, schCut,
                     schResumed, schRaced>>
  BY DEF MarkFails, SchUnchangedByPass, SchFault
<1>2. /\ schPass' \in SchPasses /\ schPass'.pc \in {"idle", "mark"}
      /\ (schPass'.pc = "idle") = (schPass'.due = <<>>)
  BY <1>1, SchAdvanceFacts DEF SchInv
<1>3. SchTyped'
  <2>1. schFaults' \in 0..SchMaxFaults
    BY <1>1, SchBoundsAssumption DEF SchInv, SchTyped, SchTypeOK
  <2>2. schPass'.todo \subseteq SchAgents
    BY <1>2 DEF SchPasses
  <2> QED BY <1>1, <1>2, <2>1, <2>2 DEF SchInv, SchTyped, SchTypeOK
<1>4. SchListed' /\ SchBehind'
  BY <1>1, <1>2, SchGoesOn
<1>5. SchServed'
  <2>1. SchFullDispatch' /\ SchStaggered'
    BY <1>1, <1>2 DEF SchInv, SchServed, SchFullDispatch, SchStaggered
  <2> QED BY <1>2, <2>1 DEF SchServed, SchActive
<1> QED BY <1>3, <1>4, <1>5 DEF SchInv

\* AgentsForSchedule keeps SchInv.
LEMMA SchResolveKeeps == SchInv /\ AgentsForSchedule => SchInv'
<1> SUFFICES ASSUME SchInv, AgentsForSchedule PROVE SchInv'
  OBVIOUS
<1> DEFINE hosts == SchScope[schPass.due[1][1]] \ schRetired
<1>1. /\ schPass.pc = "resolve"
      /\ schPass' = IF hosts = {} THEN SchAdvance ELSE [schPass EXCEPT !.pc = "create", !.todo = hosts]
      /\ UNCHANGED <<schNow, schRow, schResume, schUp, schCmds, schRetired, schFaults, schFired, schCut,
                     schResumed, schRaced>>
  BY DEF AgentsForSchedule, SchUnchangedByPass
<1>2. SchFiring \in schFired /\ SchFiring[1] = schPass.due[1][1] /\ hosts \subseteq SchAgents
      /\ hosts = SchScope[SchFiring[1]] \ schRetired
  <2>1. SchFiring \in schFired /\ SchFiring[1] = schPass.due[1][1]
    BY <1>1 DEF SchInv, SchServed, SchActive, SchFiring
  <2>2. SchFiring[1] \in SchIds
    BY <2>1 DEF SchInv, SchTyped, SchDues
  <2> QED BY <2>1, <2>2, SchScopeAssumption
<1>3. CASE hosts = {}
  <2>1. schPass' = SchAdvance
    BY <1>1, <1>3
  <2>2. /\ schPass' \in SchPasses /\ schPass'.pc \in {"idle", "mark"}
        /\ (schPass'.pc = "idle") = (schPass'.due = <<>>)
    BY <1>1, <2>1, SchAdvanceFacts DEF SchInv
  <2>3. SchTyped'
    <3>1. schPass'.todo \subseteq SchAgents
      BY <2>2 DEF SchPasses
    <3> QED BY <1>1, <2>2, <3>1 DEF SchInv, SchTyped, SchTypeOK
  <2>4. SchListed' /\ SchBehind'
    BY <1>1, <2>1, <2>2, SchGoesOn
  <2>5. SchServed'
    <3>1. SchFullDispatch'
      BY <1>1, <1>2, <1>3, <2>2 DEF SchInv, SchServed, SchFullDispatch
    <3>2. SchStaggered'
      BY <1>1 DEF SchInv, SchServed, SchStaggered
    <3> QED BY <2>2, <3>1, <3>2 DEF SchServed, SchActive
  <2> QED BY <2>3, <2>4, <2>5 DEF SchInv
<1>4. CASE hosts # {}
  <2>1. schPass' = [schPass EXCEPT !.pc = "create", !.todo = hosts]
    BY <1>1, <1>4
  <2> HIDE DEF hosts
  <2>2. /\ schPass' \in SchPasses /\ schPass'.pc = "create" /\ schPass'.due = schPass.due
        /\ schPass'.at = schPass.at /\ schPass'.todo = hosts
    BY <1>2, <2>1 DEF SchInv, SchTyped, SchPasses, SchActive
  <2>3. SchTyped'
    BY <1>1, <1>2, <2>2 DEF SchInv, SchTyped, SchTypeOK
  <2>4. SchListed' /\ SchBehind'
    BY <1>1, <2>2, SchGoesOn DEF SchActive
  <2>5. SchFiring' = SchFiring
    BY <2>2 DEF SchFiring
  <2>6. SchServed'
    <3>1. SchFullDispatch'
      BY <1>1, <2>2, <2>5 DEF SchInv, SchServed, SchFullDispatch
    <3>2. SchStaggered'
      BY <1>1, <2>2 DEF SchInv, SchServed, SchStaggered
    <3>3. SchFiring' \in schFired'
      BY <1>1, <1>2, <2>5
    <3>4. \A a \in SchScope[SchFiring'[1]] \ schRetired' : a \in schPass'.todo
      BY <1>1, <1>2, <2>2, <2>5
    <3> QED BY <2>2, <3>1, <3>2, <3>3, <3>4 DEF SchServed
  <2> QED BY <2>3, <2>4, <2>6 DEF SchInv
<1> QED BY <1>3, <1>4

\* AgentsForSchedule that fails keeps SchInv.
LEMMA SchResolveFailsKeeps == SchInv /\ ResolveFails => SchInv'
<1> SUFFICES ASSUME SchInv, ResolveFails PROVE SchInv'
  OBVIOUS
<1>1. /\ schPass.pc = "resolve" /\ schPass' = SchAdvance /\ schCut' = schCut \cup {SchFiring}
      /\ schFaults' = schFaults + 1 /\ schFaults < SchMaxFaults
      /\ UNCHANGED <<schNow, schRow, schResume, schUp, schCmds, schRetired, schFired, schResumed, schRaced>>
  BY DEF ResolveFails, SchUnchangedByPass, SchFault
<1>2. /\ schPass' \in SchPasses /\ schPass'.pc \in {"idle", "mark"}
      /\ (schPass'.pc = "idle") = (schPass'.due = <<>>)
  BY <1>1, SchAdvanceFacts DEF SchInv
<1>3. SchFiring \in schFired
  BY <1>1 DEF SchInv, SchServed, SchActive
<1>4. SchTyped'
  <2>1. schFaults' \in 0..SchMaxFaults
    BY <1>1, SchBoundsAssumption DEF SchInv, SchTyped, SchTypeOK
  <2>2. schPass'.todo \subseteq SchAgents
    BY <1>2 DEF SchPasses
  <2> QED BY <1>1, <1>2, <1>3, <2>1, <2>2 DEF SchInv, SchTyped, SchTypeOK
<1>5. SchListed' /\ SchBehind'
  BY <1>1, <1>2, SchGoesOn
<1>6. SchServed'
  <2>1. SchFullDispatch'
    BY <1>1, <1>2 DEF SchInv, SchServed, SchFullDispatch
  <2>2. SchStaggered'
    BY <1>1 DEF SchInv, SchServed, SchStaggered
  <2> QED BY <1>2, <2>1, <2>2 DEF SchServed, SchActive
<1> QED BY <1>4, <1>5, <1>6 DEF SchInv

\* What is left to do of the firing in hand, when one host is done.
LEMMA SchDoneFacts ==
    ASSUME SchInv, schPass.pc \in {"create", "date"}, NEW a, NEW p, p = SchDone(a)
    PROVE  /\ p \in SchPasses /\ p.todo \subseteq SchAgents
           /\ (p.pc = "idle") = (p.due = <<>>)
           /\ \/ p = SchAdvance /\ p.pc \in {"idle", "mark"} /\ schPass.todo = {a}
              \/ /\ p.pc = "create" /\ p.due = schPass.due /\ p.at = schPass.at
                 /\ p.todo = schPass.todo \ {a}
<1>1. schPass \in SchPasses /\ schPass.due # <<>>
  BY DEF SchInv, SchTyped, SchTypeOK
<1>2. CASE schPass.todo = {a}
  <2>1. p = SchAdvance
    BY <1>2 DEF SchDone
  <2>2. p \in SchPasses /\ p.pc \in {"idle", "mark"} /\ (p.pc = "idle") = (p.due = <<>>)
    BY <2>1, SchAdvanceFacts DEF SchInv
  <2>3. p.todo \subseteq SchAgents
    BY <2>2 DEF SchPasses
  <2> QED BY <1>2, <2>1, <2>2, <2>3
<1>3. CASE schPass.todo # {a}
  <2>1. p = [schPass EXCEPT !.pc = "create", !.todo = @ \ {a}]
    BY <1>3 DEF SchDone
  <2>2. p \in SchPasses /\ p.pc = "create" /\ p.due = schPass.due /\ p.at = schPass.at
        /\ p.todo = schPass.todo \ {a}
    BY <1>1, <2>1 DEF SchPasses, SchActive
  <2>3. p.todo \subseteq SchAgents
    BY <2>2 DEF SchPasses
  <2> QED BY <1>1, <2>2, <2>3
<1> QED BY <1>2, <1>3

\* The first statement of a scheduled command keeps SchInv.
LEMMA SchCreateKeeps == ASSUME NEW a \in SchAgents PROVE SchInv /\ SchCreate(a) => SchInv'
<1> SUFFICES ASSUME SchInv, SchCreate(a) PROVE SchInv'
  OBVIOUS
<1> DEFINE same == {c \in schCmds : c.sch = SchFiring[1] /\ c.slot = SchFiring[2] /\ c.agent = a}
<1>1. /\ schPass.pc = "create" /\ a \in schPass.todo /\ schPass' = [schPass EXCEPT !.pc = "date"]
      /\ UNCHANGED <<schNow, schRow, schResume, schUp, schRetired, schFaults, schFired, schCut,
                     schResumed, schRaced>>
  BY DEF SchCreate, SchUnchangedByPass
<1>2. PICK d : d = [n |-> Cardinality(same), sch |-> SchFiring[1], slot |-> SchFiring[2], agent |-> a,
                    start |-> SchUndated]
  OBVIOUS
<1>3. schCmds' = schCmds \cup {d}
  BY <1>2 DEF SchCreate
<1>4. SchFiring \in SchDues /\ SchFiring \in schFired
  BY <1>1 DEF SchInv, SchServed, SchActive, SchTyped
<1>5. d \in SchCommands /\ d.start = SchUndated /\ d.sch = SchFiring[1] /\ d.slot = SchFiring[2]
      /\ d.agent = a
  <2>1. IsFiniteSet(same)
    BY FS_Subset DEF SchInv, SchTyped
  <2>2. Cardinality(same) \in Nat
    BY <2>1, FS_CardinalityType
  <2> HIDE DEF same
  <2> QED BY <1>2, <1>4, <2>2 DEF SchCommands, SchDues
<1> HIDE DEF same
<1>6. /\ schPass' \in SchPasses /\ schPass'.pc = "date" /\ schPass'.due = schPass.due
      /\ schPass'.at = schPass.at /\ schPass'.todo = schPass.todo
  BY <1>1 DEF SchInv, SchTyped, SchPasses, SchActive
<1>7. SchFiring' = SchFiring
  BY <1>6 DEF SchFiring
<1>8. SchTyped'
  <2>1. schCmds' \subseteq SchCommands /\ IsFiniteSet(schCmds')
    BY <1>3, <1>5, FS_AddElement DEF SchInv, SchTyped
  <2> QED BY <1>1, <1>6, <2>1 DEF SchInv, SchTyped, SchTypeOK
<1>9. SchListed' /\ SchBehind'
  BY <1>1, <1>6, SchGoesOn DEF SchActive
<1>10. SchServed'
  <2>1. \A f, b : SchHas(f, b) => SchHas(f, b)'
    BY <1>3 DEF SchHas
  <2>2. ASSUME NEW f \in schFired \ schCut, f # SchFiring, NEW b \in SchScope[f[1]] \ schRetired
        PROVE  SchHas(f, b)'
    <3>1. SchHas(f, b)
      BY <2>2 DEF SchInv, SchServed, SchFullDispatch, SchHas
    <3> QED BY <2>1, <3>1
  <2>3. SchFullDispatch'
    BY <1>1, <1>6, <1>7, <2>2 DEF SchFullDispatch, SchHas
  <2>4. SchFiring = <<SchFiring[1], SchFiring[2]>>
    BY DEF SchFiring
  <2>5. SchStaggered'
    <3>1. ASSUME NEW c \in schCmds' PROVE c.start >= 0 \/ <<c.sch, c.slot>> \in schCut
                                          \/ SchFiring = <<c.sch, c.slot>>
      <4>1. CASE c \in schCmds
        BY <1>1, <4>1 DEF SchInv, SchServed, SchStaggered
      <4>2. CASE c = d
        BY <1>5, <2>4, <4>2
      <4> QED BY <1>3, <4>1, <4>2
    <3> QED BY <1>1, <1>6, <1>7, <3>1 DEF SchStaggered
  <2>6. SchFiring \notin schCut =>
            \A b \in SchScope[SchFiring[1]] \ schRetired : b \in schPass.todo \/ SchHas(SchFiring, b)
    BY <1>1 DEF SchInv, SchServed
  <2>7. SchFiring \notin schCut => \A c \in SchUndatedCmds' : c = d
    <3>1. ASSUME SchFiring \notin schCut, NEW c \in schCmds, c.start = SchUndated, <<c.sch, c.slot>> = SchFiring
          PROVE  FALSE
      <4>1. c.start >= 0
        BY <1>1, <3>1 DEF SchInv, SchServed, SchStaggered
      <4> QED BY <3>1, <4>1 DEF SchUndated
    <3> QED BY <1>3, <1>7, <3>1 DEF SchUndatedCmds
  <2>8. SchFiring' \in schFired'
    BY <1>1, <1>4, <1>7
  <2>9. PICK g : g = SchFiring
    OBVIOUS
  <2>10. g \notin schCut' =>
            \A b \in SchScope[g[1]] \ schRetired' : b \in schPass'.todo \/ SchHas(g, b)'
    BY <1>1, <1>6, <2>1, <2>6, <2>9
  <2>11. SchFiring' = g
    BY <1>7, <2>9
  <2>12. SchFiring' \notin schCut' => \A c, e \in SchUndatedCmds' : c = e
    BY <1>1, <1>7, <2>7
  <2> QED BY <1>6, <2>3, <2>5, <2>8, <2>10, <2>11, <2>12 DEF SchServed, SchHas
<1> QED BY <1>8, <1>9, <1>10 DEF SchInv

\* The second statement of a scheduled command keeps SchInv.
LEMMA SchDateKeeps == SchInv /\ SchDate => SchInv'
<1> SUFFICES ASSUME SchInv, SchDate PROVE SchInv'
  OBVIOUS
<1>1. PICK c \in SchUndatedCmds :
          /\ c.agent \in schPass.todo
          /\ schCmds' = (schCmds \ {c}) \cup
                {[c EXCEPT !.start = schPass.at + AgentOffset(SchHash[c.agent], SchJitter[c.sch])]}
          /\ schPass' = SchDone(c.agent)
  BY DEF SchDate
<1>2. /\ schPass.pc = "date"
      /\ UNCHANGED <<schNow, schRow, schResume, schUp, schRetired, schFaults, schFired, schCut,
                     schResumed, schRaced>>
  BY DEF SchDate, SchUnchangedByPass
<1>3. c \in SchCommands /\ c \in schCmds /\ <<c.sch, c.slot>> = SchFiring
      /\ c.sch = SchFiring[1] /\ c.slot = SchFiring[2]
  BY DEF SchUndatedCmds, SchInv, SchTyped
<1>4. PICK st : st = schPass.at + AgentOffset(SchHash[c.agent], SchJitter[c.sch])
  OBVIOUS
<1>5. st \in Nat
  <2>1. AgentOffset(SchHash[c.agent], SchJitter[c.sch]) \in Nat
    BY <1>3, SchScopeAssumption, OffsetInWindow DEF SchCommands
  <2>2. schPass.at \in Nat
    BY SchBoundsAssumption DEF SchInv, SchTyped, SchPasses
  <2> QED BY <1>4, <2>1, <2>2
<1>6. PICK d : d = [c EXCEPT !.start = st]
  OBVIOUS
<1>7. d \in SchCommands /\ d.start = st /\ d.sch = c.sch /\ d.slot = c.slot /\ d.agent = c.agent
  BY <1>3, <1>5, <1>6 DEF SchCommands
<1>8. schCmds' = (schCmds \ {c}) \cup {d}
  BY <1>1, <1>4, <1>6
<1>9. /\ schPass' \in SchPasses /\ schPass'.todo \subseteq SchAgents
      /\ (schPass'.pc = "idle") = (schPass'.due = <<>>)
      /\ \/ schPass' = SchAdvance /\ schPass'.pc \in {"idle", "mark"} /\ schPass.todo = {c.agent}
         \/ /\ schPass'.pc = "create" /\ schPass'.due = schPass.due /\ schPass'.at = schPass.at
            /\ schPass'.todo = schPass.todo \ {c.agent}
  BY <1>1, <1>2, SchDoneFacts
<1>10. SchTyped'
  <2>1. schCmds' \subseteq SchCommands /\ IsFiniteSet(schCmds')
    BY <1>7, <1>8, FS_AddElement, FS_RemoveElement DEF SchInv, SchTyped
  <2>2. schPass'.pc \in {"idle", "mark", "resolve", "create", "date"}
    BY <1>9
  <2> QED BY <1>2, <1>9, <2>1, <2>2 DEF SchInv, SchTyped, SchTypeOK
<1>11. SchListed' /\ SchBehind'
  BY <1>2, <1>9, SchGoesOn DEF SchActive
<1>12. SchServed'
  <2>1. \A f, b : SchHas(f, b) => SchHas(f, b)'
    <3>1. ASSUME NEW f, NEW b, NEW e \in schCmds, e.sch = f[1], e.slot = f[2], e.agent = b
          PROVE  \E x \in schCmds' : x.sch = f[1] /\ x.slot = f[2] /\ x.agent = b
      <4>1. CASE e = c
        BY <1>7, <1>8, <3>1, <4>1
      <4>2. CASE e # c
        BY <1>8, <3>1, <4>2
      <4> QED BY <4>1, <4>2
    <3> QED BY <3>1 DEF SchHas
  <2>2. PICK g : g = SchFiring
    OBVIOUS
  <2>3. SchHas(g, c.agent)
    BY <1>3, <2>2 DEF SchHas
  <2>4. g \notin schCut => \A b \in SchScope[g[1]] \ schRetired : b \in schPass.todo \/ SchHas(g, b)
    BY <1>2, <2>2 DEF SchInv, SchServed
  <2>5. g \notin schCut =>
            \A b \in SchScope[g[1]] \ schRetired : b \in schPass.todo \ {c.agent} \/ SchHas(g, b)'
    BY <2>1, <2>3, <2>4
  <2>6. \A f \in schFired \ schCut : f # g => \A b \in SchScope[f[1]] \ schRetired : SchHas(f, b)'
    <3>1. \A f \in schFired \ schCut : f # g => \A b \in SchScope[f[1]] \ schRetired : SchHas(f, b)
      BY <2>2 DEF SchInv, SchServed, SchFullDispatch, SchHas
    <3> QED BY <2>1, <3>1
  <2>7. \A e \in schCmds' : e.start >= 0 \/ <<e.sch, e.slot>> \in schCut
    <3>1. ASSUME NEW e \in schCmds', ~(e.start >= 0), <<e.sch, e.slot>> \notin schCut
          PROVE  FALSE
      <4>1. e # d
        BY <1>5, <1>7, <3>1
      <4>2. e \in schCmds /\ e # c
        BY <1>8, <3>1, <4>1
      <4>3. <<e.sch, e.slot>> = SchFiring
        BY <3>1, <4>2 DEF SchInv, SchServed, SchStaggered
      <4>4. e.start \in Nat \cup {SchUndated}
        BY <4>2 DEF SchInv, SchTyped, SchCommands
      <4>5. e.start = SchUndated
        BY <3>1, <4>4
      <4>6. e \in SchUndatedCmds
        BY <4>2, <4>3, <4>5 DEF SchUndatedCmds
      <4> QED BY <1>1, <1>2, <3>1, <4>2, <4>3, <4>6 DEF SchInv, SchServed
    <3> QED BY <3>1
  <2>8. SchStaggered'
    BY <1>2, <2>7 DEF SchStaggered
  <2>9. CASE schPass'.pc \in {"idle", "mark"} /\ schPass.todo = {c.agent}
    <3>1. SchFullDispatch'
      BY <1>2, <2>5, <2>6, <2>9 DEF SchFullDispatch, SchHas
    <3> QED BY <2>8, <2>9, <3>1 DEF SchServed, SchActive
  <2>10. CASE schPass'.pc = "create" /\ schPass'.due = schPass.due /\ schPass'.todo = schPass.todo \ {c.agent}
    <3>1. SchFiring' = g
      BY <2>2, <2>10 DEF SchFiring
    <3>2. SchFullDispatch'
      BY <1>2, <2>6, <2>10, <3>1 DEF SchFullDispatch, SchHas
    <3>3. g \in schFired
      BY <1>2, <2>2 DEF SchInv, SchServed, SchActive
    <3> QED BY <1>2, <2>5, <2>8, <2>10, <3>1, <3>2, <3>3 DEF SchServed, SchHas
  <2> QED BY <1>9, <2>9, <2>10
<1> QED BY <1>10, <1>11, <1>12 DEF SchInv

\* A command that could not be created keeps SchInv.
LEMMA SchDispatchFailsKeeps == ASSUME NEW a \in SchAgents PROVE SchInv /\ DispatchFails(a) => SchInv'
<1> SUFFICES ASSUME SchInv, DispatchFails(a) PROVE SchInv'
  OBVIOUS
<1>1. /\ schPass.pc \in {"create", "date"} /\ schPass' = SchDone(a) /\ schCut' = schCut \cup {SchFiring}
      /\ schFaults' = schFaults + 1 /\ schFaults < SchMaxFaults
      /\ UNCHANGED <<schNow, schRow, schResume, schUp, schCmds, schRetired, schFired, schResumed, schRaced>>
  BY DEF DispatchFails, SchUnchangedByPass, SchFault
<1>2. /\ schPass' \in SchPasses /\ schPass'.todo \subseteq SchAgents
      /\ (schPass'.pc = "idle") = (schPass'.due = <<>>)
      /\ \/ schPass' = SchAdvance /\ schPass'.pc \in {"idle", "mark"}
         \/ schPass'.pc = "create" /\ schPass'.due = schPass.due /\ schPass'.at = schPass.at
  BY <1>1, SchDoneFacts
<1>3. SchFiring \in schFired
  BY <1>1 DEF SchInv, SchServed, SchActive
<1>4. SchTyped'
  <2>1. schFaults' \in 0..SchMaxFaults
    BY <1>1, SchBoundsAssumption DEF SchInv, SchTyped, SchTypeOK
  <2>2. schPass'.pc \in {"idle", "mark", "resolve", "create", "date"}
    BY <1>2
  <2> QED BY <1>1, <1>2, <1>3, <2>1, <2>2 DEF SchInv, SchTyped, SchTypeOK
<1>5. SchListed' /\ SchBehind'
  BY <1>1, <1>2, SchGoesOn DEF SchActive
<1>6. SchServed'
  <2>1. PICK g : g = SchFiring
    OBVIOUS
  <2>2. \A f \in schFired \ schCut : f # g => \A b \in SchScope[f[1]] \ schRetired : SchHas(f, b)
    BY <2>1 DEF SchInv, SchServed, SchFullDispatch, SchHas
  <2>3. SchFullDispatch'
    BY <1>1, <2>1, <2>2 DEF SchFullDispatch, SchHas
  <2>4. SchStaggered'
    BY <1>1 DEF SchInv, SchServed, SchStaggered
  <2>5. schPass'.pc = "create" => SchFiring' = g
    BY <1>2, <2>1 DEF SchFiring
  <2> QED BY <1>1, <1>2, <1>3, <2>1, <2>3, <2>4, <2>5 DEF SchServed, SchActive
<1> QED BY <1>4, <1>5, <1>6 DEF SchInv

-----------------------------------------------------------------------------
(* Operators, hosts, time and crashes *)

\* A console that stops anywhere in the pass keeps SchInv.
LEMMA SchCrashKeeps == SchInv /\ SchCrash => SchInv'
<1> SUFFICES ASSUME SchInv, SchCrash PROVE SchInv'
  OBVIOUS
<1>1. /\ schFaults' = schFaults + 1 /\ schFaults < SchMaxFaults /\ schUp' = FALSE
      /\ schCut' = IF schPass.pc \in SchActive THEN schCut \cup {SchFiring} ELSE schCut
      /\ schPass' = SchIdle /\ schResume' = <<>>
      /\ UNCHANGED <<schNow, schRow, schCmds, schRetired, schFired, schResumed, schRaced>>
  BY DEF SchCrash, SchFault, SchActive
<1>2. /\ schPass'.pc = "idle" /\ schPass'.due = <<>> /\ schPass'.at = 0 /\ schPass'.todo = {}
      /\ Len(schPass'.due) = 0 /\ schPass' \in SchPasses
  BY <1>1, SchBoundsAssumption DEF SchIdle, SchPasses
<1>3. SchTyped'
  <2>1. schFaults' \in 0..SchMaxFaults
    BY <1>1, SchBoundsAssumption DEF SchInv, SchTyped, SchTypeOK
  <2>2. schCut' \subseteq schFired
    BY <1>1 DEF SchInv, SchTyped, SchTypeOK, SchServed
  <2> QED BY <1>1, <1>2, <2>1, <2>2 DEF SchInv, SchTyped, SchTypeOK
<1>4. SchListed'
  BY <1>1, <1>2, SchBoundsAssumption DEF SchInv, SchTyped, SchTypeOK, SchListed
<1>5. SchBehind'
  BY <1>1, <1>2 DEF SchInv, SchBehind
<1>6. SchServed'
  <2>1. SchFullDispatch'
    BY <1>1, <1>2 DEF SchInv, SchServed, SchFullDispatch, SchActive
  <2>2. SchStaggered'
    BY <1>1 DEF SchInv, SchServed, SchStaggered, SchActive
  <2> QED BY <1>2, <2>1, <2>2 DEF SchServed, SchActive
<1> QED BY <1>3, <1>4, <1>5, <1>6 DEF SchInv

\* What a step leaves that changes neither the pass nor what it did.
LEMMA SchServedStays ==
    ASSUME SchInv, schRetired \subseteq schRetired', UNCHANGED <<schPass, schCmds, schFired, schCut>>
    PROVE  SchServed'
<1>1. SchFullDispatch' /\ SchStaggered'
  BY DEF SchInv, SchServed, SchFullDispatch, SchStaggered, SchFiring
<1> QED BY <1>1 DEF SchInv, SchServed, SchFiring, SchHas, SchUndatedCmds

\* A row may be written, as long as its next_run is still to come.
LEMMA SchRowKeeps ==
    ASSUME SchInv, NEW s \in SchIds,
           schRow' \in [SchIds -> [st : {"none", "on", "off"}, next : Nat]],
           \A r \in SchIds \ {s} : schRow'[r] = schRow[r],
           \/ schRow'[s].st = "none" \/ schRow'[s].next > schNow
           \/ schRow[s].st # "none" /\ schRow'[s].next = schRow[s].next,
           UNCHANGED <<schNow, schResume, schUp, schPass, schCmds, schRetired, schFaults, schFired, schCut,
                       schResumed, schRaced>>
    PROVE  SchInv'
<1>1. SchTyped'
  BY DEF SchInv, SchTyped, SchTypeOK
<1>2. SchListed'
  BY DEF SchInv, SchListed
<1>3. SchBehind'
  <2>1. ASSUME NEW r \in SchIds \ schRaced, schRow'[r].st # "none"
        PROVE  schResumed[r] < schRow'[r].next /\ \A f \in schFired : f[1] = r => f[2] < schRow'[r].next
    <3>1. CASE r # s
      BY <2>1, <3>1 DEF SchInv, SchBehind
    <3>2. CASE r = s /\ schRow'[s].next > schNow
      <4>1. /\ schNow \in Nat /\ schResumed[s] \in Nat /\ schRow'[s].next \in Nat
            /\ \A f \in schFired : f[2] \in Nat
        BY SchBoundsAssumption DEF SchInv, SchTyped, SchTypeOK, SchDues
      <4>2. schResumed[s] <= schNow /\ \A f \in schFired : f[2] <= schNow
        BY DEF SchInv, SchBehind
      <4>3. schResumed[s] < schRow'[s].next /\ \A f \in schFired : f[2] < schRow'[s].next
        BY ONLY <3>2, <4>1, <4>2
      <4> QED BY <3>2, <4>3
    <3>3. CASE r = s /\ schRow[s].st # "none" /\ schRow'[s].next = schRow[s].next
      BY <2>1, <3>3 DEF SchInv, SchBehind
    <3> QED BY <2>1, <3>1, <3>2, <3>3
  <2> QED BY <2>1 DEF SchInv, SchBehind
<1> QED BY <1>1, <1>2, <1>3, SchServedStays DEF SchInv

\* An operator who makes, pauses or deletes a schedule keeps SchInv.
LEMMA SchOperatorKeeps ==
    ASSUME NEW s \in SchIds
    PROVE  SchInv /\ (CreateSchedule(s) \/ PauseSchedule(s) \/ DeleteSchedule(s)) => SchInv'
<1> SUFFICES ASSUME SchInv, CreateSchedule(s) \/ PauseSchedule(s) \/ DeleteSchedule(s) PROVE SchInv'
  OBVIOUS
<1>1. UNCHANGED <<schNow, schResume, schUp, schPass, schCmds, schRetired, schFaults, schFired, schCut,
                  schResumed, schRaced>>
  BY DEF CreateSchedule, PauseSchedule, DeleteSchedule, SchOperatorActs
<1>2. schRow \in [SchIds -> [st : {"none", "on", "off"}, next : Nat]] /\ schNow \in 0..SchMaxTime
  BY DEF SchInv, SchTyped, SchTypeOK
<1>3. CASE CreateSchedule(s)
  <2>1. PICK n : n = SchNextRun[schNow]
    OBVIOUS
  <2>2. n \in Nat /\ n > schNow
    BY <1>2, <2>1, SchNextRunLater
  <2>3. schRow' = [schRow EXCEPT ![s] = [st |-> "on", next |-> n]]
    BY <1>3, <2>1 DEF CreateSchedule
  <2>4. [st |-> "on", next |-> n] \in [st : {"none", "on", "off"}, next : Nat]
    BY <2>2
  <2>5. /\ schRow' \in [SchIds -> [st : {"none", "on", "off"}, next : Nat]]
        /\ \A r \in SchIds \ {s} : schRow'[r] = schRow[r]
        /\ schRow'[s].next > schNow
    BY <1>2, <2>2, <2>3, <2>4
  <2> QED BY <1>1, <2>5, SchRowKeeps
<1>4. CASE PauseSchedule(s)
  <2>1. schRow' = [schRow EXCEPT ![s].st = "off"] /\ schRow[s].st # "none"
    BY <1>4 DEF PauseSchedule
  <2>2. /\ schRow' \in [SchIds -> [st : {"none", "on", "off"}, next : Nat]]
        /\ \A r \in SchIds \ {s} : schRow'[r] = schRow[r]
        /\ schRow[s].st # "none" /\ schRow'[s].next = schRow[s].next
    BY <1>2, <2>1
  <2> QED BY <1>1, <2>2, SchRowKeeps
<1>5. CASE DeleteSchedule(s)
  <2>1. schRow' = [schRow EXCEPT ![s] = SchNoRow]
    BY <1>5 DEF DeleteSchedule
  <2>2. /\ schRow' \in [SchIds -> [st : {"none", "on", "off"}, next : Nat]]
        /\ \A r \in SchIds \ {s} : schRow'[r] = schRow[r]
        /\ schRow'[s].st = "none"
    BY <1>2, <2>1 DEF SchNoRow
  <2> QED BY <1>1, <2>2, SchRowKeeps
<1> QED BY <1>3, <1>4, <1>5

\* The first statement of a resumption keeps SchInv.
LEMMA SchResumeReadsKeeps == ASSUME NEW s \in SchIds PROVE SchInv /\ ResumeScheduleReads(s) => SchInv'
<1> SUFFICES ASSUME SchInv, ResumeScheduleReads(s) PROVE SchInv'
  OBVIOUS
<1>1. UNCHANGED <<schNow, schRow, schUp, schPass, schCmds, schRetired, schFaults, schFired, schCut,
                  schResumed, schRaced>>
  BY DEF ResumeScheduleReads, SchOperatorActs
<1>2. PICK n : n = SchNextRun[schNow]
  OBVIOUS
<1>3. schNow \in 0..SchMaxTime /\ schNow \in Nat
  BY SchBoundsAssumption DEF SchInv, SchTyped, SchTypeOK
<1>4. n \in Nat /\ n > schNow
  BY <1>2, <1>3, SchNextRunLater
<1>5. schResume' = <<s, n, schNow>>
  BY <1>2 DEF ResumeScheduleReads
<1>6. SchTyped'
  BY <1>1, <1>3, <1>4, <1>5 DEF SchInv, SchTyped, SchTypeOK
<1>7. SchListed' /\ SchBehind'
  BY <1>1, <1>3, <1>4, <1>5 DEF SchInv, SchListed, SchBehind
<1> QED BY <1>1, <1>6, <1>7, SchServedStays DEF SchInv

\* The second statement of a resumption keeps SchInv.
LEMMA SchResumeWritesKeeps == SchInv /\ ResumeScheduleWrites => SchInv'
<1> SUFFICES ASSUME SchInv, ResumeScheduleWrites PROVE SchInv'
  OBVIOUS
<1>1. /\ schResume # <<>> /\ schResume' = <<>>
      /\ UNCHANGED <<schNow, schUp, schPass, schCmds, schRetired, schFaults, schFired, schCut>>
  BY DEF ResumeScheduleWrites
<1>2. PICK s \in SchIds, n \in Nat, at \in 0..SchMaxTime : schResume = <<s, n, at>>
  BY <1>1 DEF SchInv, SchTyped
<1>3. /\ schRow' = IF schRow[s].st = "none" THEN schRow ELSE [schRow EXCEPT ![s] = [st |-> "on", next |-> n]]
      /\ schResumed' = [schResumed EXCEPT ![s] = at]
      /\ schRaced' = IF SchHeld(s) \/ n <= schNow THEN schRaced \cup {s} ELSE schRaced
  BY <1>2 DEF ResumeScheduleWrites
<1>4. /\ at \in Nat /\ schNow \in Nat /\ at <= schNow /\ at < n
      /\ \A f \in schFired : f[2] \in Nat /\ f[2] <= schNow
  <2>1. at <= schNow /\ at < n /\ \A f \in schFired : f[2] <= schNow
    BY <1>1, <1>2 DEF SchInv, SchBehind
  <2> QED BY <2>1, SchBoundsAssumption DEF SchInv, SchTyped, SchTypeOK, SchDues
<1>5. /\ schRow' \in [SchIds -> [st : {"none", "on", "off"}, next : Nat]]
      /\ \A r \in SchIds \ {s} : schRow'[r] = schRow[r] /\ schResumed'[r] = schResumed[r]
      /\ schRow'[s].st # "none" => schRow'[s].next = n
      /\ schResumed' \in [SchIds -> 0..SchMaxTime] /\ schResumed'[s] = at
  <2>1. [st |-> "on", next |-> n] \in [st : {"none", "on", "off"}, next : Nat]
    OBVIOUS
  <2> QED BY <1>3, <2>1 DEF SchInv, SchTyped, SchTypeOK
<1>6. /\ schRaced \subseteq schRaced' /\ schRaced' \subseteq SchIds
      /\ s \notin schRaced' => ~SchHeld(s) /\ n > schNow
  BY <1>3, <1>4 DEF SchInv, SchTyped
<1>7. SchTyped'
  BY <1>1, <1>5, <1>6 DEF SchInv, SchTyped, SchTypeOK
<1>8. SchListed'
  BY <1>1 DEF SchInv, SchListed
<1>9. SchBehind'
  <2>1. \A r \in SchIds : schResumed'[r] <= schNow
    BY <1>4, <1>5 DEF SchInv, SchBehind
  <2>2. ASSUME NEW r \in SchIds \ schRaced', schRow'[r].st # "none"
        PROVE  schResumed'[r] < schRow'[r].next /\ \A f \in schFired : f[1] = r => f[2] < schRow'[r].next
    <3>1. CASE r # s
      BY <1>5, <1>6, <2>2, <3>1 DEF SchInv, SchBehind
    <3>2. CASE r = s
      <4>1. n > schNow /\ schRow'[r].next = n /\ schResumed'[r] = at
        BY <1>5, <1>6, <2>2, <3>2
      <4>2. \A f \in schFired : f[2] < n
        BY ONLY <1>4, <4>1
      <4> QED BY <1>4, <4>1, <4>2
    <3> QED BY <3>1, <3>2
  <2>3. ASSUME NEW i \in 1..Len(schPass.due), schPass.due[i][1] \notin schRaced'
        PROVE  /\ schResumed'[schPass.due[i][1]] < schPass.due[i][2]
               /\ i > 1 \/ schPass.pc = "mark" => schPass.due[i] \notin schFired
    <3>1. schPass.due[i][1] # s
      BY <1>6, <2>3 DEF SchHeld
    <3>2. schPass.due[i] \in SchDues
      BY ElementOfSeq DEF SchInv, SchTyped, SchPasses
    <3>3. schPass.due[i][1] \in SchIds \ schRaced
      BY <1>6, <2>3, <3>2 DEF SchDues
    <3> QED BY <1>5, <3>1, <3>3 DEF SchInv, SchBehind
  <2>4. \A f \in schFired : f[2] <= schNow /\ (schPass.pc # "idle" => f[2] <= schPass.at)
    BY DEF SchInv, SchBehind
  <2> QED BY <1>1, <2>1, <2>2, <2>3, <2>4 DEF SchBehind
<1> QED BY <1>1, <1>7, <1>8, <1>9, SchServedStays DEF SchInv

\* Retirement, time, a restart and stuttering keep SchInv.
LEMMA SchOthersKeep ==
    ASSUME SchInv,
           (\E a \in SchAgents : SchRetire(a)) \/ SchTime \/ SchRestart \/ UNCHANGED schVars
    PROVE  SchInv'
<1>1. /\ UNCHANGED <<schRow, schResume, schPass, schCmds, schFaults, schFired, schCut, schResumed, schRaced>>
      /\ schRetired \subseteq schRetired' /\ schRetired' \subseteq SchAgents
      /\ schUp' \in BOOLEAN /\ schNow' \in 0..SchMaxTime /\ schNow <= schNow'
  <2>1. schNow \in Nat /\ schNow <= SchMaxTime /\ schUp \in BOOLEAN /\ schRetired \subseteq SchAgents
    BY SchBoundsAssumption DEF SchInv, SchTyped, SchTypeOK
  <2>2. CASE \E a \in SchAgents : SchRetire(a)
    BY <2>1, <2>2 DEF SchRetire, SchOperatorActs
  <2>3. CASE SchTime
    <3>1. schNow' = schNow + 1 /\ schNow < SchMaxTime
      BY <2>3 DEF SchTime
    <3>2. schNow' \in 0..SchMaxTime /\ schNow <= schNow'
      BY <2>1, <3>1, SchBoundsAssumption
    <3> QED BY <2>1, <2>3, <3>2 DEF SchTime
  <2>4. CASE SchRestart
    BY <2>1, <2>4, SchBoundsAssumption DEF SchRestart
  <2>5. CASE UNCHANGED schVars
    BY <2>1, <2>5, SchBoundsAssumption DEF schVars
  <2> QED BY <2>2, <2>3, <2>4, <2>5
<1>2. SchTyped'
  BY <1>1 DEF SchInv, SchTyped, SchTypeOK
<1>3. /\ schNow \in Nat /\ schNow' \in Nat /\ schPass.at \in Nat
      /\ \A f \in schFired : f[2] \in Nat
      /\ \A s \in SchIds : schResumed[s] \in Nat
      /\ schResume # <<>> => schResume[3] \in Nat
  BY <1>1, SchBoundsAssumption DEF SchInv, SchTyped, SchTypeOK, SchPasses, SchDues
<1>4. SchListed'
  <2>1. schPass.at <= schNow
    BY DEF SchInv, SchListed
  <2>2. schPass.at <= schNow'
    BY ONLY <1>1, <1>3, <2>1
  <2> QED BY <1>1, <2>2 DEF SchInv, SchListed
<1>5. SchBehind'
  <2>1. /\ \A f \in schFired : f[2] <= schNow
        /\ \A s \in SchIds : schResumed[s] <= schNow
        /\ schResume # <<>> => schResume[3] <= schNow
    BY DEF SchInv, SchBehind
  <2>2. \A f \in schFired : f[2] <= schNow'
    BY ONLY <1>1, <1>3, <2>1
  <2>3. \A s \in SchIds : schResumed[s] <= schNow'
    BY ONLY <1>1, <1>3, <2>1
  <2>4. schResume # <<>> => schResume[3] <= schNow'
    BY ONLY <1>1, <1>3, <2>1
  <2> QED BY <1>1, <2>2, <2>3, <2>4 DEF SchInv, SchBehind
<1> QED BY <1>1, <1>2, <1>4, <1>5, SchServedStays DEF SchInv

\* Every step keeps SchInv.
LEMMA SchStepInv == SchInv /\ [SchNext]_schVars => SchInv'
<1> SUFFICES ASSUME SchInv, [SchNext]_schVars PROVE SchInv'
  OBVIOUS
<1>1. CASE SchPassStep
  BY <1>1, SchTickBegin, SchMarkKeeps, SchResolveKeeps, SchDateKeeps, SchCreateKeeps DEF SchPassStep
<1>2. CASE SchPassFault
  BY <1>2, SchMarkFailsKeeps, SchResolveFailsKeeps, SchDispatchFailsKeeps DEF SchPassFault
<1>3. CASE \E s \in SchIds : \/ CreateSchedule(s) \/ PauseSchedule(s)
                             \/ ResumeScheduleReads(s) \/ DeleteSchedule(s)
  BY <1>3, SchOperatorKeeps, SchResumeReadsKeeps
<1> QED BY <1>1, <1>2, <1>3, SchResumeWritesKeeps, SchOthersKeep, SchCrashKeeps DEF SchNext

\* No slot fires twice or late, across ticks, crashes and restarts, unless a
\* resume raced; what was marked reaches every host in scope, each command with
\* its place in the jitter window, unless a fault cut it (scheduler.go).
THEOREM ScheduleKept == SchSpec => SchPromises
<1>1. SchSpec => SchInit /\ [][SchNext]_schVars
  BY PTL DEF SchSpec
<1>2. SchSpec => []SchInv
  BY <1>1, SchInitInv, SchStepInv, PTL
<1>3. SchInv => SchFullDispatch /\ SchStaggered
  BY SchInvSafe
<1>4. SchInv /\ [SchNext]_schVars =>
          [\A s \in SchIds, k \in 0..SchMaxTime :
              SchMarks(s, k) /\ <<s, k>> \in schFired => s \in schRaced]_schVars
  BY SchInvSafe
<1>5. SchInv /\ [SchNext]_schVars =>
          [\A s \in SchIds, k \in 0..SchMaxTime :
              SchMarks(s, k) /\ s \notin schRaced => k > schResumed[s]]_schVars
  BY SchInvSafe
<1>6. SchSpec => SchOncePerSlot
  BY <1>1, <1>2, <1>4, PTL DEF SchOncePerSlot
<1>7. SchSpec => SchResumeSkipsMissed
  BY <1>1, <1>2, <1>5, PTL DEF SchResumeSkipsMissed
<1> QED BY <1>2, <1>3, <1>6, <1>7, PTL DEF SchPromises

\* What every variable of the scheduler may hold.
THEOREM SchTyping == SchSpec => []SchTypeOK
<1>1. SchInv => SchTypeOK
  BY DEF SchInv, SchTyped
<1> QED BY <1>1, SchInitInv, SchStepInv, PTL DEF SchSpec

-----------------------------------------------------------------------------
(***************************************************************************)
(* How an agent ends, for every fleet and every threshold of silence.      *)
(***************************************************************************)

(* What the liveness file says *)

\* A file that says alive is that of an instance that runs, that was killed, or
\* whose run loop marked it again after the ending had marked it clean.
PreTraces ==
    \A a \in PreAgents : preFile[a] = "alive" =>
        /\ preProc[a] = "off" => preEnded[a] = "killed" \/ preRevived[a]
        /\ preTurn[a] # "none" => preRevived[a]

PreInv == PreTypeOK /\ PreTraces

\* PreInv holds initially.
LEMMA PreInitInv == PreInit => PreInv
<1> SUFFICES ASSUME PreInit PROVE PreInv
  OBVIOUS
<1>1. 0 \in 0..PreSilence /\ PreRepeat \in 0..PreRepeat
  BY PreTimesAssumption
<1>2. PreTypeOK
  BY <1>1 DEF PreInit, PreTypeOK
<1> QED BY <1>2 DEF PreInit, PreInv, PreTraces

\* A step of the watchdog, the fleet or the clock leaves the host alone.
LEMMA PreConsoleKeeps ==
    ASSUME PreInv, UNCHANGED <<preHost, preForgot, preRevived, preEnded>>,
           preKilled' \in [PreAgents -> BOOLEAN],
           preRow' \in [PreAgents -> {"none", "active", "retired"}],
           preQuiet' \in [PreAgents -> 0..PreSilence], preSeen' \in [PreAgents -> 0..PreRepeat],
           preList' \subseteq PreAgents
    PROVE  PreInv'
<1>1. PreTypeOK'
  BY DEF PreInv, PreTypeOK, preHost
<1>2. PreTraces'
  BY DEF PreInv, PreTraces, preHost
<1> QED BY <1>1, <1>2 DEF PreInv

\* The ages of reports and contacts stay within their caps.
LEMMA PreTimes ==
    /\ 0 \in 0..PreSilence /\ 0 \in 0..PreRepeat /\ PreRepeat \in 0..PreRepeat
    /\ \A q \in 0..PreSilence : (IF q < PreSilence THEN q + 1 ELSE PreSilence) \in 0..PreSilence
    /\ \A q \in 0..PreRepeat : (IF q < PreRepeat THEN q + 1 ELSE PreRepeat) \in 0..PreRepeat
  BY PreTimesAssumption

\* What the console does, and time, keep PreInv.
LEMMA PreWatchdogInv ==
    PreInv /\ (PreCheck \/ PreConsoleRestart \/ PreTime
               \/ \E a \in PreAgents : PreRetire(a) \/ PreSkip(a)
                                       \/ \E ok \in BOOLEAN : PreReport(a, ok)) => PreInv'
<1> SUFFICES ASSUME PreInv, PreCheck \/ PreConsoleRestart \/ PreTime
               \/ \E a \in PreAgents : PreRetire(a) \/ PreSkip(a)
                                       \/ \E ok \in BOOLEAN : PreReport(a, ok)
             PROVE  PreInv'
  OBVIOUS
<1> USE DEF preHistory
<1>0. PreTypeOK
  BY DEF PreInv
<1>1. CASE PreCheck
  BY <1>0, <1>1, PreConsoleKeeps DEF PreCheck, PreTypeOK
<1>2. CASE PreConsoleRestart
  <2>1. preSeen' \in [PreAgents -> 0..PreRepeat]
    BY <1>2, PreTimes DEF PreConsoleRestart
  <2> QED BY <1>0, <1>2, <2>1, PreConsoleKeeps DEF PreConsoleRestart, PreTypeOK
<1>3. CASE PreTime
  <2>1. preQuiet' \in [PreAgents -> 0..PreSilence] /\ preSeen' \in [PreAgents -> 0..PreRepeat]
    BY <1>0, <1>3, PreTimes DEF PreTime, PreTypeOK
  <2> QED BY <1>0, <1>3, <2>1, PreConsoleKeeps DEF PreTime, PreTypeOK
<1>4. ASSUME NEW a \in PreAgents, PreRetire(a) PROVE PreInv'
  BY <1>0, <1>4, PreConsoleKeeps DEF PreRetire, PreTypeOK
<1>5. ASSUME NEW a \in PreAgents, PreSkip(a) PROVE PreInv'
  BY <1>0, <1>5, PreConsoleKeeps DEF PreSkip, PreTypeOK
<1>6. ASSUME NEW a \in PreAgents, NEW ok \in BOOLEAN, PreReport(a, ok) PROVE PreInv'
  <2>1. preSeen' \in [PreAgents -> 0..PreRepeat] /\ preKilled' \in [PreAgents -> BOOLEAN]
        /\ preList' \subseteq PreAgents
    BY <1>0, <1>6, PreTimes DEF PreReport, PreTypeOK
  <2>2. UNCHANGED <<preRow, preQuiet, preHost, preForgot, preRevived, preEnded>>
    BY <1>6 DEF PreReport
  <2> QED BY <1>0, <2>1, <2>2, PreConsoleKeeps DEF PreTypeOK
<1> QED BY <1>1, <1>2, <1>3, <1>4, <1>5, <1>6

\* What a step of one agent has to leave true of it.
LEMMA PreAgentKeeps ==
    ASSUME PreInv, NEW a \in PreAgents, PreTypeOK',
           \A b \in PreAgents \ {a} : /\ preFile'[b] = preFile[b] /\ preProc'[b] = preProc[b]
                                      /\ preTurn'[b] = preTurn[b] /\ preEnded'[b] = preEnded[b]
                                      /\ preRevived'[b] = preRevived[b],
           preFile'[a] = "alive" =>
               /\ preProc'[a] = "off" => preEnded'[a] = "killed" \/ preRevived'[a]
               /\ preTurn'[a] # "none" => preRevived'[a]
    PROVE  PreInv'
  BY DEF PreInv, PreTraces

\* PreEnroll keeps PreInv.
LEMMA PreEnrollKeeps ==
    ASSUME NEW a \in PreAgents PROVE PreInv /\ PreEnroll(a) => PreInv'
<1> SUFFICES ASSUME PreInv, PreEnroll(a) PROVE PreInv'
  OBVIOUS
<1> USE DEF preHistory, preConsole
<1>1. PreTypeOK'
  BY PreTimes DEF PreInv, PreTypeOK, PreEnroll
<1>2. \A b \in PreAgents \ {a} : /\ preFile'[b] = preFile[b] /\ preProc'[b] = preProc[b]
                                 /\ preTurn'[b] = preTurn[b] /\ preEnded'[b] = preEnded[b]
                                 /\ preRevived'[b] = preRevived[b]
  BY DEF PreInv, PreTypeOK, PreEnroll
<1>3. preFile'[a] = "alive" =>
          /\ preProc'[a] = "off" => preEnded'[a] = "killed" \/ preRevived'[a]
          /\ preTurn'[a] # "none" => preRevived'[a]
  BY DEF PreInv, PreTypeOK, PreTraces, PreEnroll
<1> QED BY <1>1, <1>2, <1>3, PreAgentKeeps

\* PreStart keeps PreInv.
LEMMA PreStartKeeps ==
    ASSUME NEW a \in PreAgents PROVE PreInv /\ PreStart(a) => PreInv'
<1> SUFFICES ASSUME PreInv, PreStart(a) PROVE PreInv'
  OBVIOUS
<1> USE DEF preHistory, preConsole
<1>1. PreTypeOK'
  BY PreTimes DEF PreInv, PreTypeOK, PreStart, PreBegin, UncleanShutdownFinding
<1>2. \A b \in PreAgents \ {a} : /\ preFile'[b] = preFile[b] /\ preProc'[b] = preProc[b]
                                 /\ preTurn'[b] = preTurn[b] /\ preEnded'[b] = preEnded[b]
                                 /\ preRevived'[b] = preRevived[b]
  BY DEF PreInv, PreTypeOK, PreStart, PreBegin, UncleanShutdownFinding
<1>3. preFile'[a] = "alive" =>
          /\ preProc'[a] = "off" => preEnded'[a] = "killed" \/ preRevived'[a]
          /\ preTurn'[a] # "none" => preRevived'[a]
  BY DEF PreInv, PreTypeOK, PreTraces, PreStart, PreBegin, UncleanShutdownFinding
<1> QED BY <1>1, <1>2, <1>3, PreAgentKeeps

\* PreTerminate keeps PreInv.
LEMMA PreTerminateKeeps ==
    ASSUME NEW a \in PreAgents PROVE PreInv /\ PreTerminate(a) => PreInv'
<1> SUFFICES ASSUME PreInv, PreTerminate(a) PROVE PreInv'
  OBVIOUS
<1> USE DEF preHistory, preConsole
<1>1. PreTypeOK'
  BY PreTimes DEF PreInv, PreTypeOK, PreTerminate
<1>2. \A b \in PreAgents \ {a} : /\ preFile'[b] = preFile[b] /\ preProc'[b] = preProc[b]
                                 /\ preTurn'[b] = preTurn[b] /\ preEnded'[b] = preEnded[b]
                                 /\ preRevived'[b] = preRevived[b]
  BY DEF PreInv, PreTypeOK, PreTerminate
<1>3. preFile'[a] = "alive" =>
          /\ preProc'[a] = "off" => preEnded'[a] = "killed" \/ preRevived'[a]
          /\ preTurn'[a] # "none" => preRevived'[a]
  BY DEF PreInv, PreTypeOK, PreTraces, PreTerminate
<1> QED BY <1>1, <1>2, <1>3, PreAgentKeeps

\* PreHangup keeps PreInv.
LEMMA PreHangupKeeps ==
    ASSUME NEW a \in PreAgents PROVE PreInv /\ PreHangup(a) => PreInv'
<1> SUFFICES ASSUME PreInv, PreHangup(a) PROVE PreInv'
  OBVIOUS
<1> USE DEF preHistory, preConsole
<1>1. PreTypeOK'
  BY PreTimes DEF PreInv, PreTypeOK, PreHangup
<1>2. \A b \in PreAgents \ {a} : /\ preFile'[b] = preFile[b] /\ preProc'[b] = preProc[b]
                                 /\ preTurn'[b] = preTurn[b] /\ preEnded'[b] = preEnded[b]
                                 /\ preRevived'[b] = preRevived[b]
  BY DEF PreInv, PreTypeOK, PreHangup
<1>3. preFile'[a] = "alive" =>
          /\ preProc'[a] = "off" => preEnded'[a] = "killed" \/ preRevived'[a]
          /\ preTurn'[a] # "none" => preRevived'[a]
  BY DEF PreInv, PreTypeOK, PreTraces, PreHangup
<1> QED BY <1>1, <1>2, <1>3, PreAgentKeeps

\* PreStop keeps PreInv.
LEMMA PreStopKeeps ==
    ASSUME NEW a \in PreAgents PROVE PreInv /\ PreStop(a) => PreInv'
<1> SUFFICES ASSUME PreInv, PreStop(a) PROVE PreInv'
  OBVIOUS
<1> USE DEF preHistory, preConsole
<1>1. PreTypeOK'
  BY PreTimes DEF PreInv, PreTypeOK, PreStop, PreEnd
<1>2. \A b \in PreAgents \ {a} : /\ preFile'[b] = preFile[b] /\ preProc'[b] = preProc[b]
                                 /\ preTurn'[b] = preTurn[b] /\ preEnded'[b] = preEnded[b]
                                 /\ preRevived'[b] = preRevived[b]
  BY DEF PreInv, PreTypeOK, PreStop, PreEnd
<1>3. preFile'[a] = "alive" =>
          /\ preProc'[a] = "off" => preEnded'[a] = "killed" \/ preRevived'[a]
          /\ preTurn'[a] # "none" => preRevived'[a]
  BY DEF PreInv, PreTypeOK, PreTraces, PreStop, PreEnd
<1> QED BY <1>1, <1>2, <1>3, PreAgentKeeps

\* PreKill keeps PreInv.
LEMMA PreKillKeeps ==
    ASSUME NEW a \in PreAgents PROVE PreInv /\ PreKill(a) => PreInv'
<1> SUFFICES ASSUME PreInv, PreKill(a) PROVE PreInv'
  OBVIOUS
<1> USE DEF preHistory, preConsole
<1>1. PreTypeOK'
  BY PreTimes DEF PreInv, PreTypeOK, PreKill, PreEnd
<1>2. \A b \in PreAgents \ {a} : /\ preFile'[b] = preFile[b] /\ preProc'[b] = preProc[b]
                                 /\ preTurn'[b] = preTurn[b] /\ preEnded'[b] = preEnded[b]
                                 /\ preRevived'[b] = preRevived[b]
  BY DEF PreInv, PreTypeOK, PreKill, PreEnd
<1>3. preFile'[a] = "alive" =>
          /\ preProc'[a] = "off" => preEnded'[a] = "killed" \/ preRevived'[a]
          /\ preTurn'[a] # "none" => preRevived'[a]
  BY DEF PreInv, PreTypeOK, PreTraces, PreKill, PreEnd
<1> QED BY <1>1, <1>2, <1>3, PreAgentKeeps

\* PreUpgrade keeps PreInv.
LEMMA PreUpgradeKeeps ==
    ASSUME NEW a \in PreAgents PROVE PreInv /\ PreUpgrade(a) => PreInv'
<1> SUFFICES ASSUME PreInv, PreUpgrade(a) PROVE PreInv'
  OBVIOUS
<1> USE DEF preHistory, preConsole
<1>1. PreTypeOK'
  BY PreTimes DEF PreInv, PreTypeOK, PreUpgrade
<1>2. \A b \in PreAgents \ {a} : /\ preFile'[b] = preFile[b] /\ preProc'[b] = preProc[b]
                                 /\ preTurn'[b] = preTurn[b] /\ preEnded'[b] = preEnded[b]
                                 /\ preRevived'[b] = preRevived[b]
  BY DEF PreInv, PreTypeOK, PreUpgrade
<1>3. preFile'[a] = "alive" =>
          /\ preProc'[a] = "off" => preEnded'[a] = "killed" \/ preRevived'[a]
          /\ preTurn'[a] # "none" => preRevived'[a]
  BY DEF PreInv, PreTypeOK, PreTraces, PreUpgrade
<1> QED BY <1>1, <1>2, <1>3, PreAgentKeeps

\* PreReexec keeps PreInv.
LEMMA PreReexecKeeps ==
    ASSUME NEW a \in PreAgents PROVE PreInv /\ PreReexec(a) => PreInv'
<1> SUFFICES ASSUME PreInv, PreReexec(a) PROVE PreInv'
  OBVIOUS
<1> USE DEF preHistory, preConsole
<1>1. PreTypeOK'
  BY PreTimes DEF PreInv, PreTypeOK, PreReexec, PreBegin, UncleanShutdownFinding
<1>2. \A b \in PreAgents \ {a} : /\ preFile'[b] = preFile[b] /\ preProc'[b] = preProc[b]
                                 /\ preTurn'[b] = preTurn[b] /\ preEnded'[b] = preEnded[b]
                                 /\ preRevived'[b] = preRevived[b]
  BY DEF PreInv, PreTypeOK, PreReexec, PreBegin, UncleanShutdownFinding
<1>3. preFile'[a] = "alive" =>
          /\ preProc'[a] = "off" => preEnded'[a] = "killed" \/ preRevived'[a]
          /\ preTurn'[a] # "none" => preRevived'[a]
  BY DEF PreInv, PreTypeOK, PreTraces, PreReexec, PreBegin, UncleanShutdownFinding
<1> QED BY <1>1, <1>2, <1>3, PreAgentKeeps

\* PreShutdown keeps PreInv.
LEMMA PreShutdownKeeps ==
    ASSUME NEW a \in PreAgents PROVE PreInv /\ PreShutdown(a) => PreInv'
<1> SUFFICES ASSUME PreInv, PreShutdown(a) PROVE PreInv'
  OBVIOUS
<1> USE DEF preHistory, preConsole
<1>1. PreTypeOK'
  BY PreTimes DEF PreInv, PreTypeOK, PreShutdown
<1>2. \A b \in PreAgents \ {a} : /\ preFile'[b] = preFile[b] /\ preProc'[b] = preProc[b]
                                 /\ preTurn'[b] = preTurn[b] /\ preEnded'[b] = preEnded[b]
                                 /\ preRevived'[b] = preRevived[b]
  BY DEF PreInv, PreTypeOK, PreShutdown
<1>3. preFile'[a] = "alive" =>
          /\ preProc'[a] = "off" => preEnded'[a] = "killed" \/ preRevived'[a]
          /\ preTurn'[a] # "none" => preRevived'[a]
  BY DEF PreInv, PreTypeOK, PreTraces, PreShutdown
<1> QED BY <1>1, <1>2, <1>3, PreAgentKeeps

\* The signal watcher's mark keeps PreInv.
LEMMA WatchForTerminationKeeps ==
    ASSUME NEW a \in PreAgents, NEW ok \in BOOLEAN PROVE PreInv /\ WatchForTermination(a, ok) => PreInv'
<1> SUFFICES ASSUME PreInv, WatchForTermination(a, ok) PROVE PreInv'
  OBVIOUS
<1> USE DEF preHistory, preConsole
<1>1. PreTypeOK'
  BY PreTimes DEF PreInv, PreTypeOK, WatchForTermination, PreContact
<1>2. \A b \in PreAgents \ {a} : /\ preFile'[b] = preFile[b] /\ preProc'[b] = preProc[b]
                                 /\ preTurn'[b] = preTurn[b] /\ preEnded'[b] = preEnded[b]
                                 /\ preRevived'[b] = preRevived[b]
  BY DEF PreInv, PreTypeOK, WatchForTermination, PreContact
<1>3. preFile'[a] = "alive" =>
          /\ preProc'[a] = "off" => preEnded'[a] = "killed" \/ preRevived'[a]
          /\ preTurn'[a] # "none" => preRevived'[a]
  BY DEF PreInv, PreTypeOK, PreTraces, WatchForTermination, PreContact
<1> QED BY <1>1, <1>2, <1>3, PreAgentKeeps

\* PreUninstall keeps PreInv.
LEMMA PreUninstallKeeps ==
    ASSUME NEW a \in PreAgents, NEW ok \in BOOLEAN PROVE PreInv /\ PreUninstall(a, ok) => PreInv'
<1> SUFFICES ASSUME PreInv, PreUninstall(a, ok) PROVE PreInv'
  OBVIOUS
<1> USE DEF preHistory, preConsole
<1>1. PreTypeOK'
  BY PreTimes DEF PreInv, PreTypeOK, PreUninstall
<1>2. \A b \in PreAgents \ {a} : /\ preFile'[b] = preFile[b] /\ preProc'[b] = preProc[b]
                                 /\ preTurn'[b] = preTurn[b] /\ preEnded'[b] = preEnded[b]
                                 /\ preRevived'[b] = preRevived[b]
  BY DEF PreInv, PreTypeOK, PreUninstall
<1>3. preFile'[a] = "alive" =>
          /\ preProc'[a] = "off" => preEnded'[a] = "killed" \/ preRevived'[a]
          /\ preTurn'[a] # "none" => preRevived'[a]
  BY DEF PreInv, PreTypeOK, PreTraces, PreUninstall
<1> QED BY <1>1, <1>2, <1>3, PreAgentKeeps

\* PreBeat keeps PreInv.
LEMMA PreBeatKeeps ==
    ASSUME NEW a \in PreAgents, NEW f \in BOOLEAN, NEW k \in BOOLEAN PROVE PreInv /\ PreBeat(a, f, k) => PreInv'
<1> SUFFICES ASSUME PreInv, PreBeat(a, f, k) PROVE PreInv'
  OBVIOUS
<1> USE DEF preHistory, preConsole
<1>1. PreTypeOK'
  BY PreTimes DEF PreInv, PreTypeOK, PreBeat, PreContact, PreDelivered
<1>2. \A b \in PreAgents \ {a} : /\ preFile'[b] = preFile[b] /\ preProc'[b] = preProc[b]
                                 /\ preTurn'[b] = preTurn[b] /\ preEnded'[b] = preEnded[b]
                                 /\ preRevived'[b] = preRevived[b]
  BY DEF PreInv, PreTypeOK, PreBeat, PreContact, PreDelivered
<1>3. preFile'[a] = "alive" =>
          /\ preProc'[a] = "off" => preEnded'[a] = "killed" \/ preRevived'[a]
          /\ preTurn'[a] # "none" => preRevived'[a]
  BY DEF PreInv, PreTypeOK, PreTraces, PreBeat, PreContact, PreDelivered
<1> QED BY <1>1, <1>2, <1>3, PreAgentKeeps

\* Every step keeps PreInv.
LEMMA PreStepInv == PreInv /\ [PreNext]_preVars => PreInv'
<1> SUFFICES ASSUME PreInv, [PreNext]_preVars PROVE PreInv'
  OBVIOUS
<1>1. CASE UNCHANGED preVars
  BY <1>1 DEF preVars, PreInv, PreTypeOK, PreTraces
<1> QED BY <1>1, PreWatchdogInv, PreEnrollKeeps, PreStartKeeps, PreTerminateKeeps, PreHangupKeeps,
           PreStopKeeps, PreKillKeeps, PreUpgradeKeeps, PreReexecKeeps, PreShutdownKeeps,
           WatchForTerminationKeeps, PreUninstallKeeps, PreBeatKeeps DEF PreNext

\* An unclean start is noted only after a kill, or after the file was revived.
LEMMA PreStepTruth ==
    PreInv /\ [PreNext]_preVars =>
        \A a \in PreAgents :
            (preProc'[a] = "up" /\ "unclean" \in prePending'[a] \ prePending[a])
                => preEnded[a] = "killed" \/ preRevived[a]
<1> SUFFICES ASSUME PreInv, [PreNext]_preVars, NEW a \in PreAgents, "unclean" \in prePending'[a],
                    "unclean" \notin prePending[a]
             PROVE  preEnded[a] = "killed" \/ preRevived[a]
  OBVIOUS
<1>0. prePending \in [PreAgents -> SUBSET {"unclean", "terminated"}]
  BY DEF PreInv, PreTypeOK
<1>1. PICK b \in PreAgents : PreStart(b) \/ PreReexec(b)
  <2>1. CASE UNCHANGED prePending
    BY <2>1
  <2>2. \A b \in PreAgents, f, k \in BOOLEAN : ~PreBeat(b, f, k)
    BY <1>0 DEF PreBeat
  <2>3. \A b \in PreAgents, ok \in BOOLEAN : ~WatchForTermination(b, ok)
    BY <1>0 DEF WatchForTermination
  <2>4. \A b \in PreAgents : ~PreStop(b) /\ ~PreKill(b)
    BY <1>0 DEF PreStop, PreKill, PreEnd
  <2> QED BY <2>1, <2>2, <2>3, <2>4
      DEF PreNext, preVars, preHost, PreEnroll, PreTerminate, PreHangup, PreUpgrade, PreShutdown, PreRetire,
          PreSkip, PreUninstall, PreReport, PreCheck, PreConsoleRestart, PreTime
<1>2. a = b /\ preFile[a] = "alive"
  BY <1>0, <1>1 DEF PreStart, PreReexec, PreBegin, UncleanShutdownFinding
<1>3. preProc[a] = "off" \/ preTurn[a] # "none"
  BY <1>1, <1>2 DEF PreStart, PreReexec
<1> QED BY <1>2, <1>3 DEF PreInv, PreTraces

\* An agent says it was stopped without a clean exit only if it was: an
\* upgrade, an uninstall or a service stop raises no alarm, unless the run loop
\* marked the file alive again after it was marked clean (liveness.go).
THEOREM UncleanIsTrue == PreSpec => PreUncleanTruth
<1>1. PreSpec => PreInit /\ [][PreNext]_preVars
  BY PTL DEF PreSpec
<1>2. PreInv /\ [PreNext]_preVars =>
          [\A a \in PreAgents :
              (preProc'[a] = "up" /\ "unclean" \in prePending'[a] \ prePending[a])
                  => preEnded[a] = "killed" \/ preRevived[a]]_preVars
  BY PreStepTruth
<1> QED BY <1>1, <1>2, PreInitInv, PreStepInv, PTL DEF PreUncleanTruth

\* What every variable of the agent's presence may hold.
THEOREM PreTyping == PreSpec => []PreTypeOK
<1>1. PreInv => PreTypeOK
  BY DEF PreInv
<1> QED BY <1>1, PreInitInv, PreStepInv, PTL DEF PreSpec
================================================================================
