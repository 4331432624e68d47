------------------------------ MODULE Accounts ------------------------------
(***************************************************************************)
(* Operator accounts of the console: sessions, the second factor and its   *)
(* enrollment, disabling (internal/store/auth.go, internal/console/        *)
(* permissions.go, the login and user handlers of internal/console/api.go).*)
(*                                                                         *)
(* Every account here is an administrator's.  A handler runs in its own    *)
(* goroutine: it is admitted by the session and the user it read, and each *)
(* statement it then makes is a step of its own, so that the statements of *)
(* two handlers interleave.  A secret is a number, 0 is none.  Passwords   *)
(* and codes are right or wrong; rate limits, the lockout and the time     *)
(* steps of codes are left out.                                            *)
(***************************************************************************)
EXTENDS Naturals, FiniteSets

CONSTANTS
    AccUsers,       \* administrators
    AccHandlers,    \* handlers that may be running at the same time
    AccSessions,    \* session identifiers: bounds the sessions at one time
    AccMaxSecrets   \* bound on the secrets generated

ASSUME AccBoundsAssumption == AccMaxSecrets \in Nat
ASSUME AccUsersAssumption == AccUsers # {}

VARIABLES
    accUser,      \* users: disabled, totp_secret, totp_enrolled
    accSess,      \* sessions: id, user, mfa_ok, whether they saw a reset (history)
    accReq,       \* per handler: idle, or what it does and has read
    accScanned,   \* the secret behind each user's latest QR code on screen
    accSecrets,   \* secrets generated
    accRaced      \* handlers of two requests interleaved on this user (history)

accVars == <<accUser, accSess, accReq, accScanned, accSecrets, accRaced>>

AccIdle == [op |-> "idle"]

\* The bootstrap administrator and the others have been created.
AccInit ==
    /\ accUser = [u \in AccUsers |-> [disabled |-> FALSE, secret |-> 0, enrolled |-> FALSE]]
    /\ accSess = {}
    /\ accReq = [h \in AccHandlers |-> AccIdle]
    /\ accScanned = [u \in AccUsers |-> 0]
    /\ accSecrets = 0
    /\ accRaced = {}

-----------------------------------------------------------------------------
(* Roles *)

CanAdmin(role) == role = "admin"
CanApprove(role) == role \in {"admin", "operator"}

\* Permits: everyone reads; operators act on hosts and findings; accounts,
\* estates, tokens and installers are the administrators'; else refuse.
Permits(role, action) ==
    \/ action \in {"fleet.view", "findings.view", "estates.view", "audit.view"}
    \/ /\ CanApprove(role)
       /\ action \in {"findings.state", "commands.create", "commands.approve", "fleet.retire"}
    \/ /\ CanAdmin(role)
       /\ action \in {"estates.manage", "installer.generate", "tokens.manage", "users.manage"}

-----------------------------------------------------------------------------
(* Handlers *)

\* LookupSession: the session exists and its user is not disabled.
AccLive(s) == s \in accSess /\ ~accUser[s.user].disabled

AccStarts(h, req) ==
    /\ accReq[h] = AccIdle
    /\ accReq' = [accReq EXCEPT ![h] = req]

AccEnds(h) == accReq' = [accReq EXCEPT ![h] = AccIdle]

\* Another handler is between its read and its write of the same user.
AccOthers(h, u) == \E g \in AccHandlers \ {h} : accReq[g].op # "idle" /\ accReq[g].target = u

AccMayRace(h, u) ==
    accRaced' = IF AccOthers(h, u) THEN accRaced \cup {u} ELSE accRaced

\* Identifiers are random: one that a handler still holds does not come back.
AccIdsInUse ==
    {s.id : s \in accSess} \cup
    {accReq[h].sess : h \in {g \in AccHandlers : accReq[g].op \in {"login", "confirm", "mark"}}}

\* handleLogin: VerifyPassword finds an enabled account ...
AccLogin(h, u) ==
    /\ ~accUser[u].disabled
    /\ \E id \in AccSessions \ AccIdsInUse :
          AccStarts(h, [op |-> "login", target |-> u, sess |-> id])
    /\ UNCHANGED <<accUser, accSess, accScanned, accSecrets, accRaced>>

\* A mutant of CreateSession: the values of two columns are exchanged.
CreateSessionSwapped(h) ==
    /\ accReq[h].op = "login"
    /\ accSess' = accSess \cup {[id |-> accReq[h].target, user |-> accReq[h].target,
                                 mfa |-> FALSE, old |-> FALSE]}
    /\ AccEnds(h)
    /\ UNCHANGED <<accUser, accScanned, accSecrets, accRaced>>

\* ... and CreateSession inserts a session that has no second factor yet.
CreateSession(h) ==
    /\ accReq[h].op = "login"
    /\ accSess' = accSess \cup {[id |-> accReq[h].sess, user |-> accReq[h].target,
                                 mfa |-> FALSE, old |-> FALSE]}
    /\ AccEnds(h)
    /\ UNCHANGED <<accUser, accScanned, accSecrets, accRaced>>

\* handleMFASetup refuses a user who was enrolled when the session was looked
\* up ...
AccSetup(h, s) ==
    /\ AccLive(s)
    /\ ~accUser[s.user].enrolled
    /\ AccStarts(h, [op |-> "begin", target |-> s.user])
    /\ UNCHANGED <<accUser, accSess, accScanned, accSecrets, accRaced>>

\* ... BeginTOTPEnrollment reads the row: its secret counts if an enrollment
\* is in progress, not if it was completed meanwhile ...
AccReadFactor(h) ==
    /\ accReq[h].op = "begin"
    /\ LET u == accReq[h].target
           existing == IF accUser[u].enrolled THEN 0 ELSE accUser[u].secret
       IN  accReq' = [accReq EXCEPT ![h] = [op |-> "setup", target |-> u, secret |-> existing]]
    /\ UNCHANGED <<accUser, accSess, accScanned, accSecrets, accRaced>>

\* ... and shows the secret of an enrollment in progress again, or stores and
\* shows a new one.
BeginTOTPEnrollment(h) ==
    /\ accReq[h].op = "setup"
    /\ LET u == accReq[h].target
       IN  /\ \/ /\ accReq[h].secret # 0
                 /\ accScanned' = [accScanned EXCEPT ![u] = accReq[h].secret]
                 /\ UNCHANGED <<accUser, accSecrets>>
              \/ /\ accReq[h].secret = 0
                 /\ accSecrets < AccMaxSecrets
                 /\ accSecrets' = accSecrets + 1
                 /\ accUser' = [accUser EXCEPT ![u].secret = accSecrets + 1,
                                               ![u].enrolled = FALSE]
                 /\ accScanned' = [accScanned EXCEPT ![u] = accSecrets + 1]
           /\ AccMayRace(h, u)
    /\ AccEnds(h)
    /\ UNCHANGED accSess

\* handleMFAConfirm: CompleteTOTPEnrollment reads the secret, and the code the
\* user typed is right for it ...
AccConfirm(h, s) ==
    /\ AccLive(s)
    /\ accUser[s.user].secret # 0
    /\ accUser[s.user].secret = accScanned[s.user]
    /\ AccStarts(h, [op |-> "confirm", target |-> s.user, sess |-> s.id])
    /\ UNCHANGED <<accUser, accSess, accScanned, accSecrets, accRaced>>

\* MarkSessionMFA: an UPDATE by id, which touches nothing if it was deleted.
MarkSessionMFA(id) ==
    {IF s.id = id THEN [s EXCEPT !.mfa = TRUE] ELSE s : s \in accSess}

\* ... and marks the user as enrolled in a transaction; then the session is
\* marked.
CompleteTOTPEnrollment(h) ==
    /\ accReq[h].op = "confirm"
    /\ accUser' = [accUser EXCEPT ![accReq[h].target].enrolled = TRUE]
    /\ accReq' = [accReq EXCEPT ![h].op = "mark"]
    /\ AccMayRace(h, accReq[h].target)
    /\ UNCHANGED <<accSess, accScanned, accSecrets>>

\* handleMFAVerify: VerifySecondFactor accepts the code of an enrolled user.
VerifySecondFactor(h, s) ==
    /\ AccLive(s)
    /\ accUser[s.user].enrolled
    /\ accUser[s.user].secret = accScanned[s.user]
    /\ AccStarts(h, [op |-> "mark", target |-> s.user, sess |-> s.id])
    /\ UNCHANGED <<accUser, accSess, accScanned, accSecrets, accRaced>>

AccMark(h) ==
    /\ accReq[h].op = "mark"
    /\ accSess' = MarkSessionMFA(accReq[h].sess)
    /\ AccEnds(h)
    /\ UNCHANGED <<accUser, accScanned, accSecrets, accRaced>>

\* handleDisableUser and handleResetMFA: an administrator with a completed
\* session, who may not disable the own account.
AccAdmitted(h, s, op, target) ==
    /\ s.mfa
    /\ AccLive(s)
    /\ Permits("admin", "users.manage")
    /\ op \in {"disable", "enable"} => s.user # target
    /\ AccStarts(h, [op |-> op, target |-> target])
    /\ UNCHANGED <<accUser, accSess, accScanned, accSecrets, accRaced>>

\* A mutant of EndSessions: they are left to expire.
EndNoSessions(u) == accSess

\* The sessions left when those of u are deleted.
EndSessions(u) == {s \in accSess : s.user # u}

\* SetUserDisabled: the flag, and on disabling the user's sessions, in one
\* transaction.
SetUserDisabled(h) ==
    /\ accReq[h].op \in {"disable", "enable"}
    /\ LET u == accReq[h].target
       IN  /\ accUser' = [accUser EXCEPT ![u].disabled = (accReq[h].op = "disable")]
           /\ accSess' = IF accReq[h].op = "disable" THEN EndSessions(u) ELSE accSess
    /\ accRaced' = IF \E g \in AccHandlers \ {h} : accReq[g].op = "disable"
                   THEN accRaced \cup {accReq[h].target} ELSE accRaced
    /\ AccEnds(h)
    /\ UNCHANGED <<accScanned, accSecrets>>

\* ResetMFA: the factor, its recovery codes and the sessions, in one
\* transaction.
ResetMFA(h) ==
    /\ accReq[h].op = "reset"
    /\ LET u == accReq[h].target
       IN  /\ accUser' = [accUser EXCEPT ![u].secret = 0, ![u].enrolled = FALSE]
           /\ accSess' = {[s EXCEPT !.old = @ \/ s.user = u] : s \in EndSessions(u)}
           /\ AccMayRace(h, u)
    /\ AccEnds(h)
    /\ UNCHANGED <<accScanned, accSecrets>>

\* Logout, or the session expires.
DeleteSession(s) ==
    /\ accSess' = accSess \ {s}
    /\ UNCHANGED <<accUser, accReq, accScanned, accSecrets, accRaced>>

AccNext ==
    \/ \E s \in accSess : DeleteSession(s)
    \/ \E h \in AccHandlers :
        \/ \E u \in AccUsers : AccLogin(h, u)
        \/ CreateSession(h) \/ AccReadFactor(h) \/ BeginTOTPEnrollment(h)
        \/ CompleteTOTPEnrollment(h)
        \/ AccMark(h) \/ SetUserDisabled(h) \/ ResetMFA(h)
        \/ \E s \in accSess :
              \/ AccSetup(h, s) \/ AccConfirm(h, s) \/ VerifySecondFactor(h, s)
              \/ \E u \in AccUsers, op \in {"disable", "enable", "reset"} :
                    AccAdmitted(h, s, op, u)

AccSpec == AccInit /\ [][AccNext]_accVars

-----------------------------------------------------------------------------
(* Properties *)

AccTypeOK ==
    /\ accUser \in [AccUsers -> [disabled : BOOLEAN, secret : 0..AccMaxSecrets,
                                 enrolled : BOOLEAN]]
    /\ \A s \in accSess : s.id \in AccSessions /\ s.user \in AccUsers /\ s.mfa \in BOOLEAN
    /\ accScanned \in [AccUsers -> 0..AccMaxSecrets]
    /\ accSecrets \in 0..AccMaxSecrets
    /\ accRaced \subseteq AccUsers

\* "Existing sessions must not survive an MFA reset": a session that counts
\* as signed in began after its user's last reset, whatever login, setup or
\* verification was under way when the reset ran.
AccResetEndsSessions ==
    \A s \in accSess : s.mfa => ~s.old

\* Nobody is locked out by enrolling: an enrolled user holds the secret the
\* console checks against, unless handlers of two requests interleaved on the
\* user (a reset between the two halves of a confirmation, two setups at once).
AccEnrolledKnowsSecret ==
    \A u \in AccUsers :
        accUser[u].enrolled /\ u \notin accRaced
            => accUser[u].secret # 0 /\ accUser[u].secret = accScanned[u]

\* Administrators disabling one another leave one of them, unless two such
\* requests were under way at the same time.
AccAdminRemains ==
    (\E u \in AccUsers : ~accUser[u].disabled) \/ accRaced # {}

\* What an administrator may rely on, whatever handlers of the console
\* interleave: a reset ends the sessions, enrolling locks nobody out, and
\* somebody is left to administer.
AccSafe == AccResetEndsSessions /\ AccEnrolledKnowsSecret /\ AccAdminRemains
=============================================================================
