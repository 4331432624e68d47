--------------------------- MODULE CommandLedger ----------------------------
(***************************************************************************)
(* What the command channel promises, without tables, heartbeats, messages *)
(* or failures: a guarded command waits for an authorisation, a command is *)
(* handed out at most once and one at a time, work starts only on a command *)
(* that is out and only once, and what ended stays ended.                  *)
(***************************************************************************)
EXTENDS Naturals

CONSTANTS Commands, Guarded   \* Guarded: the commands that need an authorisation

VARIABLES phase, worked

vars == <<phase, worked>>

Init == /\ phase  = [c \in Commands |-> "absent"]
        /\ worked = [c \in Commands |-> 0]

Moves(c, from, to) == phase[c] = from /\ phase'[c] = to /\ worked'[c] = worked[c]

Place(c)     == Moves(c, "absent", IF c \in Guarded THEN "waiting" ELSE "ready")
Authorise(c) == Moves(c, "waiting", "ready")
Withdraw(c)  == \E from \in {"waiting", "ready"} : Moves(c, from, "withdrawn")
HandOut(c)   == Moves(c, "ready", "out")
Work(c)      == /\ phase[c] = "out" /\ phase'[c] = "out"
                /\ worked[c] = 0 /\ worked'[c] = 1
Succeed(c)   == worked[c] = 1 /\ Moves(c, "out", "done")
Fail(c)      == Moves(c, "out", "failed")
Rest(c)      == phase'[c] = phase[c] /\ worked'[c] = worked[c]

Next ==
  /\ phase'  = [c \in Commands |-> phase'[c]]
  /\ worked' = [c \in Commands |-> worked'[c]]
  /\ \A c \in Commands :
       \/ Place(c) \/ Authorise(c) \/ Withdraw(c) \/ HandOut(c)
       \/ Work(c) \/ Succeed(c) \/ Fail(c) \/ Rest(c)
  /\ \A c, d \in Commands : HandOut(c) /\ HandOut(d) => c = d

Spec == Init /\ [][Next]_vars
=============================================================================
