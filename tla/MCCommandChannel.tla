-------------------------- MODULE MCCommandChannel --------------------------
(* Small instances of CommandChannel: two agents, of which a2 withdrew its   *)
(* local consent to containment, and requests chosen so that every handler   *)
(* has something to race with.                                               *)
EXTENDS CommandChannel, TLC

CONSTANTS a1, a2, c1, c2, u1, u2

Request(kind, agent, creator, ttl, delay) ==
  [kind |-> kind, agent |-> agent, creator |-> creator, ttl |-> ttl, delay |-> delay]

(* An upgrade ordered by the only operator, beside scheduled work. *)
MCOrderUpgrade ==
  c1 :> Request("upgrade", a1, u1, 0, 0) @@ c2 :> Request("scan", a1, Scheduler, 1, 1)

(* Two operators, each with a destructive order: one removes the agent, the
   other contains where the host says no. *)
MCOrderEndings ==
  c1 :> Request("uninstall", a2, u1, 1, 0) @@ c2 :> Request("contain", a2, u2, 1, 0)

(* An uninstall and work that may still be running when the process ends. *)
MCOrderDecommission ==
  c1 :> Request("uninstall", a1, u1, 1, 0) @@ c2 :> Request("verify", a1, u1, 1, 0)
=============================================================================
