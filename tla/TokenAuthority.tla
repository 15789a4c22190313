--------------------------- MODULE TokenAuthority ---------------------------
(***************************************************************************)
(* What the Agent's device registry promises to its callers, with no       *)
(* locks, no cache, no database and no process that can die: one table of  *)
(* grants that only moves forward, and answers that tell the truth about   *)
(* that table at the moment they are given.                                *)
(***************************************************************************)
CONSTANTS Threads,      \* the callers: the request threads of the Agent
          Devices,      \* device identities, each with its own bearer token
          NoReply       \* what a caller without an answer holds

ReplyKinds == {"registered", "duplicate", "revoked", "unknown", "accepted", "denied", "failed"}

Replies == [kind : ReplyKinds, device : Devices]

VARIABLES grants,       \* the durable truth about every device
          replies       \* the answer each caller holds, if any

vars == <<grants, replies>>

Init ==
    /\ grants = [d \in Devices |-> "absent"]
    /\ replies = [t \in Threads |-> NoReply]

Grant(d) ==
    /\ grants[d] = "absent"
    /\ grants' = [grants EXCEPT ![d] = "authorized"]
    /\ UNCHANGED replies

Revoke(d) ==
    /\ grants[d] = "authorized"
    /\ grants' = [grants EXCEPT ![d] = "revoked"]
    /\ UNCHANGED replies

(* An answer is true of the table when it is given; "failed" says nothing. *)
Truthful(r) ==
    /\ r.kind \in {"registered", "duplicate"} => grants[r.device] # "absent"
    /\ r.kind = "revoked"  => grants[r.device] = "revoked"
    /\ r.kind = "unknown"  => grants[r.device] = "absent"
    /\ r.kind = "accepted" => grants[r.device] = "authorized"
    /\ r.kind = "denied"   => grants[r.device] # "authorized"

Answer(t) ==
    /\ replies[t] = NoReply
    /\ \E r \in Replies : Truthful(r) /\ replies' = [replies EXCEPT ![t] = r]
    /\ UNCHANGED grants

(* The caller goes on with its answer; a crash takes every caller with it. *)
TakeReply(t) ==
    /\ replies' = [replies EXCEPT ![t] = NoReply]
    /\ UNCHANGED grants

LoseReplies ==
    /\ replies' = [t \in Threads |-> NoReply]
    /\ UNCHANGED grants

Next ==
    \/ \E d \in Devices : Grant(d) \/ Revoke(d)
    \/ \E t \in Threads : Answer(t) \/ TakeReply(t)
    \/ LoseReplies

Spec == Init /\ [][Next]_vars
=============================================================================
