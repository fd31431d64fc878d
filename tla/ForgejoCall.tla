---------------------------- MODULE ForgejoCall -----------------------------
(***************************************************************************)
(* What one call of the Forgejo client promises the handler that makes it  *)
(* (src/internal/source/forgejo.go): a call that is reported done has      *)
(* changed the repository exactly once if it is an update; one that is     *)
(* reported missing or unauthorized has changed nothing, and is never      *)
(* reported unauthorized while Forgejo takes the token in some form; only  *)
(* a failure leaves open whether the update was made.                      *)
(***************************************************************************)
EXTENDS Integers

VARIABLES
  op,        (* "get", "read" or "put" *)
  welcome,   (* Forgejo takes the token in one form or other *)
  verdict,   (* "pending", or how the call ended *)
  updates    (* how often Forgejo has made the update *)

callVars == <<op, welcome, verdict, updates>>

Init ==
  /\ op \in {"get", "read", "put"}
  /\ welcome \in BOOLEAN
  /\ verdict = "pending"
  /\ updates = 0

(* The token is revoked, or ends. *)
Revoke == welcome' = FALSE /\ UNCHANGED <<op, verdict, updates>>

Update ==
  /\ op = "put" /\ welcome
  /\ verdict = "pending" /\ updates = 0
  /\ updates' = 1
  /\ UNCHANGED <<op, welcome, verdict>>

Return(v) ==
  /\ verdict = "pending"
  /\ v = "ok" => updates = (IF op = "put" THEN 1 ELSE 0)
  /\ v \in {"missing", "unauthorized"} => updates = 0
  /\ v = "unauthorized" => ~welcome
  /\ verdict' = v
  /\ UNCHANGED <<op, welcome, updates>>

Next ==
  \/ Revoke \/ Update
  \/ \E v \in {"ok", "missing", "unauthorized", "unsupported", "failed"} : Return(v)

Spec == Init /\ [][Next]_callVars
=============================================================================
