-------------------------- MODULE ArchiveTransfer ---------------------------
(***************************************************************************)
(* What the service promises the clients that download one selection, as   *)
(* if each had a server and an archive of its own: what a client has is    *)
(* always a beginning of the whole archive and only grows, whichever of    *)
(* its answers broke off where; an answer ends well only with the whole;   *)
(* and no answer touches what another client has.  All that clients share  *)
(* is bad luck: answers may break off together.                            *)
(***************************************************************************)
EXTENDS Integers, Sequences

CONSTANTS
  Client,
  Whole,       (* the archive, a sequence of units *)
  MaxRequests  (* bound: requests of a client *)

VARIABLES
  status,   (* "idle", "busy", "done" or "failed" *)
  got,      (* what a client has *)
  requests  (* requests of a client so far *)

transferVars == <<status, got, requests>>

Init ==
  /\ status = [c \in Client |-> "idle"]
  /\ got = [c \in Client |-> <<>>]
  /\ requests = [c \in Client |-> 0]

(* For the whole, or for the rest of it *)
Ask(c) ==
  /\ status[c] \in {"idle", "failed"} /\ requests[c] < MaxRequests
  /\ status' = [status EXCEPT ![c] = "busy"]
  /\ requests' = [requests EXCEPT ![c] = @ + 1]
  /\ UNCHANGED got

Continue(c) ==
  /\ status[c] = "busy" /\ Len(got[c]) < Len(Whole)
  /\ got' = [got EXCEPT ![c] = Append(@, Whole[Len(@) + 1])]
  /\ UNCHANGED <<status, requests>>

BreakOff(cs) ==
  /\ \A c \in cs : status[c] = "busy"
  /\ status' = [c \in Client |-> IF c \in cs THEN "failed" ELSE status[c]]
  /\ UNCHANGED <<got, requests>>

Complete(c) ==
  /\ status[c] = "busy" /\ got[c] = Whole
  /\ status' = [status EXCEPT ![c] = "done"]
  /\ UNCHANGED <<got, requests>>

Next ==
  \/ \E c \in Client : Ask(c) \/ Continue(c) \/ Complete(c)
  \/ \E cs \in SUBSET Client : BreakOff(cs)

Spec == Init /\ [][Next]_transferVars
=============================================================================
