---------------------------- MODULE RangeAnswer -----------------------------
(***************************************************************************)
(* What a download promises the client: after a refusal or an announcement *)
(* of a range of archive bytes, pieces of the range arrive in order and    *)
(* without a gap, and the answer is complete only when the whole range was *)
(* sent.  It may break off at any point before.                            *)
(***************************************************************************)
EXTENDS Integers

VARIABLES
  status,     (* "pending", "sending", "ok" or "error" *)
  announced,  (* Content-Length *)
  first,      (* archive position of the first announced byte *)
  piece       (* the archive positions sent last: from (included), to *)

answerVars == <<status, announced, first, piece>>

Init ==
  /\ status = "pending"
  /\ announced = 0 /\ first = 0
  /\ piece = [from |-> 0, to |-> 0]

Announce ==
  /\ status = "pending"
  /\ status' = "sending"
  /\ announced' \in Nat /\ first' \in Nat
  /\ piece' = [from |-> first', to |-> first']

(* The next piece begins where the last one ended. *)
SendUpTo(limit) == piece' \in [from : {piece.to}, to : (piece.to + 1)..limit]

Send ==
  /\ status = "sending"
  /\ SendUpTo(first + announced)
  /\ UNCHANGED <<status, announced, first>>

Complete ==
  /\ status = "sending"
  /\ \/ SendUpTo(first + announced)
     \/ UNCHANGED piece
  /\ piece'.to = first + announced
  /\ status' = "ok"
  /\ UNCHANGED <<announced, first>>

Break ==
  /\ status \in {"pending", "sending"}
  /\ \/ status = "sending" /\ SendUpTo(first + announced)
     \/ UNCHANGED piece
  /\ status' = "error"
  /\ UNCHANGED <<announced, first>>

Next == Announce \/ Send \/ Complete \/ Break

Spec == Init /\ [][Next]_answerVars
=============================================================================
