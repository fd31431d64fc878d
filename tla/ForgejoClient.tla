--------------------------- MODULE ForgejoClient ----------------------------
(***************************************************************************)
(* One call of the Forgejo client (src/internal/source/forgejo.go): the    *)
(* forms in which it offers the token, one after the other, the attempts   *)
(* of getJSON with their pauses, and what it makes of every status.  The   *)
(* answer to a request may be lost, the token may be revoked, what is      *)
(* asked for may come and go, and the caller's context may end, at any     *)
(* time.  ForgejoCall states what the handlers rely on.                    *)
(***************************************************************************)
EXTENDS Integers, Sequences

CONSTANT Attempts   (* of getJSON *)

ASSUME ForgejoClientAssumption == Attempts \in Nat \ {0}

VARIABLES
  accepted,   (* Forgejo: the forms in which it takes the token *)
  there,      (* Forgejo: whether it has what the call asks for *)
  updates,    (* Forgejo: how often it has made the update *)
  op,         (* what kind of call it is *)
  schemes,    (* the forms in which the client can offer its token *)
  pc,         (* where the call is *)
  attempt,    (* the attempt, counted from 1 *)
  turn,       (* the place in schemes of the form in use *)
  reply,      (* the status on its way to the client *)
  gone,       (* the caller's context has ended *)
  verdict     (* how the call ended *)

forgejo == <<accepted, there, updates>>
call == <<op, schemes, pc, attempt, turn, reply, gone, verdict>>
vars == <<forgejo, call>>

WithToken == <<"bearer", "token", "basic">>
WithoutToken == <<"none">>

(* "get":  an endpoint that getJSON asks: repository, branch, commits, ... *)
(* "read": a file, or the SHA of the config: a single attempt;             *)
(* "put":  UpsertFile: a single attempt, which changes the repository.     *)
Op == {"get", "read", "put"}

(* 200 with a whole answer, or with one that breaks off; any other status  *)
(* from 400 on is "error", such as the conflict when the SHA that guards   *)
(* an update is not the current one.                                       *)
Status == {"200", "cut", "401", "403", "404", "422", "error"}

TypeOK ==
  /\ accepted \subseteq {"none", "bearer", "token", "basic"}
  /\ there \in BOOLEAN /\ gone \in BOOLEAN
  /\ updates \in 0..1
  /\ op \in Op
  /\ schemes \in {WithToken, WithoutToken}
  /\ pc \in {"send", "wait", "receive", "pause", "returned"}
  /\ attempt \in 1..Attempts /\ turn \in 1..Len(schemes)
  /\ reply \in Status
  /\ verdict \in {"pending", "ok", "missing", "unauthorized", "unsupported",
                  "failed"}

Init ==
  /\ op \in Op
  /\ schemes \in {WithToken, WithoutToken}
  /\ accepted \in SUBSET {schemes[i] : i \in DOMAIN schemes}
  /\ there \in BOOLEAN
  /\ updates = 0
  /\ pc = "send"
  /\ attempt = 1 /\ turn = 1
  /\ reply = "error"
  /\ gone = FALSE
  /\ verdict = "pending"
-----------------------------------------------------------------------------
(* What happens to Forgejo and to the caller meanwhile *)

Revoke ==
  /\ accepted # {}
  /\ accepted' = {}
  /\ UNCHANGED <<there, updates, call>>

(* A branch is pushed or deleted, a file is added or removed. *)
Change ==
  /\ there' = ~there
  /\ UNCHANGED <<accepted, updates, call>>

Leave ==
  /\ ~gone /\ pc # "returned"
  /\ gone' = TRUE
  /\ UNCHANGED <<forgejo, op, schemes, pc, attempt, turn, reply, verdict>>
-----------------------------------------------------------------------------
(* Forgejo answers a request. *)

Reply(status) ==
  /\ pc = "wait"
  /\ pc' = "receive"
  /\ reply' = status
  /\ UNCHANGED <<accepted, there, op, schemes, attempt, turn, gone, verdict>>

Welcome == schemes[turn] \in accepted

Refuse ==
  /\ ~Welcome
  /\ \E status \in {"401", "403"} : Reply(status)
  /\ UNCHANGED updates

Miss == Welcome /\ ~there /\ Reply("404") /\ UNCHANGED updates

Break ==
  /\ \E status \in {"422", "error"} : Reply(status)
  /\ UNCHANGED updates

Answer ==
  /\ Welcome /\ there
  /\ \E status \in {"200", "cut"} : Reply(status)
  /\ updates' = IF op = "put" THEN updates + 1 ELSE updates

(* Forgejo makes the update and fails to say so. *)
AnswerBroken ==
  /\ Welcome /\ there /\ op = "put"
  /\ Reply("error")
  /\ updates' = updates + 1
-----------------------------------------------------------------------------
(* The call *)

Goto(place) ==
  /\ pc' = place
  /\ UNCHANGED <<forgejo, op, schemes, reply, gone>>

Return(v) ==
  /\ Goto("returned")
  /\ verdict' = v
  /\ UNCHANGED <<attempt, turn>>

(* Variant: an update is repeated as well. *)
FailRepeating ==
  IF attempt < Attempts
  THEN Goto("pause") /\ UNCHANGED <<attempt, turn, verdict>>
  ELSE Return("failed")

(* Only getJSON tries again. *)
Fail ==
  IF op = "get" /\ attempt < Attempts
  THEN Goto("pause") /\ UNCHANGED <<attempt, turn, verdict>>
  ELSE Return("failed")

Send ==
  /\ pc = "send" /\ ~gone
  /\ Goto("wait")
  /\ UNCHANGED <<attempt, turn, verdict>>

(* The HTTP client returns an error: the context has ended, the connection *)
(* breaks, or a minute has passed.  Forgejo may have answered.             *)
SendFails ==
  /\ pc \in {"send", "wait", "receive"}
  /\ pc = "send" => gone
  /\ Fail

Refused == reply \in {"401", "403"}

(* Variant: nobody counts the forms. *)
NextSchemeUncounted ==
  /\ pc = "receive" /\ Refused
  /\ Goto("send")
  /\ turn' = turn + 1
  /\ UNCHANGED <<attempt, verdict>>

(* doWithAuthFallback: the next form is offered when one is refused. *)
NextScheme ==
  /\ pc = "receive" /\ Refused
  /\ turn < Len(schemes)
  /\ Goto("send")
  /\ turn' = turn + 1
  /\ UNCHANGED <<attempt, verdict>>

(* Variant: any refusal is final. *)
ReturnUnauthorizedAtOnce ==
  /\ pc = "receive" /\ Refused
  /\ Return("unauthorized")

(* The last form is refused.  UpsertFile takes a 403 for missing scopes    *)
(* and reports a failure.                                                  *)
ReturnUnauthorized ==
  /\ pc = "receive" /\ Refused
  /\ turn = Len(schemes)
  /\ Return(IF op = "put" /\ reply = "403" THEN "failed" ELSE "unauthorized")

ReturnMissing ==
  /\ pc = "receive" /\ reply = "404"
  /\ Return("missing")

(* ErrUnsupportedSearchMode is not worth another attempt. *)
ReturnUnsupported ==
  /\ pc = "receive" /\ reply = "422" /\ op = "get"
  /\ Return("unsupported")

(* Nobody reads the body of the answer to an update. *)
ReturnDone ==
  /\ pc = "receive"
  /\ reply = "200" \/ (reply = "cut" /\ op = "put")
  /\ Return("ok")

ReceiveFailure ==
  /\ pc = "receive"
  /\ \/ reply = "error"
     \/ reply = "cut" /\ op # "put"
     \/ reply = "422" /\ op # "get"
  /\ Fail

(* Variant: the attempts are not counted. *)
TryAgainForEver ==
  /\ pc = "pause"
  /\ Goto("send")
  /\ turn' = 1
  /\ UNCHANGED <<attempt, verdict>>

(* The pause is over: every form is offered anew. *)
TryAgain ==
  /\ pc = "pause"
  /\ Goto("send")
  /\ attempt' = attempt + 1 /\ turn' = 1
  /\ UNCHANGED verdict

(* The context ends during the pause. *)
GiveUp ==
  /\ pc = "pause" /\ gone
  /\ Return("failed")

(* The call has returned. *)
Rest == pc = "returned" /\ UNCHANGED vars

Serve == Refuse \/ Miss \/ Break \/ Answer \/ AnswerBroken

Proceed ==
  \/ Send \/ SendFails \/ NextScheme
  \/ ReturnUnauthorized \/ ReturnMissing \/ ReturnUnsupported \/ ReturnDone
  \/ ReceiveFailure \/ TryAgain \/ GiveUp

Next == Revoke \/ Change \/ Leave \/ Serve \/ Proceed \/ Rest

Spec == Init /\ [][Next]_vars

(* The HTTP client bounds every wait for Forgejo by a minute               *)
(* (src/cmd/zip-forger/main.go:106), and the pauses end.                   *)
FairSpec == Spec /\ WF_vars(Proceed)
-----------------------------------------------------------------------------
Promise == INSTANCE ForgejoCall WITH welcome <- accepted # {}

(* The call keeps its promise: done means updated once, missing and        *)
(* unauthorized mean not updated, and it is not reported unauthorized as   *)
(* long as one of the token's forms is taken.                              *)
ImplementsCall == Promise!Spec

(* A get that fails under a living context has been tried as often as it   *)
(* may be; anything else is tried once.                                    *)
FailsOnlyInTheEnd ==
  /\ verdict = "failed" /\ op = "get" /\ ~gone => attempt = Attempts
  /\ op # "get" => attempt = 1

(* A bound on the steps that the call has still to take: for every attempt *)
(* that is left three for each form and one for the pause.                 *)
StepsLeft ==
  LET step == [send |-> 3, wait |-> 2, receive |-> 1]
  IN CASE pc = "returned" -> 0
       [] pc = "pause" -> 1 + 10 * (Attempts - attempt)
       [] OTHER -> 1 + 10 * (Attempts - attempt) + 3 * (Len(schemes) - turn) + step[pc]

(* Whatever Forgejo answers or fails to answer, a call does not go on for  *)
(* ever: no form is offered twice in an attempt, no attempt is made beyond *)
(* the last, and a call that has returned does nothing any more (lines     *)
(* 889-912, 958-980).                                                      *)
NearsItsEnd == [][StepsLeft' \in 0..(StepsLeft - 1)]_<<pc, attempt, turn>>

(* Every call returns, even if Forgejo never answers again. *)
EveryCallReturns == <>(pc = "returned")
=============================================================================
