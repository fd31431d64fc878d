------------------------ MODULE ForgejoClientProofs -------------------------
(* The client keeps the promise of ForgejoCall, however often it tries.    *)
EXTENDS ForgejoClient, TLAPS

USE ForgejoClientAssumption

(* The forms that were offered before are not taken, a refusal says so of  *)
(* the one in use, and a reply tells whether the update has been made.     *)
CallInv ==
  /\ (verdict = "pending") = (pc # "returned")
  /\ accepted \subseteq {schemes[i] : i \in DOMAIN schemes}
  /\ \A i \in 1..(turn - 1) : schemes[i] \notin accepted
  /\ pc = "receive" /\ Refused => schemes[turn] \notin accepted
  /\ op # "put" => updates = 0
  /\ pc \in {"send", "wait", "pause"} => updates = 0
  /\ pc = "receive" /\ (Refused \/ reply = "404") => updates = 0
  /\ pc = "receive" /\ op = "put" /\ reply \in {"200", "cut"} => updates = 1
  /\ pc = "pause" => op = "get" /\ attempt < Attempts

IInv == TypeOK /\ CallInv /\ FailsOnlyInTheEnd
-----------------------------------------------------------------------------
(* Nothing in the proofs but this depends on what the forms are.           *)
LEMMA Forms ==
  /\ WithToken \in Seq({"none", "bearer", "token", "basic"})
  /\ WithoutToken \in Seq({"none", "bearer", "token", "basic"})
  /\ Len(WithToken) = 3 /\ Len(WithoutToken) = 1
BY DEF WithToken, WithoutToken

LEMMA FormsOf ==
  ASSUME schemes \in {WithToken, WithoutToken}
  PROVE  /\ schemes \in Seq({"none", "bearer", "token", "basic"})
         /\ Len(schemes) \in Nat \ {0}
         /\ DOMAIN schemes = 1..Len(schemes)
<1>1. schemes \in Seq({"none", "bearer", "token", "basic"})
  BY Forms
<1>2. Len(schemes) \in {1, 3}
  BY Forms
<1>3. DOMAIN schemes = 1..Len(schemes)
  BY <1>1
<1>4. QED
  BY <1>1, <1>2, <1>3

LEMMA InvInit == Init => IInv
<1> SUFFICES ASSUME Init PROVE IInv
  OBVIOUS
<1> USE DEF Init
<1>1. TypeOK
  <2>1. accepted \subseteq {"none", "bearer", "token", "basic"}
    <3>1. \A i \in 1..Len(schemes) :
            schemes[i] \in {"none", "bearer", "token", "basic"}
      BY FormsOf
    <3>2. accepted \subseteq {schemes[i] : i \in 1..Len(schemes)}
      BY FormsOf
    <3>3. QED
      BY <3>1, <3>2
  <2>2. 1 \in 1..Len(schemes) /\ 1 \in 1..Attempts
    BY FormsOf
  <2>3. there \in BOOLEAN /\ gone \in BOOLEAN
    OBVIOUS
  <2>4. op \in Op /\ schemes \in {WithToken, WithoutToken}
    OBVIOUS
  <2>5. /\ updates = 0 /\ pc = "send" /\ attempt = 1 /\ turn = 1
        /\ reply = "error" /\ verdict = "pending"
    OBVIOUS
  <2> HIDE DEF Init
  <2>6. QED
    BY <2>1, <2>2, <2>3, <2>4, <2>5 DEF TypeOK, Status
<1>2. CallInv
  BY DEF CallInv
<1>3. FailsOnlyInTheEnd
  BY DEF FailsOnlyInTheEnd
<1>4. QED
  BY <1>1, <1>2, <1>3 DEF IInv

(* What happens to Forgejo and the caller.                                 *)
LEMMA WorldStep ==
  ASSUME IInv, Revoke \/ Change \/ Leave
  PROVE  IInv'
<1> USE DEF IInv, forgejo, call
<1>1. TypeOK'
  BY DEF TypeOK, Revoke, Change, Leave
<1>2. CallInv'
  BY DEF CallInv, Refused, Revoke, Change, Leave
<1>3. FailsOnlyInTheEnd'
  BY DEF FailsOnlyInTheEnd, CallInv, Revoke, Change, Leave
<1>4. QED
  BY <1>1, <1>2, <1>3

(* Any answer that tells the truth about the update and the form offered.  *)
LEMMA ReplyStep ==
  ASSUME IInv, NEW status \in Status, Reply(status),
         status \in {"401", "403"} => ~Welcome,
         updates' \in 0..1, op # "put" => updates' = 0,
         status \in {"401", "403", "404"} => updates' = 0,
         status \in {"200", "cut"} /\ op = "put" => updates' = 1
  PROVE  IInv'
<1> USE DEF IInv, Reply
<1>1. TypeOK'
  BY DEF TypeOK
<1>2. CallInv'
  <2>1. pc = "wait" /\ pc' = "receive" /\ reply' = status
    OBVIOUS
  <2>2. UNCHANGED <<accepted, there, op, schemes, attempt, turn, gone, verdict>>
    OBVIOUS
  <2>3. (verdict = "pending") = TRUE
    BY <2>1 DEF CallInv
  <2>4. /\ accepted \subseteq {schemes[i] : i \in DOMAIN schemes}
        /\ \A i \in 1..(turn - 1) : schemes[i] \notin accepted
    BY DEF CallInv
  <2>5. Refused' => schemes[turn] \notin accepted
    BY <2>1 DEF Refused, Welcome
  <2>6. Refused' \/ reply' = "404" => updates' = 0
    BY <2>1 DEF Refused
  <2>7. QED
    BY <2>1, <2>2, <2>3, <2>4, <2>5, <2>6 DEF CallInv
<1>3. FailsOnlyInTheEnd'
  BY DEF FailsOnlyInTheEnd
<1>4. QED
  BY <1>1, <1>2, <1>3

(* Forgejo answers.                                                        *)
LEMMA ServeStep ==
  ASSUME IInv, Serve
  PROVE  IInv'
<1>1. pc = "wait" => updates = 0
  BY DEF IInv, CallInv
<1> USE DEF Status
<1>2. CASE Refuse
  BY <1>1, <1>2, ReplyStep DEF Refuse, Reply
<1>3. CASE Miss
  BY <1>1, <1>3, ReplyStep DEF Miss, Reply
<1>4. CASE Break
  BY <1>1, <1>4, ReplyStep DEF Break, Reply
<1>5. CASE Answer
  BY <1>1, <1>5, ReplyStep DEF Answer, Reply
<1>6. CASE AnswerBroken
  BY <1>1, <1>6, ReplyStep DEF AnswerBroken, Reply
<1>7. QED
  BY <1>2, <1>3, <1>4, <1>5, <1>6 DEF Serve

(* A call that returns leaves what it knows of Forgejo.                    *)
LEMMA ReturnStep ==
  ASSUME IInv, NEW v \in {"ok", "missing", "unauthorized", "unsupported", "failed"},
         Return(v),
         v = "failed" /\ op = "get" /\ ~gone => attempt = Attempts
  PROVE  IInv'
<1> USE DEF IInv, Return, Goto, forgejo
<1>1. TypeOK'
  BY DEF TypeOK
<1>2. CallInv'
  BY DEF TypeOK, CallInv, Refused
<1>3. FailsOnlyInTheEnd'
  BY DEF FailsOnlyInTheEnd
<1>4. QED
  BY <1>1, <1>2, <1>3

(* The end of an attempt.                                                  *)
LEMMA FailStep ==
  ASSUME IInv, Fail, pc \in {"send", "wait", "receive"}
  PROVE  IInv'
<1>1. CASE op = "get" /\ attempt < Attempts
  <2> USE <1>1 DEF IInv, Fail, Goto, forgejo
  <2>1. TypeOK'
    BY DEF TypeOK
  <2>2. updates = 0
    BY DEF CallInv
  <2>3. CallInv'
    BY <2>2 DEF CallInv, Refused
  <2>4. FailsOnlyInTheEnd'
    BY DEF FailsOnlyInTheEnd
  <2>5. QED
    BY <2>1, <2>3, <2>4
<1>2. CASE ~(op = "get" /\ attempt < Attempts)
  <2>1. attempt \in 1..Attempts
    BY DEF IInv, TypeOK
  <2>2. op = "get" => attempt = Attempts
    BY <1>2, <2>1
  <2>3. Return("failed")
    BY <1>2 DEF Fail
  <2>4. QED
    BY <2>2, <2>3, ReturnStep
<1>3. QED
  BY <1>1, <1>2

(* The last form that is offered is refused: none is taken any more.       *)
LEMMA AllRefused ==
  ASSUME IInv, pc = "receive", Refused, turn = Len(schemes)
  PROVE  accepted = {} /\ updates = 0
<1>1. DOMAIN schemes = 1..Len(schemes) /\ Len(schemes) \in Nat
  BY FormsOf DEF IInv, TypeOK
<1>2. \A i \in 1..Len(schemes) : schemes[i] \notin accepted
  BY <1>1 DEF IInv, CallInv
<1>3. QED
  BY <1>1, <1>2 DEF IInv, CallInv

LEMMA ProceedStep ==
  ASSUME IInv, Proceed
  PROVE  IInv'
<1>1. CASE Send
  <2> USE <1>1 DEF IInv, Send, Goto, forgejo
  <2>1. TypeOK'
    BY DEF TypeOK
  <2>2. CallInv'
    BY DEF CallInv, Refused
  <2>3. FailsOnlyInTheEnd'
    BY DEF FailsOnlyInTheEnd
  <2>4. QED
    BY <2>1, <2>2, <2>3
<1>2. CASE SendFails
  BY <1>2, FailStep DEF SendFails
<1>3. CASE NextScheme
  <2> USE <1>3 DEF IInv, NextScheme, Goto, forgejo
  <2>1. turn' \in 1..Len(schemes) /\ turn \in Nat
    BY FormsOf DEF TypeOK
  <2>2. TypeOK'
    BY <2>1 DEF TypeOK
  <2>3. \A i \in 1..(turn' - 1) : schemes[i] \notin accepted
    BY <2>1 DEF CallInv
  <2>4. updates = 0
    BY DEF CallInv
  <2>5. CallInv'
    BY <2>3, <2>4 DEF CallInv, Refused
  <2>6. FailsOnlyInTheEnd'
    BY DEF FailsOnlyInTheEnd, CallInv
  <2>7. QED
    BY <2>2, <2>5, <2>6
<1>4. CASE ReturnUnauthorized
  <2>1. CASE op = "put" /\ reply = "403"
    BY <1>4, <2>1, ReturnStep DEF ReturnUnauthorized
  <2>2. CASE ~(op = "put" /\ reply = "403")
    BY <1>4, <2>2, ReturnStep DEF ReturnUnauthorized
  <2>3. QED
    BY <2>1, <2>2
<1>5. CASE ReturnMissing
  BY <1>5, ReturnStep DEF ReturnMissing
<1>6. CASE ReturnUnsupported
  BY <1>6, ReturnStep DEF ReturnUnsupported
<1>7. CASE ReturnDone
  BY <1>7, ReturnStep DEF ReturnDone
<1>8. CASE ReceiveFailure
  BY <1>8, FailStep DEF ReceiveFailure
<1>9. CASE TryAgain
  <2> USE <1>9 DEF IInv, TryAgain, Goto, forgejo
  <2>1. op = "get" /\ attempt < Attempts /\ updates = 0
    BY DEF CallInv
  <2>2. 1 \in 1..Len(schemes)
    BY FormsOf DEF TypeOK
  <2>3. TypeOK'
    BY <2>1, <2>2 DEF TypeOK
  <2>4. CallInv'
    BY <2>1 DEF CallInv, Refused
  <2>5. FailsOnlyInTheEnd'
    BY <2>1 DEF FailsOnlyInTheEnd, CallInv
  <2>6. QED
    BY <2>3, <2>4, <2>5
<1>10. CASE GiveUp
  BY <1>10, ReturnStep DEF GiveUp
<1>11. QED
  BY <1>1, <1>2, <1>3, <1>4, <1>5, <1>6, <1>7, <1>8, <1>9, <1>10 DEF Proceed

LEMMA InvStep == IInv /\ [Next]_vars => IInv'
<1> SUFFICES ASSUME IInv, [Next]_vars PROVE IInv'
  OBVIOUS
<1>1. CASE Rest \/ UNCHANGED vars
  <2>1. /\ UNCHANGED <<accepted, there, updates, op, schemes>>
        /\ UNCHANGED <<pc, attempt, turn, reply, verdict, gone>>
    BY <1>1 DEF Rest, vars, forgejo, call
  <2>2. TypeOK'
    BY <2>1 DEF IInv, TypeOK
  <2>3. Refused' = Refused
    BY <2>1 DEF Refused
  <2>4. CallInv'
    BY <2>1, <2>3 DEF IInv, CallInv
  <2>5. FailsOnlyInTheEnd'
    BY <2>1 DEF IInv, FailsOnlyInTheEnd
  <2>6. QED
    BY <2>2, <2>4, <2>5 DEF IInv
<1>2. QED
  BY <1>1, WorldStep, ServeStep, ProceedStep DEF Next

LEMMA Invariance == Spec => []IInv
BY InvInit, InvStep, PTL DEF Spec

(* The kinds and ranges of everything a call keeps, in the code the bounds *)
(* of the loops over attempts and forms.                                   *)
THEOREM TypeCorrect == Spec => []TypeOK
<1>1. IInv => TypeOK
  BY DEF IInv
<1>2. QED
  BY <1>1, Invariance, PTL

(* No call of getJSON gives up early, and no other call is repeated.       *)
THEOREM FailsInTheEnd == Spec => []FailsOnlyInTheEnd
<1>1. IInv => FailsOnlyInTheEnd
  BY DEF IInv
<1>2. QED
  BY <1>1, Invariance, PTL
-----------------------------------------------------------------------------
LEMMA PromiseInit == Init => Promise!Init
<1>1. ASSUME Init PROVE Promise!Init
  BY <1>1 DEF Init, Op, Promise!Init
<1>2. QED
  BY <1>1

(* What returns keeps the promise.                                         *)
LEMMA PromiseReturn ==
  ASSUME IInv, NEW v \in {"ok", "missing", "unauthorized", "unsupported", "failed"},
         Return(v), pc # "returned",
         v = "ok" => updates = (IF op = "put" THEN 1 ELSE 0),
         v \in {"missing", "unauthorized"} => updates = 0,
         v = "unauthorized" => accepted = {}
  PROVE  Promise!Next
<1>1. verdict = "pending"
  BY DEF IInv, CallInv
<1>2. Promise!Return(v)
  BY <1>1 DEF Return, Goto, forgejo, Promise!Return
<1>3. QED
  BY <1>2 DEF Promise!Next

LEMMA PromiseFail ==
  ASSUME IInv, Fail, pc # "returned"
  PROVE  Promise!Next \/ UNCHANGED Promise!callVars
<1>1. CASE op = "get" /\ attempt < Attempts
  BY <1>1 DEF Fail, Goto, forgejo, Promise!callVars
<1>2. CASE ~(op = "get" /\ attempt < Attempts)
  BY <1>2, PromiseReturn DEF Fail
<1>3. QED
  BY <1>1, <1>2

LEMMA PromiseWorld ==
  ASSUME IInv, Revoke \/ Change \/ Leave
  PROVE  Promise!Next \/ UNCHANGED Promise!callVars
<1>1. CASE Revoke
  <2>1. Promise!Revoke
    BY <1>1 DEF Revoke, call, Promise!Revoke
  <2>2. QED
    BY <2>1 DEF Promise!Next
<1>2. CASE Change \/ Leave
  BY <1>2 DEF Change, Leave, call, forgejo, Promise!callVars
<1>3. QED
  BY <1>1, <1>2

LEMMA PromiseServe ==
  ASSUME IInv, Serve
  PROVE  Promise!Next \/ UNCHANGED Promise!callVars
<1>1. pc = "wait" => updates = 0 /\ verdict = "pending"
  BY DEF IInv, CallInv
<1>2. CASE (Answer \/ AnswerBroken) /\ op = "put"
  <2>1. Promise!Update
    BY <1>1, <1>2 DEF Answer, AnswerBroken, Welcome, Reply, Promise!Update
  <2>2. QED
    BY <2>1 DEF Promise!Next
<1>3. CASE Refuse \/ Miss \/ Break \/ (Answer /\ op # "put")
  BY <1>3 DEF Refuse, Miss, Break, Answer, Reply, Promise!callVars
<1>4. QED
  BY <1>2, <1>3 DEF Serve, AnswerBroken

LEMMA PromiseProceed ==
  ASSUME IInv, Proceed
  PROVE  Promise!Next \/ UNCHANGED Promise!callVars
<1>1. CASE Send \/ NextScheme \/ TryAgain
  BY <1>1 DEF Send, NextScheme, TryAgain, Goto, forgejo, Promise!callVars
<1>2. CASE SendFails \/ ReceiveFailure
  BY <1>2, PromiseFail DEF SendFails, ReceiveFailure
<1>3. CASE ReturnUnauthorized
  <2>1. accepted = {} /\ updates = 0
    BY <1>3, AllRefused DEF ReturnUnauthorized
  <2>2. CASE op = "put" /\ reply = "403"
    BY <1>3, <2>2, PromiseReturn DEF ReturnUnauthorized
  <2>3. CASE ~(op = "put" /\ reply = "403")
    BY <1>3, <2>1, <2>3, PromiseReturn DEF ReturnUnauthorized
  <2>4. QED
    BY <2>2, <2>3
<1>4. CASE ReturnMissing
  <2>1. updates = 0
    BY <1>4 DEF ReturnMissing, IInv, CallInv
  <2>2. QED
    BY <1>4, <2>1, PromiseReturn DEF ReturnMissing
<1>5. CASE ReturnUnsupported
  BY <1>5, PromiseReturn DEF ReturnUnsupported
<1>6. CASE ReturnDone
  <2>1. updates = (IF op = "put" THEN 1 ELSE 0)
    BY <1>6 DEF ReturnDone, IInv, CallInv
  <2>2. QED
    BY <1>6, <2>1, PromiseReturn DEF ReturnDone
<1>7. CASE GiveUp
  BY <1>7, PromiseReturn DEF GiveUp
<1>8. QED
  BY <1>1, <1>2, <1>3, <1>4, <1>5, <1>6, <1>7 DEF Proceed

(* Whatever Forgejo, the connection and the caller do, a call that is said *)
(* to be done has made its update exactly once, one that is said to be     *)
(* missing or unauthorized has made none, and no call is unauthorized as   *)
(* long as Forgejo takes the token in one of its forms.                    *)
THEOREM KeepsPromise == Spec => ImplementsCall
<1>1. IInv /\ [Next]_vars => [Promise!Next]_Promise!callVars
  <2> SUFFICES ASSUME IInv, [Next]_vars
               PROVE  Promise!Next \/ UNCHANGED Promise!callVars
    OBVIOUS
  <2>1. CASE Rest \/ UNCHANGED vars
    BY <2>1 DEF Rest, vars, forgejo, call, Promise!callVars
  <2>2. QED
    BY <2>1, PromiseWorld, PromiseServe, PromiseProceed DEF Next
<1>2. QED
  BY <1>1, PromiseInit, Invariance, PTL DEF Spec, ImplementsCall, Promise!Spec

-----------------------------------------------------------------------------
(* Nearing the end *)

(* StepsLeft at the place p, in the attempt a, with the form t of n        *)
Ahead(p, a, t, n) ==
  CASE p = "returned" -> 0
    [] p = "pause" -> 1 + 10 * (Attempts - a)
    [] p = "send" -> 4 + 10 * (Attempts - a) + 3 * (n - t)
    [] p = "wait" -> 3 + 10 * (Attempts - a) + 3 * (n - t)
    [] p = "receive" -> 2 + 10 * (Attempts - a) + 3 * (n - t)

Counts ==
  /\ Len(schemes) \in {1, 3}
  /\ attempt \in Nat /\ Attempts \in Nat /\ attempt <= Attempts
  /\ turn \in Nat /\ 1 <= turn /\ turn <= Len(schemes)
  /\ pc \in {"send", "wait", "receive", "pause", "returned"}
  /\ StepsLeft = Ahead(pc, attempt, turn, Len(schemes))

LEMMA CountsHold == TypeOK => Counts
<1> SUFFICES ASSUME TypeOK PROVE Counts
  OBVIOUS
<1>1. Len(schemes) \in {1, 3}
  BY Forms DEF TypeOK
<1>2. /\ attempt \in Nat /\ Attempts \in Nat /\ attempt <= Attempts
      /\ turn \in Nat /\ 1 <= turn /\ turn <= Len(schemes)
      /\ pc \in {"send", "wait", "receive", "pause", "returned"}
  BY <1>1 DEF TypeOK
<1>3. StepsLeft = Ahead(pc, attempt, turn, Len(schemes))
  <2>1. CASE pc \in {"returned", "pause"}
    BY <2>1 DEF StepsLeft, Ahead
  <2> DEFINE a == 10 * (Attempts - attempt)
             s == 3 * (Len(schemes) - turn)
             step == [send |-> 3, wait |-> 2, receive |-> 1]
  <2>2. a \in Int /\ s \in Int
    BY <1>1, <1>2
  <2>3. CASE pc \in {"send", "wait", "receive"}
    <3>1. StepsLeft = 1 + a + s + step[pc]
      BY <2>3 DEF StepsLeft
    <3>2. Ahead(pc, attempt, turn, Len(schemes)) = (1 + step[pc]) + a + s
      BY <2>3 DEF Ahead
    <3>3. step[pc] \in Int
      BY <2>3
    <3> HIDE DEF a, s, step
    <3>4. QED
      BY <2>2, <3>1, <3>2, <3>3
  <2>4. QED
    BY <1>2, <2>1, <2>3
<1>4. QED
  BY <1>1, <1>2, <1>3 DEF Counts

LEMMA ReturnNears ==
  ASSUME Counts, Counts', pc # "returned", pc' = "returned"
  PROVE  StepsLeft' \in 0..(StepsLeft - 1)
<1>1. StepsLeft' = 0
  BY DEF Counts, Ahead
<1>2. StepsLeft \in Nat /\ StepsLeft >= 1
  <2> DEFINE a == Attempts - attempt
             s == Len(schemes) - turn
  <2>1. a \in Nat /\ s \in Nat
    BY DEF Counts
  <2>2. StepsLeft \in {1 + 10 * a, 4 + 10 * a + 3 * s, 3 + 10 * a + 3 * s,
                       2 + 10 * a + 3 * s}
    BY DEF Counts, Ahead
  <2> HIDE DEF a, s
  <2>3. QED
    BY <2>1, <2>2
<1>3. QED
  BY <1>1, <1>2

LEMMA FailNears ==
  ASSUME Counts, Counts', Fail, pc \in {"send", "wait", "receive"}
  PROVE  StepsLeft' \in 0..(StepsLeft - 1)
<1>1. CASE op = "get" /\ attempt < Attempts
  <2>1. pc' = "pause" /\ UNCHANGED <<schemes, attempt, turn>>
    BY <1>1 DEF Fail, Goto
  <2> DEFINE a == Attempts - attempt
             s == Len(schemes) - turn
  <2>2. a \in Nat /\ s \in Nat
    BY DEF Counts
  <2>3. StepsLeft' = 1 + 10 * a
    BY <2>1 DEF Counts, Ahead
  <2>4. StepsLeft \in {4 + 10 * a + 3 * s, 3 + 10 * a + 3 * s, 2 + 10 * a + 3 * s}
    BY DEF Counts, Ahead
  <2> HIDE DEF a, s
  <2>5. QED
    BY <2>2, <2>3, <2>4
<1>2. CASE ~(op = "get" /\ attempt < Attempts)
  BY <1>2, ReturnNears DEF Fail, Return, Goto
<1>3. QED
  BY <1>1, <1>2

LEMMA ProceedNears ==
  ASSUME IInv, Counts, Counts', Proceed
  PROVE  StepsLeft' \in 0..(StepsLeft - 1)
<1>1. CASE Send
  <2>1. pc = "send" /\ pc' = "wait" /\ UNCHANGED <<schemes, attempt, turn>>
    BY <1>1 DEF Send, Goto
  <2> DEFINE a == Attempts - attempt
             s == Len(schemes) - turn
  <2>2. a \in Nat /\ s \in Nat
    BY DEF Counts
  <2>3. StepsLeft = 4 + 10 * a + 3 * s /\ StepsLeft' = 3 + 10 * a + 3 * s
    BY <2>1 DEF Counts, Ahead
  <2> HIDE DEF a, s
  <2>4. QED
    BY <2>2, <2>3
<1>2. CASE SendFails \/ ReceiveFailure
  BY <1>2, FailNears DEF SendFails, ReceiveFailure
<1>3. CASE NextScheme
  <2>1. /\ pc = "receive" /\ pc' = "send" /\ UNCHANGED <<schemes, attempt>>
        /\ turn' = turn + 1
    BY <1>3 DEF NextScheme, Goto
  <2>2. StepsLeft = 2 + 10 * (Attempts - attempt) + 3 * (Len(schemes) - turn)
    BY <2>1 DEF Counts, Ahead
  <2>3. StepsLeft' = 4 + 10 * (Attempts - attempt) + 3 * (Len(schemes) - (turn + 1))
    BY <2>1 DEF Counts, Ahead
  <2>4. turn + 1 <= Len(schemes)
    BY <2>1 DEF Counts
  <2>5. QED
    BY <2>2, <2>3, <2>4 DEF Counts
<1>4. CASE ReturnUnauthorized \/ ReturnMissing \/ ReturnUnsupported \/ ReturnDone \/ GiveUp
  BY <1>4, ReturnNears
  DEF ReturnUnauthorized, ReturnMissing, ReturnUnsupported, ReturnDone, GiveUp,
      Return, Goto
<1>5. CASE TryAgain
  <2>1. /\ pc = "pause" /\ pc' = "send" /\ UNCHANGED schemes
        /\ attempt' = attempt + 1 /\ turn' = 1
    BY <1>5 DEF TryAgain, Goto
  <2>2. StepsLeft = 1 + 10 * (Attempts - attempt)
    BY <2>1 DEF Counts, Ahead
  <2>3. StepsLeft' = 4 + 10 * (Attempts - (attempt + 1)) + 3 * (Len(schemes) - 1)
    BY <2>1 DEF Counts, Ahead
  <2>4. attempt \in Nat /\ Attempts \in Nat /\ attempt + 1 <= Attempts
    BY <2>1 DEF Counts
  <2>5. Len(schemes) = 1 \/ Len(schemes) = 3
    BY DEF Counts
  <2>6. CASE Len(schemes) = 1
    BY <2>2, <2>3, <2>4, <2>6
  <2>7. CASE Len(schemes) = 3
    BY <2>2, <2>3, <2>4, <2>7
  <2>8. QED
    BY <2>5, <2>6, <2>7
<1>6. QED
  BY <1>1, <1>2, <1>3, <1>4, <1>5 DEF Proceed

LEMMA ServeNears ==
  ASSUME Counts, Counts', Serve
  PROVE  StepsLeft' \in 0..(StepsLeft - 1)
<1>1. pc = "wait" /\ pc' = "receive" /\ UNCHANGED <<schemes, attempt, turn>>
  BY DEF Serve, Refuse, Miss, Break, Answer, AnswerBroken, Reply
<1> DEFINE a == Attempts - attempt
           s == Len(schemes) - turn
<1>2. a \in Nat /\ s \in Nat
  BY DEF Counts
<1>3. StepsLeft = 3 + 10 * a + 3 * s /\ StepsLeft' = 2 + 10 * a + 3 * s
  BY <1>1 DEF Counts, Ahead
<1> HIDE DEF a, s
<1>4. QED
  BY <1>2, <1>3

(* The loops over attempts and forms end (getJSON, doWithAuthFallback):    *)
(* with every step the call takes a number from Nat gets smaller, so that  *)
(* a call makes at most three requests for each attempt, for any number of *)
(* attempts and any behaviour of Forgejo and the caller.                   *)
THEOREM LoopsEnd == Spec => NearsItsEnd
<1>1. Counts /\ Counts' /\ IInv /\ [Next]_vars =>
        [StepsLeft' \in 0..(StepsLeft - 1)]_<<pc, attempt, turn>>
  <2> SUFFICES ASSUME Counts, Counts', IInv, [Next]_vars,
                      ~ UNCHANGED <<pc, attempt, turn>>
               PROVE  StepsLeft' \in 0..(StepsLeft - 1)
    OBVIOUS
  <2>1. CASE Revoke \/ Change \/ Leave \/ Rest \/ UNCHANGED vars
    BY <2>1 DEF Revoke, Change, Leave, Rest, vars, call
  <2>2. QED
    BY <2>1, ServeNears, ProceedNears DEF Next
<1>2. IInv => Counts
  BY CountsHold DEF IInv
<1>3. QED
  BY <1>1, <1>2, Invariance, PTL DEF Spec, NearsItsEnd
=============================================================================
