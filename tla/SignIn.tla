------------------------------- MODULE SignIn -------------------------------
(***************************************************************************)
(* How a browser signs in with Forgejo and stays signed in                 *)
(* (src/internal/auth/manager.go, session.go): the server remembers the    *)
(* states of sign-ins that have begun, and nothing else; a session is a    *)
(* sealed cookie with the token, the same for all tabs of the browser.     *)
(* Callbacks are repeated by a reload, exchanges fail, answers come late,  *)
(* and the server restarts with the same secret.                           *)
(***************************************************************************)
EXTENDS Integers

CONSTANTS
  Tab,
  Origin,      (* addresses that the headers of a request may name *)
  Lifetime,    (* what Forgejo may say of a token's life; 0: nothing *)
  StateTTL, SessionTTL,
  MaxTime,     (* bound: the clock *)
  MaxLogins,   (* bound: sign-ins *)
  MaxTries,    (* bound: how often a callback is sent *)
  None

ASSUME SignInAssumption ==
  /\ {StateTTL, SessionTTL, MaxTime, MaxLogins} \cup Lifetime \subseteq Nat
  /\ MaxTries \in Nat \ {0}

VARIABLES
  now,
  logins,      (* sign-ins begun, each with a state of its own *)
  states,      (* Manager.states *)
  tab,         (* the sign-in that a tab is at *)
  codes,       (* Forgejo: the code for a sign-in, and the address it is for *)
  callbacks,   (* the handlers of callbacks *)
  cookie,      (* the browser's session, or None *)
  requests,    (* requests of tabs, with the cookie they were sent with *)
  answers      (* new contents for the cookie, on their way to the browser *)

memory == <<logins, states>>
browser == <<tab, cookie, requests, answers>>
vars == <<now, memory, codes, callbacks, browser>>

Login == 1..MaxLogins
Callback == Login \X (1..MaxTries)

NoCode == [status |-> "none", origin |-> None]
NoCallback == [stage |-> "none", origin |-> None, age |-> 0]

State == [login : Login, begun : 0..MaxTime, ends : 0..MaxTime + StateTTL,
          origin : Origin]
Code == [status : {"none", "good", "used"}, origin : Origin \cup {None}]
Handler == [stage : {"none", "asked", "refused", "exchange", "failed", "answered",
                     "lost"},
            origin : Origin \cup {None},
            age : 0..MaxTime]   (* history: of the sign-in, at its exchange *)
Session == [login : Login, ends : Nat]

TypeOK ==
  /\ now \in 0..MaxTime
  /\ logins \in 0..MaxLogins
  /\ states \subseteq State
  /\ tab \in [Tab -> 0..logins]
  /\ codes \in [Login -> Code]
  /\ callbacks \in [Callback -> Handler]
  /\ cookie \in Session \cup {None}
  /\ requests \in [Tab -> Session \cup {None}]
  /\ answers \subseteq Session \cup {None}

Init ==
  /\ now = 0
  /\ logins = 0 /\ states = {}
  /\ tab = [t \in Tab |-> 0]
  /\ codes = [l \in Login |-> NoCode]
  /\ callbacks = [k \in Callback |-> NoCallback]
  /\ cookie = None
  /\ requests = [t \in Tab |-> None]
  /\ answers = {}

Tick ==
  /\ now < MaxTime
  /\ now' = now + 1
  /\ UNCHANGED <<memory, codes, callbacks, browser>>
-----------------------------------------------------------------------------
(* handleLogin *)

(* Variant: states that have ended are kept. *)
StoreStateOnly(s) == states' = states \cup {s}

(* storeState: those that have ended make room. *)
StoreState(s) == states' = {u \in states : now <= u.ends} \cup {s}

(* Variant: the address is not kept. *)
BeginLoginUnaddressed(t) ==
  /\ logins < MaxLogins
  /\ logins' = logins + 1
  /\ \E origin \in Origin :
       /\ StoreState([login |-> logins', begun |-> now, ends |-> now + StateTTL,
                      origin |-> None])
       /\ codes' = [codes EXCEPT ![logins'].origin = origin]
  /\ tab' = [tab EXCEPT ![t] = logins']
  /\ UNCHANGED <<now, callbacks, cookie, requests, answers>>

(* The callback's address is that of the request, as its headers name it.  *)
BeginLogin(t) ==
  /\ logins < MaxLogins
  /\ logins' = logins + 1
  /\ \E origin \in Origin :
       /\ StoreState([login |-> logins', begun |-> now, ends |-> now + StateTTL,
                      origin |-> origin])
       /\ codes' = [codes EXCEPT ![logins'].origin = origin]
  /\ tab' = [tab EXCEPT ![t] = logins']
  /\ UNCHANGED <<now, callbacks, cookie, requests, answers>>
-----------------------------------------------------------------------------
(* Forgejo and the browser *)

(* The user agrees, and the browser is sent to the callback with a code.   *)
Agree(t) ==
  /\ tab[t] # 0 /\ codes[tab[t]].status = "none"
  /\ codes' = [codes EXCEPT ![tab[t]].status = "good"]
  /\ callbacks' = [callbacks EXCEPT ![<<tab[t], 1>>].stage = "asked"]
  /\ UNCHANGED <<now, memory, browser>>

(* Without a code the callback is refused, and the state is kept.          *)
Deny(t) ==
  /\ tab[t] # 0 /\ codes[tab[t]].status = "none"
  /\ tab' = [tab EXCEPT ![t] = 0]
  /\ UNCHANGED <<now, memory, codes, callbacks, cookie, requests, answers>>

(* The browser sends the callback once more. *)
Reload(t) ==
  /\ tab[t] # 0 /\ codes[tab[t]].status # "none"
  /\ \E n \in 2..MaxTries :
       /\ callbacks[<<tab[t], n>>].stage = "none"
       /\ callbacks' = [callbacks EXCEPT ![<<tab[t], n>>].stage = "asked"]
  /\ UNCHANGED <<now, memory, codes, browser>>

Receive ==
  /\ \E content \in answers :
       /\ cookie' = content
       /\ answers' = answers \ {content}
  /\ UNCHANGED <<now, memory, codes, callbacks, tab, requests>>

(* The browser drops a cookie at its end. *)
DropCookie ==
  /\ cookie # None /\ now > cookie.ends
  /\ cookie' = None
  /\ UNCHANGED <<now, memory, codes, callbacks, tab, requests, answers>>
-----------------------------------------------------------------------------
(* handleCallback *)

Advance(k, new) == callbacks' = [callbacks EXCEPT ![k] = new]

StatesOf(k) == {s \in states : s.login = k[1]}
Live(s) == now <= s.ends

Exchange(s) == [stage |-> "exchange", origin |-> s.origin, age |-> now - s.begun]

(* Variant: whether the state has ended is not looked at. *)
ConsumeStateLate(k) ==
  \E s \in StatesOf(k) :
    /\ Advance(k, Exchange(s))
    /\ states' = states \ {s}

(* The state is taken out whether it is good or not; the exchange uses the *)
(* address that it was begun with.                                         *)
ConsumeState(k) ==
  \E s \in StatesOf(k) :
    /\ Live(s)
    /\ Advance(k, Exchange(s))
    /\ states' = states \ {s}

RefuseState(k) ==
  /\ \A s \in StatesOf(k) : ~Live(s)
  /\ Advance(k, [callbacks[k] EXCEPT !.stage = "refused"])
  /\ states' = states \ StatesOf(k)

CheckState(k) ==
  /\ callbacks[k].stage = "asked"
  /\ ConsumeState(k) \/ RefuseState(k)
  /\ UNCHANGED <<now, logins, codes, browser>>

(* Forgejo takes a code once, with the address that it was issued for; the *)
(* cookie ends with the token, or after SessionTTL if Forgejo says nothing *)
(* of the token's life.                                                    *)
ExchangeCode(k) ==
  /\ callbacks[k].stage = "exchange"
  /\ codes[k[1]] = [status |-> "good", origin |-> callbacks[k].origin]
  /\ codes' = [codes EXCEPT ![k[1]].status = "used"]
  /\ Advance(k, [callbacks[k] EXCEPT !.stage = "answered"])
  /\ \E life \in Lifetime :
       answers' = answers \cup
         {[login |-> k[1], ends |-> now + (IF life > 0 THEN life ELSE SessionTTL)]}
  /\ UNCHANGED <<now, memory, tab, cookie, requests>>

(* Variant: the error is not looked at. *)
FailExchangeUnseen(k) ==
  /\ callbacks[k].stage = "exchange"
  /\ Advance(k, [callbacks[k] EXCEPT !.stage = "answered"])
  /\ answers' = answers \cup {[login |-> k[1], ends |-> now + SessionTTL]}
  /\ UNCHANGED <<now, memory, codes, tab, cookie, requests>>

(* The answer to an exchange may be lost after the code has been used.     *)
FailExchange(k) ==
  /\ callbacks[k].stage = "exchange"
  /\ Advance(k, [callbacks[k] EXCEPT !.stage = "failed"])
  /\ \E status \in {codes[k[1]].status, "used"} :
       codes' = [codes EXCEPT ![k[1]].status = status]
  /\ UNCHANGED <<now, memory, browser>>
-----------------------------------------------------------------------------
(* The other handlers *)

Send(t) ==
  /\ requests[t] = None /\ cookie # None
  /\ requests' = [requests EXCEPT ![t] = cookie]
  /\ UNCHANGED <<now, memory, codes, callbacks, tab, cookie, answers>>

(* Middleware: a session that has ended is cleared, whatever the browser   *)
(* has by the time that the answer arrives.                                *)
Respond(t) ==
  /\ requests[t] # None
  /\ requests' = [requests EXCEPT ![t] = None]
  /\ answers' = IF now > requests[t].ends THEN answers \cup {None} ELSE answers
  /\ UNCHANGED <<now, memory, codes, callbacks, tab, cookie>>

Logout ==
  /\ cookie # None
  /\ answers' = answers \cup {None}
  /\ UNCHANGED <<now, memory, codes, callbacks, tab, cookie, requests>>

(* States and handlers are lost; sessions are not, for the secret is kept. *)
Restart ==
  /\ states' = {}
  /\ callbacks' = [k \in Callback |->
       IF callbacks[k].stage \in {"asked", "exchange"}
       THEN [callbacks[k] EXCEPT !.stage = "lost"] ELSE callbacks[k]]
  /\ requests' = [t \in Tab |-> None]
  /\ UNCHANGED <<now, logins, codes, tab, cookie, answers>>
-----------------------------------------------------------------------------
Next ==
  \/ Tick \/ Receive \/ DropCookie \/ Logout \/ Restart
  \/ \E t \in Tab :
       BeginLogin(t) \/ Agree(t) \/ Deny(t) \/ Reload(t) \/ Send(t) \/ Respond(t)
  \/ \E k \in Callback :
       CheckState(k) \/ ExchangeCode(k) \/ FailExchange(k)

Spec == Init /\ [][Next]_vars
-----------------------------------------------------------------------------
Taken == {"exchange", "failed", "answered"}

(* A sign-in is good for one exchange: however often its callback is sent, *)
(* at most one of them gets past the state, no later than StateTTL after   *)
(* the sign-in began; that one sends Forgejo the address it began with.    *)
EachStateOnce ==
  \A l \in Login :
    LET taken == {n \in 1..MaxTries : callbacks[<<l, n>>].stage \in Taken}
    IN /\ \A m, n \in taken : m = n
       /\ taken # {} => \A s \in states : s.login # l
       /\ \A n \in taken : /\ callbacks[<<l, n>>].origin = codes[l].origin
                           /\ callbacks[<<l, n>>].age <= StateTTL

(* Whatever the browser has for a session, or is about to get, comes from  *)
(* a callback that was answered, of a sign-in that the user agreed to, and *)
(* whose code is used up.                                                  *)
SessionsAreSignIns ==
  \A session \in ({cookie} \cup answers \cup {requests[t] : t \in Tab}) \ {None} :
    /\ codes[session.login].status = "used"
    /\ \E n \in 1..MaxTries : callbacks[<<session.login, n>>].stage = "answered"

(* The states that are kept are those of one StateTTL: none of them had    *)
(* ended when another sign-in began.                                       *)
StatesAreRecent == \A s, u \in states : u.begun <= s.ends
=============================================================================
