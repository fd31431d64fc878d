---------------------------- MODULE SignInProofs ----------------------------
(* Signing in, for any number of tabs, sign-ins and callbacks.             *)
EXTENDS SignIn, TLAPS

LEMMA BoundsAreNumbers ==
  /\ {StateTTL, SessionTTL, MaxTime, MaxLogins, MaxTries} \subseteq Nat
  /\ Lifetime \subseteq Nat
  /\ 1 \in 1..MaxTries
BY SignInAssumption DEF SignInAssumption

USE BoundsAreNumbers

(* A state belongs to one sign-in that has begun, with the address that    *)
(* its code is for, and a callback only comes for a code.                  *)
LoginsInv ==
  /\ \A s \in states :
       /\ s.login <= logins
       /\ s.begun <= now /\ s.ends = s.begun + StateTTL
       /\ s.origin = codes[s.login].origin
  /\ \A s, u \in states : s.login = u.login => s = u
  /\ \A l \in Login : codes[l].status # "none" => l <= logins
  /\ \A k \in Callback :
       callbacks[k].stage # "none" => codes[k[1]].status # "none"

IInv == TypeOK /\ LoginsInv /\ EachStateOnce /\ SessionsAreSignIns /\ StatesAreRecent
-----------------------------------------------------------------------------
(* EachStateOnce and SessionsAreSignIns, callback by callback *)

Stage(k) == callbacks[k].stage

OnceEach ==
  \A k \in Callback : Stage(k) \in Taken =>
    /\ \A j \in Callback : j[1] = k[1] /\ Stage(j) \in Taken => j = k
    /\ \A s \in states : s.login # k[1]
    /\ callbacks[k].origin = codes[k[1]].origin
    /\ callbacks[k].age <= StateTTL

Proper(session) ==
  /\ codes[session.login].status = "used"
  /\ \E k \in Callback : k[1] = session.login /\ Stage(k) = "answered"

AllProper ==
  /\ cookie # None => Proper(cookie)
  /\ \A content \in answers : content # None => Proper(content)
  /\ \A t \in Tab : requests[t] # None => Proper(requests[t])

LEMMA CallbackParts ==
  /\ \A l \in Login, n \in 1..MaxTries :
       /\ <<l, n>> \in Callback
       /\ <<l, n>>[1] = l /\ <<l, n>>[2] = n
  /\ \A k \in Callback :
       /\ k[1] \in Login /\ k[2] \in 1..MaxTries
       /\ k = <<k[1], k[2]>>
BY DEF Callback

LEMMA OnceByCallback == EachStateOnce <=> OnceEach
<1>1. ASSUME EachStateOnce PROVE OnceEach
  <2> SUFFICES ASSUME NEW k \in Callback, Stage(k) \in Taken
               PROVE  /\ \A j \in Callback : j[1] = k[1] /\ Stage(j) \in Taken => j = k
                      /\ \A s \in states : s.login # k[1]
                      /\ callbacks[k].origin = codes[k[1]].origin
                      /\ callbacks[k].age <= StateTTL
    BY DEF OnceEach
  <2> DEFINE taken == {n \in 1..MaxTries : callbacks[<<k[1], n>>].stage \in Taken}
  <2>1. /\ \A m, n \in taken : m = n
        /\ taken # {} => \A s \in states : s.login # k[1]
        /\ \A n \in taken : /\ callbacks[<<k[1], n>>].origin = codes[k[1]].origin
                            /\ callbacks[<<k[1], n>>].age <= StateTTL
    BY <1>1, CallbackParts DEF EachStateOnce
  <2>2. k[2] \in taken
    BY CallbackParts DEF Stage
  <2>3. ASSUME NEW j \in Callback, j[1] = k[1], Stage(j) \in Taken PROVE j = k
    <3>1. j = <<k[1], j[2]>> /\ j[2] \in 1..MaxTries
      BY <2>3, CallbackParts
    <3>2. j[2] \in taken
      BY <2>3, <3>1 DEF Stage
    <3>3. j[2] = k[2]
      BY <2>1, <2>2, <3>2
    <3>4. QED
      BY <3>1, <3>3, CallbackParts
  <2>4. QED
    BY <2>1, <2>2, <2>3, CallbackParts
<1>2. ASSUME OnceEach PROVE EachStateOnce
  <2> SUFFICES ASSUME NEW l \in Login
               PROVE  LET taken == {n \in 1..MaxTries : callbacks[<<l, n>>].stage \in Taken}
                      IN /\ \A m, n \in taken : m = n
                         /\ taken # {} => \A s \in states : s.login # l
                         /\ \A n \in taken :
                              /\ callbacks[<<l, n>>].origin = codes[l].origin
                              /\ callbacks[<<l, n>>].age <= StateTTL
    BY DEF EachStateOnce
  <2>1. ASSUME NEW n \in 1..MaxTries, callbacks[<<l, n>>].stage \in Taken
        PROVE  /\ \A m \in 1..MaxTries : callbacks[<<l, m>>].stage \in Taken => m = n
               /\ \A s \in states : s.login # l
               /\ callbacks[<<l, n>>].origin = codes[l].origin
               /\ callbacks[<<l, n>>].age <= StateTTL
    <3>1. /\ \A j \in Callback : j[1] = l /\ Stage(j) \in Taken => j = <<l, n>>
          /\ \A s \in states : s.login # l
          /\ callbacks[<<l, n>>].origin = codes[l].origin
          /\ callbacks[<<l, n>>].age <= StateTTL
      BY <1>2, <2>1, CallbackParts DEF OnceEach, Stage
    <3>2. ASSUME NEW m \in 1..MaxTries, callbacks[<<l, m>>].stage \in Taken
          PROVE  m = n
      <4>1. <<l, m>> = <<l, n>>
        BY <3>1, <3>2, CallbackParts DEF Stage
      <4>2. QED
        BY <4>1
    <3>3. QED
      BY <3>1, <3>2
  <2>2. QED
    BY <2>1
<1>3. QED
  BY <1>1, <1>2

LEMMA ProperByPlace ==
  ASSUME TypeOK
  PROVE  SessionsAreSignIns <=> AllProper
<1> DEFINE Good(session) ==
      /\ codes[session.login].status = "used"
      /\ \E n \in 1..MaxTries : callbacks[<<session.login, n>>].stage = "answered"
<1>1. \A session \in Session : Good(session) <=> Proper(session)
  <2> SUFFICES ASSUME NEW session \in Session PROVE Good(session) <=> Proper(session)
    OBVIOUS
  <2>1. session.login \in Login
    BY DEF Session
  <2>2. ASSUME NEW k \in Callback, k[1] = session.login, Stage(k) = "answered"
        PROVE  k[2] \in 1..MaxTries /\ callbacks[<<session.login, k[2]>>].stage = "answered"
    <3>1. k = <<session.login, k[2]>>
      BY <2>2, CallbackParts
    <3>2. QED
      BY <2>2, <3>1, CallbackParts DEF Stage
  <2>3. ASSUME NEW n \in 1..MaxTries, callbacks[<<session.login, n>>].stage = "answered"
        PROVE  \E k \in Callback : k[1] = session.login /\ Stage(k) = "answered"
    BY <2>1, <2>3, CallbackParts DEF Stage
  <2>4. QED
    BY <2>2, <2>3 DEF Proper
<1> DEFINE All == ({cookie} \cup answers \cup {requests[t] : t \in Tab}) \ {None}
<1>2. All \subseteq Session
  BY DEF TypeOK
<1>3. SessionsAreSignIns <=> \A session \in All : Good(session)
  BY DEF SessionsAreSignIns
<1>4. (\A session \in All : Good(session)) <=> (\A session \in All : Proper(session))
  BY <1>1, <1>2
<1>5. (\A session \in All : Proper(session)) <=> AllProper
  BY DEF AllProper
<1>6. QED
  BY <1>3, <1>4, <1>5

IndInv == TypeOK /\ LoginsInv /\ OnceEach /\ AllProper /\ StatesAreRecent

LEMMA SameInvariant == IInv <=> IndInv
BY OnceByCallback, ProperByPlace DEF IInv, IndInv
-----------------------------------------------------------------------------
LEMMA InitInv == Init => IndInv
<1> SUFFICES ASSUME Init PROVE IndInv
  OBVIOUS
<1> USE DEF Init
<1>1. TypeOK
  <2>1. 0 \in 0..MaxTime /\ 0 \in 0..MaxLogins /\ logins = 0
    OBVIOUS
  <2>2. codes \in [Login -> Code]
    BY DEF NoCode, Code
  <2>3. callbacks \in [Callback -> Handler]
    BY DEF NoCallback, Handler
  <2>4. QED
    BY <2>1, <2>2, <2>3 DEF TypeOK
<1>2. LoginsInv
  BY DEF LoginsInv, NoCode, NoCallback
<1>3. OnceEach
  BY DEF OnceEach, Stage, Taken, NoCallback
<1>4. AllProper
  BY DEF AllProper
<1>5. StatesAreRecent
  BY DEF StatesAreRecent
<1>6. QED
  BY <1>1, <1>2, <1>3, <1>4, <1>5 DEF IndInv

(* Lemma: what the states and the callbacks say stays true while they stay, *)
(* and time only goes on.                                                  *)
LEMMA ServerStays ==
  ASSUME IndInv, UNCHANGED <<memory, codes, callbacks>>, now' \in Nat, now <= now'
  PROVE  LoginsInv' /\ OnceEach' /\ StatesAreRecent'
         /\ \A session : Proper(session) <=> Proper(session)'
<1> USE DEF IndInv, memory
<1>1. LoginsInv'
  <2>1. \A s \in states : s.begun \in Nat /\ now \in Nat
    BY DEF TypeOK, State
  <2>2. QED
    BY <2>1 DEF LoginsInv
<1>2. OnceEach'
  BY DEF OnceEach, Stage
<1>3. StatesAreRecent'
  BY DEF StatesAreRecent
<1>4. \A session : Proper(session) <=> Proper(session)'
  BY DEF Proper, Stage
<1>5. QED
  BY <1>1, <1>2, <1>3, <1>4

(* The clock, and the browser by itself.                                   *)
LEMMA BrowserStep ==
  ASSUME IndInv,
         \/ Tick \/ Receive \/ DropCookie \/ Logout
         \/ \E t \in Tab : Deny(t) \/ Send(t) \/ Respond(t)
  PROVE  IndInv'
<1> USE DEF IndInv, memory, browser
<1>1. UNCHANGED <<memory, codes, callbacks>>
  BY DEF Tick, Receive, DropCookie, Logout, Deny, Send, Respond
<1>2. now \in 0..MaxTime /\ now' \in 0..MaxTime /\ now <= now'
  BY DEF TypeOK, Tick, Receive, DropCookie, Logout, Deny, Send, Respond
<1>3. LoginsInv' /\ OnceEach' /\ StatesAreRecent'
      /\ \A session : Proper(session) <=> Proper(session)'
  BY <1>1, <1>2, ServerStays
<1>4. tab' \in [Tab -> 0..logins]
  BY DEF TypeOK, Tick, Receive, DropCookie, Logout, Deny, Send, Respond
<1>5. /\ cookie' \in Session \cup {None}
      /\ answers' \subseteq Session \cup {None}
      /\ requests' \in [Tab -> Session \cup {None}]
  BY DEF TypeOK, Tick, Receive, DropCookie, Logout, Deny, Send, Respond
<1>6. TypeOK'
  BY <1>1, <1>2, <1>4, <1>5 DEF TypeOK
<1>7. /\ cookie' # None => Proper(cookie')
      /\ \A content \in answers' : content # None => Proper(content)
      /\ \A t \in Tab : requests'[t] # None => Proper(requests'[t])
  BY DEF TypeOK, AllProper, Tick, Receive, DropCookie, Logout, Deny, Send, Respond
<1>8. AllProper'
  BY <1>3, <1>7 DEF AllProper
<1>9. QED
  BY <1>3, <1>6, <1>8

LEMMA BeginLoginStep ==
  ASSUME IndInv, NEW t \in Tab, BeginLogin(t)
  PROVE  IndInv'
<1> USE DEF IndInv
<1>1. PICK origin \in Origin :
        /\ StoreState([login |-> logins', begun |-> now, ends |-> now + StateTTL,
                       origin |-> origin])
        /\ codes' = [codes EXCEPT ![logins'].origin = origin]
  BY DEF BeginLogin
<1> DEFINE new == [login |-> logins', begun |-> now, ends |-> now + StateTTL,
                   origin |-> origin]
<1>2. /\ logins \in Nat /\ logins' = logins + 1 /\ logins' \in Login
      /\ now \in 0..MaxTime /\ now \in Nat
  BY DEF BeginLogin, TypeOK, Login
<1>3. new \in State
  BY <1>2 DEF State
<1>4. states' \subseteq states \cup {new} /\ \A u \in states' \ {new} : now <= u.ends
  BY <1>1 DEF StoreState
<1>5. /\ UNCHANGED <<now, callbacks, cookie, requests, answers>>
      /\ tab' = [tab EXCEPT ![t] = logins']
  BY DEF BeginLogin
<1>6. /\ codes' \in [Login -> Code]
      /\ \A l \in Login : codes'[l].status = codes[l].status
      /\ \A l \in 1..logins : codes'[l] = codes[l]
      /\ codes'[logins'].origin = origin
  BY <1>1, <1>2 DEF TypeOK, Code
<1>7. \A s \in states : s.login \in 1..logins /\ s.begun \in Nat /\ s.login \in Login
  BY <1>2 DEF TypeOK, State, Login, LoginsInv
<1>8. TypeOK'
  <2>1. tab' \in [Tab -> 0..logins']
    BY <1>2, <1>5 DEF TypeOK
  <2>2. logins' \in 0..MaxLogins
    BY <1>2 DEF Login
  <2>3. QED
    BY <1>3, <1>4, <1>5, <1>6, <2>1, <2>2 DEF TypeOK
<1>9. LoginsInv'
  <2>1. ASSUME NEW s \in states' PROVE /\ s.login <= logins'
                                       /\ s.begun <= now /\ s.ends = s.begun + StateTTL
                                       /\ s.origin = codes'[s.login].origin
    <3>1. CASE s = new
      BY <1>2, <1>6, <3>1
    <3>2. CASE s \in states
      BY <1>2, <1>6, <1>7, <3>2 DEF LoginsInv
    <3>3. QED
      BY <1>4, <3>1, <3>2
  <2>2. ASSUME NEW s \in states', NEW u \in states', s.login = u.login PROVE s = u
    <3>1. \A v \in states : v.login # new.login
      BY <1>2, <1>7
    <3>2. QED
      BY <1>4, <2>2, <3>1 DEF LoginsInv
  <2>3. \A l \in Login : codes'[l].status # "none" => l <= logins'
    BY <1>2, <1>6 DEF LoginsInv, Login
  <2>4. \A k \in Callback : callbacks'[k].stage # "none" => codes'[k[1]].status # "none"
    BY <1>5, <1>6, CallbackParts DEF LoginsInv
  <2>5. QED
    BY <1>5, <2>1, <2>2, <2>3, <2>4 DEF LoginsInv
<1>10. OnceEach'
  <2> SUFFICES ASSUME NEW k \in Callback, Stage(k) \in Taken
               PROVE  /\ \A j \in Callback : j[1] = k[1] /\ Stage(j) \in Taken => j = k
                      /\ \A s \in states' : s.login # k[1]
                      /\ callbacks[k].origin = codes'[k[1]].origin
                      /\ callbacks[k].age <= StateTTL
    BY <1>5 DEF OnceEach, Stage
  <2>1. k[1] \in 1..logins
    <3>1. callbacks[k].stage # "none"
      BY DEF Stage, Taken
    <3>2. k[1] \in Login /\ k[1] <= logins
      BY <3>1, CallbackParts DEF LoginsInv
    <3>3. QED
      BY <1>2, <3>2 DEF Login
  <2>2. QED
    BY <1>2, <1>4, <1>6, <2>1 DEF OnceEach
<1>11. AllProper'
  <2>1. \A session \in Session : Proper(session) => Proper(session)'
    BY <1>5, <1>6 DEF Proper, Stage, Session
  <2>2. QED
    BY <1>5, <2>1 DEF AllProper, TypeOK
<1>12. StatesAreRecent'
  <2> SUFFICES ASSUME NEW s \in states', NEW u \in states' PROVE u.begun <= s.ends
    BY DEF StatesAreRecent
  <2>1. now <= s.ends /\ s.ends \in Nat
    <3>1. CASE s = new
      BY <1>2, <3>1
    <3>2. CASE s # new
      BY <1>2, <1>4, <3>2 DEF TypeOK, State
    <3>3. QED
      BY <3>1, <3>2
  <2>2. u.begun <= now /\ u.begun \in Nat
    BY <1>2, <1>4, <1>7 DEF LoginsInv
  <2>3. QED
    BY <1>2, <2>1, <2>2
<1>13. QED
  BY <1>8, <1>9, <1>10, <1>11, <1>12

(* Lemma: a code for a callback, and a callback that has not yet looked at *)
(* its state, change nothing that is said of states and sessions.          *)
LEMMA AskStep ==
  ASSUME IndInv, NEW k \in Callback, k[1] <= logins,
         Stage(k) = "none" \/ codes[k[1]].status = "none",
         callbacks' = [callbacks EXCEPT ![k].stage = "asked"],
         codes' \in [Login -> Code], codes'[k[1]].status # "none",
         codes'[k[1]].status = codes[k[1]].status \/ codes[k[1]].status = "none",
         \A l \in Login : codes'[l].origin = codes[l].origin,
         \A l \in Login \ {k[1]} : codes'[l] = codes[l],
         UNCHANGED <<now, memory, browser>>
  PROVE  IndInv'
<1> USE DEF IndInv, memory, browser
<1>1. Stage(k) = "none"
  BY DEF LoginsInv, Stage
<1>2. callbacks \in [Callback -> Handler] /\ codes \in [Login -> Code]
  BY DEF TypeOK
<1>3. /\ callbacks' \in [Callback -> Handler]
      /\ \A j \in Callback \ {k} : callbacks'[j] = callbacks[j]
      /\ callbacks'[k].stage = "asked"
  BY <1>2 DEF Handler
<1>4. TypeOK'
  BY <1>3 DEF TypeOK
<1>5. LoginsInv'
  <2>1. \A s \in states : s.login \in Login
    BY DEF TypeOK, State
  <2>2. \A l \in Login : codes'[l].status # "none" => l <= logins
    BY DEF LoginsInv
  <2>3. \A j \in Callback : callbacks'[j].stage # "none" => codes'[j[1]].status # "none"
    BY <1>3, CallbackParts DEF LoginsInv
  <2>4. QED
    BY <2>1, <2>2, <2>3 DEF LoginsInv
<1>6. OnceEach'
  <2>1. \A j \in Callback : Stage(j)' \in Taken => j # k /\ Stage(j) \in Taken
    BY <1>3 DEF Stage, Taken
  <2>2. \A j \in Callback \ {k} : callbacks'[j] = callbacks[j]
    BY <1>3
  <2>3. QED
    BY <2>1, <2>2, CallbackParts DEF OnceEach, Stage
<1>7. AllProper'
  <2>1. ASSUME NEW session, session.login \in Login, Proper(session) PROVE Proper(session)'
    <3>1. PICK j \in Callback : j[1] = session.login /\ Stage(j) = "answered"
      BY <2>1 DEF Proper
    <3>2. j # k /\ Stage(j)' = "answered"
      BY <1>1, <1>3, <3>1 DEF Stage
    <3>3. codes'[session.login].status = "used"
      BY <2>1 DEF Proper
    <3>4. QED
      BY <3>1, <3>2, <3>3 DEF Proper
  <2>2. \A session \in Session : Proper(session) => Proper(session)'
    BY <2>1 DEF Session
  <2>3. QED
    BY <2>2 DEF AllProper, TypeOK
<1>8. StatesAreRecent'
  BY DEF StatesAreRecent
<1>9. QED
  BY <1>4, <1>5, <1>6, <1>7, <1>8

LEMMA AgreeStep ==
  ASSUME IndInv, NEW t \in Tab, Agree(t)
  PROVE  IndInv'
<1> DEFINE k == <<tab[t], 1>>
<1>1. tab[t] \in 0..logins /\ tab[t] # 0 /\ logins \in 0..MaxLogins
      /\ codes \in [Login -> Code]
  BY DEF IndInv, TypeOK, Agree
<1>2. tab[t] \in Login /\ tab[t] <= logins
  BY <1>1 DEF Login
<1>3. k \in Callback /\ k[1] = tab[t]
  BY <1>2, CallbackParts
<1>4. /\ codes[k[1]].status = "none"
      /\ codes' = [codes EXCEPT ![k[1]].status = "good"]
      /\ callbacks' = [callbacks EXCEPT ![k].stage = "asked"]
      /\ UNCHANGED <<now, memory, browser>>
  BY <1>3 DEF Agree
<1>5. /\ codes' \in [Login -> Code] /\ codes'[k[1]].status # "none"
      /\ \A l \in Login : codes'[l].origin = codes[l].origin
      /\ \A l \in Login \ {k[1]} : codes'[l] = codes[l]
  BY <1>1, <1>2, <1>3, <1>4 DEF Code
<1>6. QED
  BY <1>2, <1>3, <1>4, <1>5, AskStep

LEMMA ReloadStep ==
  ASSUME IndInv, NEW t \in Tab, Reload(t)
  PROVE  IndInv'
<1>1. PICK n \in 2..MaxTries :
        /\ callbacks[<<tab[t], n>>].stage = "none"
        /\ callbacks' = [callbacks EXCEPT ![<<tab[t], n>>].stage = "asked"]
  BY DEF Reload
<1> DEFINE k == <<tab[t], n>>
<1>2. tab[t] \in 0..logins /\ tab[t] # 0 /\ logins \in 0..MaxLogins
      /\ codes \in [Login -> Code]
  BY DEF IndInv, TypeOK, Reload
<1>3. tab[t] \in Login /\ tab[t] <= logins
  BY <1>2 DEF Login
<1>4. k \in Callback /\ k[1] = tab[t]
  BY <1>3, CallbackParts
<1>5. codes' = codes /\ codes[k[1]].status # "none" /\ UNCHANGED <<now, memory, browser>>
  BY <1>4 DEF Reload
<1>6. Stage(k) = "none"
  BY <1>1 DEF Stage
<1>7. QED
  BY <1>1, <1>2, <1>3, <1>4, <1>5, <1>6, AskStep
-----------------------------------------------------------------------------
(* Lemma: a handler that has looked at the state of its callback, has an   *)
(* exchange behind it, or gives up, as long as it is the only one that is  *)
(* past the state.                                                         *)
LEMMA HandlerStep ==
  ASSUME IndInv, NEW k \in Callback, Stage(k) \in {"asked", "exchange"},
         NEW new \in Handler, new.stage # "none",
         callbacks' = [callbacks EXCEPT ![k] = new],
         new.stage \in Taken =>
           /\ new.origin = codes[k[1]].origin /\ new.age <= StateTTL
           /\ \A s \in states' : s.login # k[1]
           /\ \A j \in Callback : j[1] = k[1] /\ Stage(j) \in Taken => j = k,
         states' \subseteq states,
         codes' \in [Login -> Code],
         \A l \in Login : codes'[l].origin = codes[l].origin,
         \A l \in Login : codes'[l].status = codes[l].status
                         \/ (l = k[1] /\ codes'[l].status = "used"),
         answers' \subseteq Session \cup {None},
         \A content \in answers' \ answers :
           content.login = k[1] /\ new.stage = "answered" /\ codes'[k[1]].status = "used",
         UNCHANGED <<now, logins, tab, cookie, requests>>
  PROVE  IndInv'
<1> USE DEF IndInv
<1>1. /\ callbacks \in [Callback -> Handler] /\ codes \in [Login -> Code]
      /\ k[1] \in Login
  BY CallbackParts DEF TypeOK
<1>2. /\ callbacks' \in [Callback -> Handler]
      /\ \A j \in Callback \ {k} : callbacks'[j] = callbacks[j]
      /\ callbacks'[k] = new
  BY <1>1
<1>3. codes[k[1]].status # "none" /\ k[1] <= logins
  BY <1>1 DEF LoginsInv, Stage
<1>4. \A l \in Login : (codes[l].status # "none") = (codes'[l].status # "none")
  BY <1>3
<1>5. TypeOK'
  BY <1>2 DEF TypeOK
<1>6. LoginsInv'
  <2>1. \A s \in states' : s.login \in Login
    BY DEF TypeOK, State
  <2>2. \A l \in Login : codes'[l].status # "none" => l <= logins
    BY <1>4 DEF LoginsInv
  <2>3. \A j \in Callback : callbacks'[j].stage # "none" => codes'[j[1]].status # "none"
    BY <1>2, <1>3, <1>4, CallbackParts DEF LoginsInv
  <2>4. QED
    BY <2>1, <2>2, <2>3 DEF LoginsInv
<1>7. OnceEach'
  <2> SUFFICES ASSUME NEW i \in Callback, Stage(i)' \in Taken
               PROVE  /\ \A j \in Callback : j[1] = i[1] /\ Stage(j)' \in Taken => j = i
                      /\ \A s \in states' : s.login # i[1]
                      /\ callbacks'[i].origin = codes'[i[1]].origin
                      /\ callbacks'[i].age <= StateTTL
    BY DEF OnceEach
  <2>1. CASE i = k
    <3>1. new.stage \in Taken
      BY <1>2, <2>1 DEF Stage
    <3>2. \A j \in Callback : j[1] = k[1] /\ Stage(j)' \in Taken => j = k
      BY <1>2, <3>1 DEF Stage
    <3>3. QED
      BY <1>1, <1>2, <2>1, <3>1, <3>2
  <2>2. CASE i # k
    <3>1. Stage(i) \in Taken /\ callbacks'[i] = callbacks[i] /\ i[1] \in Login
      BY <1>2, <2>2, CallbackParts DEF Stage
    <3>2. /\ \A j \in Callback : j[1] = i[1] /\ Stage(j) \in Taken => j = i
          /\ \A s \in states : s.login # i[1]
          /\ callbacks[i].origin = codes[i[1]].origin
          /\ callbacks[i].age <= StateTTL
      BY <3>1 DEF OnceEach
    <3>3. ASSUME NEW j \in Callback, j[1] = i[1], Stage(j)' \in Taken PROVE j = i
      <4>1. CASE j = k
        <5>1. new.stage \in Taken
          BY <1>2, <3>3, <4>1 DEF Stage
        <5>2. i = k
          BY <3>1, <3>3, <4>1, <5>1
        <5>3. QED
          BY <2>2, <5>2
      <4>2. CASE j # k
        BY <1>2, <3>2, <3>3, <4>2 DEF Stage
      <4>3. QED
        BY <4>1, <4>2
    <3>4. QED
      BY <3>1, <3>2, <3>3
  <2>3. QED
    BY <2>1, <2>2
<1>8. AllProper'
  <2>1. ASSUME NEW session, session.login \in Login, Proper(session) PROVE Proper(session)'
    <3>1. PICK j \in Callback : j[1] = session.login /\ Stage(j) = "answered"
      BY <2>1 DEF Proper
    <3>2. j # k /\ Stage(j)' = "answered"
      BY <1>2, <3>1 DEF Stage
    <3>3. codes'[session.login].status = "used"
      BY <2>1 DEF Proper
    <3>4. QED
      BY <3>1, <3>2, <3>3 DEF Proper
  <2>2. \A session \in Session : Proper(session) => Proper(session)'
    BY <2>1 DEF Session
  <2>3. \A content \in answers' \ answers : Proper(content)'
    BY <1>2 DEF Proper, Stage
  <2>4. QED
    BY <2>2, <2>3 DEF AllProper, TypeOK
<1>9. StatesAreRecent'
  BY DEF StatesAreRecent
<1>10. QED
  BY <1>5, <1>6, <1>7, <1>8, <1>9

LEMMA CheckStateStep ==
  ASSUME IndInv, NEW k \in Callback, CheckState(k)
  PROVE  IndInv'
<1>1. /\ callbacks[k] \in Handler /\ callbacks[k].stage = "asked"
      /\ codes \in [Login -> Code] /\ answers \subseteq Session \cup {None}
      /\ UNCHANGED <<now, logins, codes, tab, cookie, requests, answers>>
  BY DEF IndInv, TypeOK, CheckState, browser
<1>2. CASE ConsumeState(k)
  <2>1. PICK s \in states : /\ s.login = k[1]
                            /\ Live(s) /\ Advance(k, Exchange(s))
                            /\ states' = states \ {s}
    BY <1>2 DEF ConsumeState, StatesOf
  <2> DEFINE new == Exchange(s)
  <2>2. s.origin \in Origin /\ s.origin = codes[k[1]].origin
    BY <2>1 DEF IndInv, TypeOK, State, LoginsInv
  <2>3. now - s.begun \in 0..MaxTime /\ now - s.begun <= StateTTL
    <3>1. s.begun \in 0..MaxTime /\ now \in 0..MaxTime
      BY <2>1 DEF IndInv, TypeOK, State
    <3>2. s.begun <= now /\ s.ends = s.begun + StateTTL /\ now <= s.ends
      BY <2>1 DEF IndInv, LoginsInv, Live
    <3>3. QED
      BY <3>1, <3>2
  <2>4. /\ new \in Handler /\ new.stage = "exchange"
        /\ new.origin = codes[k[1]].origin /\ new.age <= StateTTL
    BY <2>2, <2>3 DEF Handler, Exchange
  <2>5. \A u \in states' : u.login # k[1]
    BY <2>1 DEF IndInv, LoginsInv
  <2>6. \A j \in Callback : j[1] = k[1] => Stage(j) \notin Taken
    BY <2>1 DEF IndInv, OnceEach
  <2>7. callbacks' = [callbacks EXCEPT ![k] = new]
    BY <2>1 DEF Advance
  <2> HIDE DEF new
  <2>8. QED
    BY <1>1, <2>1, <2>4, <2>5, <2>6, <2>7, HandlerStep DEF Stage
<1>3. CASE RefuseState(k)
  <2> DEFINE new == [callbacks[k] EXCEPT !.stage = "refused"]
  <2>1. new \in Handler /\ new.stage = "refused"
    BY <1>1 DEF Handler
  <2>2. callbacks' = [callbacks EXCEPT ![k] = new] /\ states' \subseteq states
    BY <1>3 DEF RefuseState, Advance
  <2> HIDE DEF new
  <2>3. QED
    BY <1>1, <2>1, <2>2, HandlerStep DEF Stage, Taken
<1>4. QED
  BY <1>2, <1>3 DEF CheckState

(* Lemma: a handler with an exchange is past the state already.            *)
LEMMA ExchangeIsAlone ==
  ASSUME IndInv, NEW k \in Callback, Stage(k) = "exchange"
  PROVE  /\ callbacks[k].origin = codes[k[1]].origin
         /\ callbacks[k].age <= StateTTL
         /\ \A s \in states : s.login # k[1]
         /\ \A j \in Callback : j[1] = k[1] /\ Stage(j) \in Taken => j = k
BY DEF IndInv, OnceEach, Taken

LEMMA ExchangeStep ==
  ASSUME IndInv, NEW k \in Callback, ExchangeCode(k)
  PROVE  IndInv'
<1> DEFINE new == [callbacks[k] EXCEPT !.stage = "answered"]
<1>1. /\ callbacks[k] \in Handler /\ Stage(k) = "exchange"
      /\ codes \in [Login -> Code] /\ answers \subseteq Session \cup {None}
      /\ k[1] \in Login /\ now \in Nat
      /\ UNCHANGED <<now, logins, states, tab, cookie, requests>>
      /\ codes' = [codes EXCEPT ![k[1]].status = "used"]
      /\ callbacks' = [callbacks EXCEPT ![k] = new]
  BY CallbackParts DEF IndInv, TypeOK, ExchangeCode, Stage, Advance, memory
<1>2. /\ new \in Handler /\ new.stage = "answered"
      /\ new.origin = callbacks[k].origin /\ new.age = callbacks[k].age
  BY <1>1 DEF Handler
<1>3. PICK life \in Lifetime :
        answers' = answers \cup
          {[login |-> k[1], ends |-> now + (IF life > 0 THEN life ELSE SessionTTL)]}
  BY DEF ExchangeCode
<1>4. now + (IF life > 0 THEN life ELSE SessionTTL) \in Nat
  BY <1>1
<1>5. /\ answers' \subseteq Session \cup {None}
      /\ \A content \in answers' \ answers : content.login = k[1]
  BY <1>1, <1>3, <1>4 DEF Session
<1>6. /\ codes' \in [Login -> Code] /\ codes'[k[1]].status = "used"
      /\ \A l \in Login : codes'[l].origin = codes[l].origin
      /\ \A l \in Login : codes'[l].status = codes[l].status
                          \/ (l = k[1] /\ codes'[l].status = "used")
  BY <1>1 DEF Code
<1>7. /\ new.origin = codes[k[1]].origin /\ new.age <= StateTTL
      /\ \A s \in states' : s.login # k[1]
      /\ \A j \in Callback : j[1] = k[1] /\ Stage(j) \in Taken => j = k
  BY <1>1, <1>2, ExchangeIsAlone
<1>8. states' \subseteq states /\ new.stage # "none" /\ Stage(k) \in {"asked", "exchange"}
  BY <1>1, <1>2
<1> HIDE DEF new
<1>9. QED
  BY <1>1, <1>2, <1>5, <1>6, <1>7, <1>8, HandlerStep

LEMMA FailExchangeStep ==
  ASSUME IndInv, NEW k \in Callback, FailExchange(k)
  PROVE  IndInv'
<1> DEFINE new == [callbacks[k] EXCEPT !.stage = "failed"]
<1>1. /\ callbacks[k] \in Handler /\ Stage(k) = "exchange"
      /\ codes \in [Login -> Code] /\ answers \subseteq Session \cup {None}
      /\ k[1] \in Login
      /\ UNCHANGED <<now, logins, states, tab, cookie, requests, answers>>
      /\ callbacks' = [callbacks EXCEPT ![k] = new]
  BY CallbackParts DEF IndInv, TypeOK, FailExchange, Stage, Advance, memory, browser
<1>2. /\ new \in Handler /\ new.stage = "failed"
      /\ new.origin = callbacks[k].origin /\ new.age = callbacks[k].age
  BY <1>1 DEF Handler
<1>3. PICK status \in {codes[k[1]].status, "used"} :
        codes' = [codes EXCEPT ![k[1]].status = status]
  BY DEF FailExchange
<1>4. /\ codes' \in [Login -> Code]
      /\ \A l \in Login : codes'[l].origin = codes[l].origin
      /\ \A l \in Login : codes'[l].status = codes[l].status
                          \/ (l = k[1] /\ codes'[l].status = "used")
  BY <1>1, <1>3 DEF Code
<1> HIDE DEF new
<1>5. QED
  BY <1>1, <1>2, <1>4, ExchangeIsAlone, HandlerStep

LEMMA RestartStep ==
  ASSUME IndInv, Restart
  PROVE  IndInv'
<1> USE DEF IndInv
<1>1. callbacks \in [Callback -> Handler] /\ states' = {}
      /\ UNCHANGED <<now, logins, codes, tab, cookie, answers>>
  BY DEF TypeOK, Restart
<1>2. /\ callbacks' \in [Callback -> Handler]
      /\ \A k \in Callback :
           \/ callbacks'[k] = callbacks[k]
           \/ /\ callbacks'[k].stage = "lost"
              /\ callbacks[k].stage \in {"asked", "exchange"}
  BY <1>1 DEF Restart, Handler
<1>3. requests' \in [Tab -> Session \cup {None}] /\ \A t \in Tab : requests'[t] = None
  BY DEF Restart
<1>4. TypeOK'
  BY <1>1, <1>2, <1>3 DEF TypeOK
<1>5. LoginsInv'
  BY <1>1, <1>2 DEF LoginsInv
<1>6. \A k \in Callback : Stage(k)' \in Taken =>
        Stage(k) \in Taken /\ callbacks'[k] = callbacks[k]
  BY <1>2 DEF Stage, Taken
<1>7. OnceEach'
  BY <1>1, <1>6 DEF OnceEach
<1>8. \A session : Proper(session) => Proper(session)'
  BY <1>1, <1>2 DEF Proper, Stage
<1>9. AllProper'
  BY <1>1, <1>3, <1>8 DEF AllProper
<1>10. StatesAreRecent'
  BY <1>1 DEF StatesAreRecent
<1>11. QED
  BY <1>4, <1>5, <1>7, <1>9, <1>10

LEMMA StutterStep ==
  ASSUME IndInv, UNCHANGED vars
  PROVE  IndInv'
<1> USE DEF IndInv, vars, memory, browser
<1>1. TypeOK'
  BY DEF TypeOK
<1>2. LoginsInv' /\ OnceEach' /\ StatesAreRecent'
  BY DEF LoginsInv, OnceEach, Stage, StatesAreRecent
<1>3. AllProper'
  BY DEF AllProper, Proper, Stage
<1>4. QED
  BY <1>1, <1>2, <1>3
-----------------------------------------------------------------------------
(* Theorem: the inductive invariant holds in every reachable state.        *)
THEOREM Invariance == Spec => []IInv
<1>1. Init => IndInv
  BY InitInv
<1>2. IndInv /\ [Next]_vars => IndInv'
  <2> SUFFICES ASSUME IndInv, [Next]_vars PROVE IndInv'
    OBVIOUS
  <2>1. ASSUME NEW t \in Tab,
               BeginLogin(t) \/ Agree(t) \/ Deny(t) \/ Reload(t) \/ Send(t) \/ Respond(t)
        PROVE  IndInv'
    BY <2>1, BeginLoginStep, AgreeStep, ReloadStep, BrowserStep
  <2>2. ASSUME NEW k \in Callback, CheckState(k) \/ ExchangeCode(k) \/ FailExchange(k)
        PROVE  IndInv'
    BY <2>2, CheckStateStep, ExchangeStep, FailExchangeStep
  <2>3. CASE Tick \/ Receive \/ DropCookie \/ Logout
    BY <2>3, BrowserStep
  <2>4. CASE Restart
    BY <2>4, RestartStep
  <2>5. CASE UNCHANGED vars
    BY <2>5, StutterStep
  <2>6. QED
    BY <2>1, <2>2, <2>3, <2>4, <2>5 DEF Next
<1>3. IndInv => IInv
  BY SameInvariant
<1>4. QED
  BY <1>1, <1>2, <1>3, PTL DEF Spec

(* Theorem: every reachable state has the types of TypeOK.                 *)
THEOREM TypeCorrect == Spec => []TypeOK
<1>1. IInv => TypeOK
  BY DEF IInv
<1>2. QED
  BY <1>1, Invariance, PTL

(* Theorem: a sign-in is good for one exchange, however often its callback *)
(* is sent, and however often the server restarts (Manager.consumeState).  *)
THEOREM StatesAreConsumed == Spec => []EachStateOnce
<1>1. IInv => EachStateOnce
  BY DEF IInv
<1>2. QED
  BY <1>1, Invariance, PTL

(* Theorem: every session goes back to a callback that was answered and to *)
(* a code that is used up (Manager.handleCallback).                        *)
THEOREM SessionsAreEarned == Spec => []SessionsAreSignIns
<1>1. IInv => SessionsAreSignIns
  BY DEF IInv
<1>2. QED
  BY <1>1, Invariance, PTL

(* Theorem: the states that are kept are those of one StateTTL             *)
(* (Manager.storeState).                                                   *)
THEOREM StatesAreSwept == Spec => []StatesAreRecent
<1>1. IInv => StatesAreRecent
  BY DEF IInv
<1>2. QED
  BY <1>1, Invariance, PTL
=============================================================================
