--------------------------- MODULE AuthClient_proofs ---------------------------
(***************************************************************************)
(* Proofs about the safety of AuthClient, for any number of calls, any     *)
(* lifetime and any stay on the page.                                      *)
(***************************************************************************)
EXTENDS AuthClient, TLAPS

\* A cookie outlasts the stay on the page.
Reach == \A t \in Token : expires[t] > 0 => until[t] > Start + Span

\* Nobody knows the token of a call whose answer has not arrived.
Fresh == {"idle", "sent", "answered"}
Applied ==
    \A t \in Call :
        jar = t \/ t \in revoked \/ (\E c \in Call : cookie[c] = t) => pc[t] \notin Fresh

\* A POST is answered with the cookie of its own session or with none.
Answers ==
    \A c \in Call : pc[c] = "answered" =>
        /\ answer[c] \in {c, Nobody, Refused}
        /\ kind[c] = "logout" => answer[c] # c

\* What a signOut that the server has carried out leaves behind, and who may still
\* tell of its session.
Gone ==
    /\ \A c \in Call : answer[c] # Refused =>
        /\ pc[c] = "answered" /\ kind[c] = "logout" => ~Live(cookie[c])
        /\ pc[c] = "clearing" =>
            /\ ~Live(cookie[c])
            /\ cookie[c] \in Token => jar # cookie[c]
    /\ \A c \in Call : pc[c] = "fetched" /\ answer[c] \in revoked => c \in late[answer[c]]

\* A call that nothing has disturbed is the only one under way, and knows what
\* the server would say of the cookie.
Quiet ==
    \A c \in alone :
        /\ Active = {c}
        /\ pc[c] = "fetching" =>
            /\ Live(jar) => cookie[c] = jar
            /\ Live(cookie[c]) => cookie[c] = jar
        /\ pc[c] = "fetched" => answer[c] = IF Live(jar) THEN jar ELSE Refused
        /\ pc[c] = "answered" => answer[c] # Refused
        /\ pc[c] = "clearing" => jar = Nobody

IInv == TypeOK /\ Reach /\ Applied /\ Answers /\ Gone /\ Quiet /\ SignedOutForGood

USE DEF Ended, AtServer, Fresh

LEMMA ReachableFromReach == ASSUME TypeOK, Reach PROVE LiveSessionReachable
<1> SUFFICES ASSUME Live(jar) PROVE now < until[jar]
    BY DEF LiveSessionReachable, Sent, Live
<1>1. /\ jar \in Token /\ now < expires[jar]
      /\ now \in Nat /\ now <= Start + Span /\ Start + Span \in Nat
      /\ expires[jar] \in Nat /\ until[jar] \in Nat
    BY ClockAssumption DEF Live, TypeOK
<1>2. until[jar] > Start + Span
    BY <1>1 DEF Reach
<1> QED
    BY <1>1, <1>2

LEMMA InitIInv == Init => IInv
<1> SUFFICES ASSUME Init PROVE IInv
    OBVIOUS
<1>1. PICK left \in 0..Lifetime :
        /\ expires = [t \in Token |->
                IF t = Earlier /\ left > 0 THEN Start + left ELSE 0]
        /\ until = [t \in Token |-> IF t = Earlier THEN CookieExpires(Origin, Origin + Lifetime)
                                 ELSE 0]
    BY DEF Init
<1>2. /\ now = Start /\ Start \in Nat /\ Span \in Nat /\ left \in Nat
      /\ Origin \in Nat /\ Lifetime \in Nat /\ Start + Span < Origin + (Origin + Lifetime)
    BY ClockAssumption DEF Init
<1>3. TypeOK
    BY <1>1, <1>2, NoneAssumption DEF Init, TypeOK, Token, Stage, Kind, CookieExpires
<1>4. Reach
    BY <1>1, <1>2 DEF Reach, CookieExpires
<1>5. Applied /\ Answers /\ Gone /\ Quiet /\ SignedOutForGood
    BY NoneAssumption
       DEF Init, Applied, Answers, Gone, Quiet, SignedOutForGood, Token
<1> QED
    BY <1>3, <1>4, <1>5 DEF IInv

\* What a call whose promise settles leaves behind.
LEMMA EndFacts ==
    ASSUME TypeOK, NEW c \in Call, NEW how \in Ended, End(c, how)
    PROVE  /\ pc'[c] = how /\ kind'[c] = "get" /\ cookie'[c] = Nobody
           /\ answer'[c] = Nobody
           /\ \A d \in Call \ {c} :
                /\ pc'[d] = pc[d] /\ kind'[d] = kind[d] /\ cookie'[d] = cookie[d]
                /\ answer'[d] = answer[d]
           /\ pc' \in [Call -> Stage]
           /\ kind' \in [Call -> Kind]
           /\ cookie' \in [Call -> Token \cup {Nobody}]
           /\ answer' \in [Call -> Token \cup {Nobody, Refused}]
           /\ alone' = alone \ {c}
    BY DEF TypeOK, End, Goto, Stage, Kind

LEMMA BeginStep ==
    ASSUME IInv, NEW c \in Call, NEW k \in Kind, NEW stage \in AtServer,
           Begin(c, k, stage)
    PROVE  IInv'
<1>1. /\ pc[c] = "idle" /\ pc'[c] = stage /\ cookie'[c] = Sent /\ kind'[c] = k
      /\ \A d \in Call \ {c} :
            /\ pc'[d] = pc[d] /\ kind'[d] = kind[d] /\ cookie'[d] = cookie[d]
      /\ alone' = IF Active = {} THEN {c} ELSE {}
      /\ UNCHANGED <<now, expires, until, jar, atom, answer, setter, revoked, late>>
    BY DEF IInv, TypeOK, Begin, Goto, store, done
<1>2. Sent \in {jar, Nobody}
    BY DEF Sent
<1>3. TypeOK'
    BY <1>1, <1>2 DEF IInv, TypeOK, Begin, Goto, Stage
<1>4. Reach'
    BY <1>1 DEF IInv, Reach
<1>5. Applied'
    BY <1>1, <1>2, NoneAssumption DEF IInv, Applied, Token
<1>6. Answers'
    BY <1>1 DEF IInv, Answers
<1>7. Gone'
    BY <1>1 DEF IInv, TypeOK, Gone, Live
<1>8. Quiet'
  <2> SUFFICES ASSUME Active = {}
               PROVE  /\ Active' = {c}
                      /\ pc'[c] = "fetching" =>
                            /\ Live(jar) => cookie'[c] = jar
                            /\ Live(cookie'[c]) => cookie'[c] = jar
    BY <1>1 DEF Quiet, Live
  <2>1. Active' = {c}
    BY <1>1 DEF Active
  <2>2. Live(jar) => cookie'[c] = jar
    BY <1>1, ReachableFromReach DEF IInv, LiveSessionReachable
  <2>3. Live(cookie'[c]) => cookie'[c] = jar
    BY <1>1, <1>2, NoneAssumption DEF Live
  <2> QED
    BY <2>1, <2>2, <2>3
<1>9. SignedOutForGood'
    BY <1>1 DEF IInv, SignedOutForGood, Live
<1> QED
    BY <1>3, <1>4, <1>5, <1>6, <1>7, <1>8, <1>9 DEF IInv

LEMMA RefreshStep == ASSUME IInv, NEW c \in Call, Refresh(c) PROVE IInv'
<1>1. /\ pc[c] = "completed" /\ pc'[c] = "fetching" /\ cookie'[c] = Sent
      /\ \A d \in Call \ {c} : pc'[d] = pc[d] /\ cookie'[d] = cookie[d]
      /\ UNCHANGED <<now, expires, until, jar, atom, kind, answer, setter, alone,
                     revoked, late>>
    BY DEF IInv, TypeOK, Refresh, Goto, store, done
<1>2. Sent \in {jar, Nobody}
    BY DEF Sent
<1>3. TypeOK'
    BY <1>1, <1>2 DEF IInv, TypeOK, Refresh, Goto, Stage
<1>4. Reach'
    BY <1>1 DEF IInv, Reach
<1>5. Applied'
    BY <1>1, <1>2, NoneAssumption DEF IInv, Applied, Token
<1>6. Answers'
    BY <1>1 DEF IInv, Answers
<1>7. Gone'
    BY <1>1 DEF IInv, TypeOK, Gone, Live
<1>8. Quiet'
  <2>1. Active' = Active
    BY <1>1 DEF Active
  <2>2. Live(jar) => cookie'[c] = jar
    BY <1>1, ReachableFromReach DEF IInv, LiveSessionReachable
  <2>3. Live(cookie'[c]) => cookie'[c] = jar
    BY <1>1, <1>2, NoneAssumption DEF Live
  <2>4. c \in Active
    BY <1>1 DEF Active
  <2> QED
    BY <1>1, <2>1, <2>2, <2>3, <2>4 DEF IInv, Quiet, Live
<1>9. SignedOutForGood'
    BY <1>1 DEF IInv, SignedOutForGood, Live
<1> QED
    BY <1>3, <1>4, <1>5, <1>6, <1>7, <1>8, <1>9 DEF IInv

\* The server answers a, and lives and sessions change accordingly: no session
\* comes back to life but a new one, that of c.
Served(c, stage, a) ==
    /\ pc[c] \in AtServer
    /\ stage = IF pc[c] = "sent" THEN "answered" ELSE "fetched"
    /\ Answer(c, stage, a)
    /\ expires' \in [Token -> Nat]
    /\ until' \in [Token -> Nat]
    /\ Reach'
    /\ \A t \in Token : Live(t)' => Live(t) \/ (t = c /\ a = c /\ stage = "answered")
    /\ stage = "answered" =>
        /\ a \in {c, Nobody, Refused}
        /\ kind[c] = "logout" /\ a # Refused => a # c /\ ~Live(cookie[c])'
    /\ stage = "fetched" => a = Refused \/ (a = cookie[c] /\ Live(cookie[c]))
    /\ \/ /\ alone' = alone \ {c}
       \/ /\ alone' = alone
          /\ stage = "answered" => a # Refused
          /\ stage = "fetched" =>
                /\ \A t \in Token : Live(t)' <=> Live(t)
                /\ a = IF Live(cookie[c]) THEN cookie[c] ELSE Refused

LEMMA ServedStep ==
    ASSUME IInv, NEW c \in Call, NEW stage, NEW a, Served(c, stage, a)
    PROVE  IInv'
<1>1. /\ pc[c] \in AtServer /\ pc'[c] = stage /\ answer'[c] = a
      /\ stage = IF pc[c] = "sent" THEN "answered" ELSE "fetched"
      /\ \A d \in Call \ {c} : pc'[d] = pc[d] /\ answer'[d] = answer[d]
      /\ UNCHANGED <<now, jar, atom, kind, cookie, setter, revoked, late>>
    BY DEF Served, Answer, Goto, IInv, TypeOK, done
<1>2. a \in Token \cup {Nobody, Refused}
    BY <1>1, NoneAssumption DEF Served, Token, Live
<1>3. alone' \subseteq alone /\ Active' = Active
  <2>1. Active' = Active
    BY <1>1 DEF Active
  <2> QED
    BY <2>1 DEF Served
<1>4. TypeOK'
  <2>1. /\ pc' \in [Call -> Stage]
        /\ answer' \in [Call -> Token \cup {Nobody, Refused}]
    BY <1>1, <1>2 DEF IInv, TypeOK, Served, Answer, Goto, Stage
  <2> QED
    BY <1>1, <1>3, <2>1 DEF IInv, TypeOK, Served
<1>5. Reach'
    BY DEF Served
<1>6. Applied'
    BY <1>1 DEF IInv, Applied
<1>7. Answers'
    BY <1>1, NoneAssumption DEF IInv, Answers, Served, Token
<1>8. \A t \in Token : ~Live(t) /\ (t \in Call => pc[t] \notin Fresh) => ~Live(t)'
    BY <1>1 DEF Served
<1>9. Gone'
  <2>1. \A d \in Call : ~Live(cookie[d]) => ~Live(cookie[d])'
    BY <1>1, <1>8 DEF IInv, Applied, Live
  <2>2. pc'[c] = "fetched" => answer'[c] \notin revoked
    BY <1>1, NoneAssumption DEF IInv, TypeOK, SignedOutForGood, Served
  <2> QED
    BY <1>1, <2>1, <2>2 DEF IInv, TypeOK, Gone, Served
<1>10. Quiet'
  <2> SUFFICES ASSUME NEW d \in alone'
               PROVE  /\ pc'[d] = "fetching" =>
                            /\ Live(jar)' => cookie[d] = jar
                            /\ Live(cookie[d])' => cookie[d] = jar
                      /\ pc'[d] = "fetched" =>
                            answer'[d] = IF Live(jar)' THEN jar ELSE Refused
                      /\ pc'[d] = "answered" => answer'[d] # Refused
                      /\ pc'[d] = "clearing" => jar = Nobody
    BY <1>1, <1>3 DEF IInv, Quiet
  <2>1. d = c
    BY <1>1, <1>3 DEF IInv, Quiet, Active
  <2>2. alone' = alone /\ c \in alone
    BY <2>1, <1>3 DEF Served
  <2>3. stage = "answered" => a # Refused
    BY <2>2 DEF Served
  <2>4. ASSUME stage = "fetched" PROVE a = IF Live(jar)' THEN jar ELSE Refused
    <3>1. pc[c] = "fetching"
        BY <1>1, <2>4
    <3>2. /\ a = IF Live(cookie[c]) THEN cookie[c] ELSE Refused
          /\ Live(jar)' <=> Live(jar)
        BY <2>2, <2>4, <1>1 DEF Served, Live
    <3>3. Live(jar) <=> Live(cookie[c])
        BY <2>2, <3>1 DEF IInv, Quiet
    <3>4. Live(jar) => cookie[c] = jar
        BY <2>2, <3>1 DEF IInv, Quiet
    <3> QED
        BY <3>2, <3>3, <3>4
  <2> QED
    BY <1>1, <2>1, <2>3, <2>4
<1>11. SignedOutForGood'
    BY <1>1, <1>8 DEF IInv, TypeOK, Applied, SignedOutForGood
<1> QED
    BY <1>4, <1>5, <1>6, <1>7, <1>9, <1>10, <1>11 DEF IInv

LEMMA ServeSessionStep == ASSUME IInv, NEW c \in Call, ServeSession(c) PROVE IInv'
<1>1. /\ pc[c] = "fetching" /\ now' = now /\ alone' = alone /\ until' = until
      /\ now \in Nat /\ Lifetime \in Nat
    BY ClockAssumption DEF ServeSession, Answer, Slide, store, IInv, TypeOK
<1>2. CASE Live(cookie[c]) /\ Slide(cookie[c]) /\ Answer(c, "fetched", cookie[c])
  <2>1. /\ expires' \in [Token -> Nat]
        /\ \A t \in Token : Live(t)' <=> Live(t)
        /\ \A t \in Token : expires'[t] > 0 => expires[t] > 0
    <3>1. cookie[c] \in Token /\ now < expires[cookie[c]]
        BY <1>2 DEF Live
    <3>2. /\ expires'[cookie[c]] \in Nat /\ expires'[cookie[c]] > now
          /\ \A t \in Token \ {cookie[c]} : expires'[t] = expires[t]
          /\ expires' \in [Token -> Nat]
        BY <1>1, <1>2, <3>1, ClockAssumption DEF Slide, IInv, TypeOK
    <3> QED
        BY <1>1, <3>1, <3>2 DEF Live, IInv, TypeOK
  <2>2. Reach'
    BY <1>1, <2>1 DEF Reach, IInv
  <2>3. Served(c, "fetched", cookie[c])
    BY <1>1, <1>2, <2>1, <2>2 DEF Served, IInv, TypeOK
  <2> QED
    BY <2>3, ServedStep
<1>3. CASE ~Live(cookie[c]) /\ UNCHANGED store /\ Answer(c, "fetched", Refused)
  <2>1. Reach' /\ \A t \in Token : Live(t)' <=> Live(t)
    BY <1>1, <1>3 DEF Reach, IInv, Live, store
  <2>2. Served(c, "fetched", Refused)
    BY <1>1, <1>3, <2>1 DEF Served, IInv, TypeOK, store
  <2> QED
    BY <2>2, ServedStep
<1> QED
    BY <1>2, <1>3 DEF ServeSession

LEMMA OpenStep ==
    ASSUME IInv, NEW c \in Call, NEW kept \in SUBSET Token,
           pc[c] = "sent", kind[c] # "logout", Open(c, kept)
    PROVE  IInv'
<1>1. /\ now' = now /\ alone' = alone /\ Answer(c, "answered", c)
      /\ now \in Nat /\ Lifetime \in Nat /\ Lifetime > 0
      /\ Start \in Nat /\ Span \in Nat /\ now + (now + Lifetime) > Start + Span
    BY ClockAssumption DEF Open, Answer, IInv, TypeOK
<1>2. c \in Token /\ c # Refused
    BY NoneAssumption DEF Token
<1>3. /\ expires' \in [Token -> Nat]
      /\ until' \in [Token -> Nat]
      /\ until'[c] = now + (now + Lifetime)
      /\ \A t \in Token \ {c} : expires'[t] \in {expires[t], 0} /\ until'[t] = until[t]
    BY <1>1, <1>2 DEF Open, CookieExpires, IInv, TypeOK
<1>4. Reach'
    BY <1>1, <1>3 DEF Reach, IInv, TypeOK
<1>5. \A t \in Token : Live(t)' => Live(t) \/ t = c
    BY <1>1, <1>3 DEF Live, IInv, TypeOK
<1>6. Served(c, "answered", c)
    BY <1>1, <1>2, <1>3, <1>4, <1>5 DEF Served
<1> QED
    BY <1>6, ServedStep

LEMMA ServeLogoutStep == ASSUME IInv, NEW c \in Call, ServeLogout(c) PROVE IInv'
<1>1. /\ pc[c] = "sent" /\ now' = now /\ alone' = alone /\ until' = until
      /\ Answer(c, "answered", Nobody) /\ Nobody # Refused /\ Nobody # c
    BY NoneAssumption DEF ServeLogout, Answer, Token
<1>2. /\ expires' \in [Token -> Nat]
      /\ \A t \in Token : expires'[t] \in {expires[t], 0}
      /\ Live(cookie[c]) => expires'[cookie[c]] = 0
      /\ now \in Nat
    BY ClockAssumption DEF ServeLogout, Live, IInv, TypeOK
<1>3. Reach'
    BY <1>1, <1>2 DEF Reach, IInv, TypeOK
<1>4. \A t \in Token : Live(t)' => Live(t)
    BY <1>1, <1>2 DEF Live, IInv, TypeOK
<1>5. ~Live(cookie[c])'
  <2>1. cookie' = cookie
    BY <1>1 DEF Answer
  <2> QED
    BY <1>1, <1>2, <1>4, <2>1 DEF Live, IInv, TypeOK
<1>6. Served(c, "answered", Nobody)
    BY <1>1, <1>2, <1>3, <1>4, <1>5 DEF Served, IInv, TypeOK
<1> QED
    BY <1>6, ServedStep

LEMMA RefuseStep == ASSUME IInv, NEW c \in Call, Refuse(c) PROVE IInv'
<1> DEFINE stage == IF pc[c] = "sent" THEN "answered" ELSE "fetched"
<1>1. /\ pc[c] \in AtServer /\ Answer(c, stage, Refused) /\ alone' = alone \ {c}
      /\ now' = now /\ now \in Nat /\ Lifetime \in Nat /\ Lifetime > 0
      /\ until' = until
    BY ClockAssumption DEF Refuse, Answer, Slide, store, IInv, TypeOK
<1>2. /\ expires' \in [Token -> Nat]
      /\ \A t \in Token : Live(t)' => Live(t)
      /\ \A t \in Token : expires'[t] > 0 => expires[t] > 0
  <2>1. CASE UNCHANGED store
    BY <1>1, <2>1 DEF store, Live, IInv, TypeOK
  <2>2. CASE Live(cookie[c]) /\ Slide(cookie[c])
    <3>1. /\ expires' \in [Token -> Nat]
          /\ \A t \in Token \ {cookie[c]} : expires'[t] = expires[t]
          /\ cookie[c] \in Token /\ now < expires[cookie[c]]
        BY <1>1, <2>2 DEF Slide, Live, IInv, TypeOK
    <3> QED
        BY <1>1, <3>1 DEF Live, IInv, TypeOK
  <2> QED
    BY <2>1, <2>2 DEF Refuse
<1>3. Reach'
    BY <1>1, <1>2 DEF Reach, IInv
<1>4. Served(c, stage, Refused)
    BY <1>1, <1>2, <1>3 DEF Served, IInv, TypeOK
<1> QED
    BY <1>4, ServedStep

LEMMA ReceiveSessionStep == ASSUME IInv, NEW c \in Call, ReceiveSession(c) PROVE IInv'
<1>1. /\ pc[c] = "fetched" /\ setter' = c
      /\ atom' = IF answer[c] = Refused THEN Nobody ELSE answer[c]
      /\ UNCHANGED <<now, expires, until, jar, revoked, late>>
      /\ End(c, "done")
    BY DEF ReceiveSession, SetAtom, store, done
<1> USE <1>1, EndFacts DEF IInv
<1>2. TypeOK'
    BY DEF TypeOK
<1>3. Reach' /\ Applied' /\ Answers'
    BY NoneAssumption DEF Reach, Applied, Answers, Token
<1>4. Gone'
    BY DEF TypeOK, Gone, Live
<1>5. Quiet'
    BY DEF Quiet, Active
<1>6. SignedOutForGood'
    BY NoneAssumption DEF SignedOutForGood, Gone, Live, TypeOK
<1> QED
    BY <1>2, <1>3, <1>4, <1>5, <1>6

\* The cookie of an answer is that of a session nobody knows yet, or none.
LEMMA SetCookieFacts ==
    ASSUME IInv, NEW c \in Call, pc[c] = "answered", SetCookie(c)
    PROVE  /\ jar' \in {jar, c, Nobody}
           /\ jar' \in Token \cup {Nobody}
           /\ {c, Nobody} \cap revoked = {}
           /\ \A d \in Call : cookie[d] # c
    BY NoneAssumption
       DEF SetCookie, IInv, TypeOK, Answers, Applied, Gone, Token

LEMMA ReceiveLoginStep == ASSUME IInv, NEW c \in Call, ReceiveLogin(c) PROVE IInv'
<1>1. /\ pc[c] = "answered" /\ SetCookie(c) /\ pc'[c] = "completed"
      /\ \A d \in Call \ {c} : pc'[d] = pc[d]
      /\ pc' \in [Call -> Stage]
      /\ UNCHANGED <<now, expires, until, atom, kind, cookie, answer, setter, alone,
                     revoked, late>>
    BY DEF ReceiveLogin, Goto, store, done, calls, IInv, TypeOK, Stage
<1> USE <1>1, SetCookieFacts DEF IInv
<1>2. TypeOK'
    BY DEF TypeOK
<1>3. Reach' /\ Applied' /\ Answers'
    BY NoneAssumption DEF Reach, Applied, Answers, Token
<1>4. Gone'
    BY NoneAssumption DEF TypeOK, Gone, Live
<1>5. Quiet'
    BY DEF Quiet, Active
<1>6. SignedOutForGood'
    BY DEF SignedOutForGood, Live
<1> QED
    BY <1>2, <1>3, <1>4, <1>5, <1>6

LEMMA ReceiveResultStep == ASSUME IInv, NEW c \in Call, ReceiveResult(c) PROVE IInv'
<1>1. PICK how \in Ended : End(c, how)
    BY DEF ReceiveResult
<1>2. /\ pc[c] = "answered" /\ SetCookie(c)
      /\ UNCHANGED <<now, expires, until, atom, setter, revoked, late>>
    BY DEF ReceiveResult, store, done
<1> USE <1>1, <1>2, EndFacts, SetCookieFacts DEF IInv
<1>3. TypeOK'
    BY DEF TypeOK
<1>4. Reach' /\ Applied' /\ Answers'
    BY NoneAssumption DEF Reach, Applied, Answers, Token
<1>5. Gone'
    BY NoneAssumption DEF TypeOK, Gone, Live
<1>6. Quiet'
    BY DEF Quiet, Active
<1>7. SignedOutForGood'
    BY DEF SignedOutForGood, Live
<1> QED
    BY <1>3, <1>4, <1>5, <1>6, <1>7

LEMMA ReceiveLogoutStep == ASSUME IInv, NEW c \in Call, ReceiveLogout(c) PROVE IInv'
<1>1. /\ pc[c] = "answered" /\ kind[c] = "logout" /\ SetCookie(c) /\ pc'[c] = "clearing"
      /\ \A d \in Call \ {c} : pc'[d] = pc[d]
      /\ pc' \in [Call -> Stage]
      /\ UNCHANGED <<now, expires, until, atom, kind, cookie, answer, setter, alone,
                     revoked, late>>
    BY DEF ReceiveLogout, Goto, store, done, calls, IInv, TypeOK, Stage
<1>2. answer[c] # Refused => jar' = Nobody
    BY <1>1 DEF SetCookie, IInv, Answers
<1> USE <1>1, <1>2, SetCookieFacts DEF IInv
<1>3. TypeOK'
    BY DEF TypeOK
<1>4. Reach' /\ Applied' /\ Answers'
    BY NoneAssumption DEF Reach, Applied, Answers, Token
<1>5. Gone'
    BY NoneAssumption DEF TypeOK, Gone, Live
<1>6. Quiet'
    BY DEF Quiet, Active
<1>7. SignedOutForGood'
    BY DEF SignedOutForGood, Live
<1> QED
    BY <1>3, <1>4, <1>5, <1>6, <1>7

LEMMA ClearAtomStep == ASSUME IInv, NEW c \in Call, ClearAtom(c) PROVE IInv'
<1>1. /\ pc[c] = "clearing" /\ setter' = c /\ atom' = Nobody
      /\ UNCHANGED <<now, expires, until, jar>>
      /\ End(c, "done")
      /\ \/ UNCHANGED <<revoked, late>>
         \/ /\ answer[c] # Refused /\ cookie[c] # Nobody
            /\ revoked' = revoked \cup {cookie[c]}
            /\ late' = [late EXCEPT ![cookie[c]] =
                    {d \in Call : pc[d] = "fetched" /\ answer[d] = cookie[c]}]
    BY DEF ClearAtom, SignedOut, SetAtom, store, done
<1> USE <1>1, EndFacts DEF IInv
<1>2. TypeOK'
    BY DEF TypeOK
<1>3. Reach' /\ Applied' /\ Answers'
    BY NoneAssumption DEF TypeOK, Reach, Applied, Answers, Token
<1>4. Gone'
    BY DEF TypeOK, Gone, Live
<1>5. Quiet'
    BY DEF Quiet, Active
<1>6. SignedOutForGood'
    BY NoneAssumption DEF SignedOutForGood, Gone, Live, TypeOK
<1> QED
    BY <1>2, <1>3, <1>4, <1>5, <1>6

LEMMA LostStep == ASSUME IInv, NEW c \in Call, Lost(c) PROVE IInv'
<1>1. /\ pc[c] \in AtServer \cup {"answered", "fetched"}
      /\ (setter' = c /\ atom' = Nobody) \/ (setter' = setter /\ atom' = atom)
      /\ UNCHANGED <<now, expires, until, jar, revoked, late>>
      /\ End(c, "failed")
    BY DEF Lost, SetAtom, store, done
<1> USE <1>1, EndFacts DEF IInv
<1>2. TypeOK'
    BY DEF TypeOK
<1>3. Reach' /\ Applied' /\ Answers'
    BY NoneAssumption DEF Reach, Applied, Answers, Token
<1>4. Gone'
    BY DEF TypeOK, Gone, Live
<1>5. Quiet'
    BY DEF Quiet, Active
<1>6. SignedOutForGood'
    BY NoneAssumption DEF SignedOutForGood, Gone, Live, TypeOK
<1> QED
    BY <1>2, <1>3, <1>4, <1>5, <1>6

\* Sessions end, by time or by another device.
LEMMA PassingStep ==
    ASSUME IInv, Tick \/ RevokeElsewhere
    PROVE  IInv'
<1>1. /\ UNCHANGED <<until, jar, atom, pc, kind, cookie, answer, setter, revoked, late>>
      /\ now' \in Start..(Start + Span)
      /\ expires' \in [Token -> Nat]
      /\ \A t \in Token : expires'[t] > 0 => expires[t] > 0
      /\ \A t \in Token : Live(t)' => Live(t)
      /\ alone' = {} \/ (alone' = alone /\ \A t \in Token : Live(t)' <=> Live(t))
  <2>1. /\ now \in Nat /\ Start \in Nat /\ Span \in Nat /\ now >= Start
        /\ now <= Start + Span
    BY ClockAssumption DEF IInv, TypeOK
  <2>2. CASE Tick
    BY <2>1, <2>2 DEF Tick, Live, IInv, TypeOK, store, done, calls
  <2>3. CASE RevokeElsewhere
    BY <2>1, <2>3 DEF RevokeElsewhere, Live, IInv, TypeOK, done, calls
  <2> QED
    BY <2>2, <2>3
<1> USE <1>1 DEF IInv
<1>2. TypeOK'
    BY DEF TypeOK
<1>3. Reach' /\ Applied' /\ Answers'
    BY DEF Reach, Applied, Answers
<1>4. \A t : Live(t)' => Live(t)
    BY DEF Live
<1>5. Gone'
    BY <1>4 DEF Gone
<1>6. Quiet'
    BY <1>4 DEF Quiet, Active, Live
<1>7. SignedOutForGood'
    BY <1>4 DEF SignedOutForGood
<1> QED
    BY <1>2, <1>3, <1>5, <1>6, <1>7

LEMMA StutterStep == ASSUME IInv, UNCHANGED vars PROVE IInv'
<1> USE DEF vars, IInv
<1>1. TypeOK' /\ Reach' /\ Applied' /\ Answers'
    BY DEF TypeOK, Reach, Applied, Answers
<1>2. Gone' /\ Quiet' /\ SignedOutForGood'
    BY DEF Gone, Quiet, Active, SignedOutForGood, Live
<1> QED
    BY <1>1, <1>2

LEMMA IInvHolds == Spec => []IInv
<1>1. ASSUME IInv, Next PROVE IInv'
  <2>1. CASE BootFetch
    BY <1>1, <2>1, BeginStep, NoneAssumption DEF BootFetch, Kind
  <2>2. ASSUME NEW c \in Call, GetSession(c) PROVE IInv'
    BY <1>1, <2>2, BeginStep DEF GetSession, Kind
  <2>3. ASSUME NEW c \in Call, Post(c) PROVE IInv'
    BY <1>1, <2>3, BeginStep DEF Post, Kind
  <2>4. ASSUME NEW c \in Call, ServeLogin(c) \/ ServeChange(c) PROVE IInv'
    BY <1>1, <2>4, OpenStep DEF ServeLogin, ServeChange
  <2>5. ASSUME NEW c \in Call, Proceed(c) PROVE IInv'
    BY <1>1, <2>4, <2>5, RefreshStep, ServeSessionStep, ServeLogoutStep, RefuseStep,
       ReceiveSessionStep, ReceiveLoginStep, ReceiveResultStep, ReceiveLogoutStep,
       ClearAtomStep, LostStep DEF Proceed
  <2> QED
    BY <1>1, <2>1, <2>2, <2>3, <2>5, PassingStep DEF Next
<1>2. IInv /\ [Next]_vars => IInv'
    BY <1>1, StutterStep
<1> QED
    BY <1>2, InitIInv, PTL DEF Spec

\* Every variable keeps its type.
THEOREM TypeCorrect == Spec => []TypeOK
<1>1. IInv => TypeOK
    BY DEF IInv
<1> QED
    BY <1>1, IInvHolds, PTL

\* After a signOut its session and cookie are gone for good; only an answer that
\* was on its way when it ended shows the session again.
THEOREM SignedOutForGoodHolds == Spec => []SignedOutForGood
<1>1. IInv => SignedOutForGood
    BY DEF IInv
<1> QED
    BY <1>1, IInvHolds, PTL

\* The cookie of a live session is sent, however often the session slides.
THEOREM LiveSessionReachableHolds == Spec => []LiveSessionReachable
<1>1. IInv => LiveSessionReachable
    BY ReachableFromReach DEF IInv
<1> QED
    BY <1>1, IInvHolds, PTL

\* An undisturbed call leaves the atom in agreement with cookie and server.
THEOREM UndisturbedCallAgreesHolds == Spec => UndisturbedCallAgrees
<1> DEFINE Settles ==
        \A c \in alone : pc'[c] = "done" /\ kind[c] # "change" => Agrees'
<1>1. IInv /\ [Next]_vars => [Settles]_vars
  <2> SUFFICES ASSUME IInv, Next, NEW c \in alone, pc'[c] = "done",
                      kind[c] # "change"
               PROVE  Agrees'
    OBVIOUS
  <2>1. c \in Call /\ pc[c] \notin {"idle", "done", "failed"}
    BY DEF IInv, TypeOK, Quiet, Active
  <2>2. ReceiveSession(c) \/ ClearAtom(c)
    <3>1. ASSUME NEW d \in Call, NEW k, NEW stage \in AtServer, Begin(d, k, stage)
          PROVE  FALSE
        BY <2>1, <3>1 DEF Begin, Goto, IInv, TypeOK
    <3>2. ~BootFetch /\ ~Tick /\ ~RevokeElsewhere
        BY <2>1, <3>1, NoneAssumption DEF BootFetch, Tick, RevokeElsewhere
    <3>3. PICK d \in Call : Proceed(d)
        BY <3>1, <3>2 DEF Next, GetSession, Post
    <3>4. d = c
        <4>1. pc[d] \in Stage \ {"idle", "done", "failed"}
            BY <3>3 DEF Proceed, Refresh, ServeSession, ServeLogin, ServeChange,
               ServeLogout, Refuse, ReceiveSession, ReceiveLogin, ReceiveResult,
               ReceiveLogout, ClearAtom, Lost, IInv, TypeOK
        <4> QED
            BY <4>1 DEF IInv, TypeOK, Quiet, Active
    <3> QED
        BY <2>1, <3>3, <3>4
           DEF Proceed, Refresh, ServeSession, ServeLogin, ServeChange, Open, Answer,
               ServeLogout, Refuse, ReceiveLogin, ReceiveResult, ReceiveLogout, Lost,
               End, Goto, IInv, TypeOK
  <2>3. CASE ReceiveSession(c)
    <3>1. /\ answer[c] = IF Live(jar) THEN jar ELSE Refused
          /\ atom' = IF answer[c] = Refused THEN Nobody ELSE answer[c]
          /\ UNCHANGED <<now, expires, jar>>
        BY <2>3 DEF ReceiveSession, SetAtom, store, IInv, Quiet
    <3>2. Live(jar) => jar # Refused
        BY NoneAssumption DEF Live
    <3> QED
        BY <3>1, <3>2 DEF Agrees, Live
  <2>4. CASE ClearAtom(c)
    <3>1. jar = Nobody /\ atom' = Nobody /\ jar' = jar
        BY <2>4 DEF ClearAtom, SetAtom, IInv, Quiet
    <3> QED
        BY <3>1, NoneAssumption DEF Agrees, Live
  <2> QED
    BY <2>2, <2>3, <2>4
<1> QED
    BY <1>1, IInvHolds, PTL DEF Spec, UndisturbedCallAgrees

----------------------------------------------------------------------------
(* The safe half of pending *)

\* The first fetch leaves the atom undefined only while it is under way.
BootUnderWay ==
    /\ kind[Boot] = "get"
    /\ pc[Boot] \in {"idle", "fetching", "fetched"} \cup Ended
    /\ atom = Undefined => pc[Boot] \in {"idle", "fetching", "fetched"}

\* Once the first fetch of the hook has ended, however it did, the hook is no
\* longer pending (useSession, getSession).
PendingWhileBooting == pc[Boot] \in Ended => atom # Undefined

\* No answer makes it pending again.
NeverPendingAgain == [][atom # Undefined => atom' # Undefined]_vars

\* What sets the atom.
LEMMA AtomStep ==
    ASSUME IInv, [Next]_vars
    PROVE  atom' \in {atom, Nobody} \cup Token
    BY DEF IInv, TypeOK, Next, BootFetch, GetSession, Post, Begin, Proceed, Refresh,
        ServeSession, ServeLogin, ServeChange, ServeLogout, Refuse, Open, Answer,
        ReceiveSession, ReceiveLogin, ReceiveResult, ReceiveLogout, ClearAtom, Lost,
        SetAtom, Tick, RevokeElsewhere, vars

\* The calls but Boot leave its stage alone.
LEMMA OtherCalls ==
    ASSUME IInv, NEW c \in Call \ {Boot},
           GetSession(c) \/ Post(c) \/ Proceed(c)
    PROVE  pc'[Boot] = pc[Boot] /\ kind'[Boot] = kind[Boot]
    BY NoneAssumption
    DEF IInv, TypeOK, GetSession, Post, Begin, Proceed, Refresh,
        ServeSession, ServeLogin, ServeChange, ServeLogout, Refuse, Open, Answer,
        ReceiveSession, ReceiveLogin, ReceiveResult, ReceiveLogout, ClearAtom, Lost,
        SignedOut, End, Goto, calls

LEMMA BootStep ==
    ASSUME IInv, BootUnderWay, [Next]_vars
    PROVE  BootUnderWay'
<1>0. atom # Undefined => atom' # Undefined
    BY AtomStep, NoneAssumption
<1>1. CASE BootFetch
    BY <1>1, NoneAssumption DEF BootFetch, Begin, Goto, BootUnderWay, IInv, TypeOK
<1>2. ASSUME NEW c \in Call \ {Boot}, GetSession(c) \/ Post(c) \/ Proceed(c)
      PROVE  BootUnderWay'
    BY <1>0, <1>2, OtherCalls DEF BootUnderWay
<1>3. CASE Proceed(Boot)
  <2>1. CASE ServeSession(Boot) \/ Refuse(Boot)
      BY <1>0, <2>1, NoneAssumption
      DEF ServeSession, Refuse, Answer, Goto, BootUnderWay, IInv, TypeOK
  <2>2. CASE ReceiveSession(Boot) \/ Lost(Boot)
    <3>1. atom' # Undefined
        BY <2>2, NoneAssumption
        DEF ReceiveSession, Lost, SetAtom, BootUnderWay, IInv, TypeOK
    <3>2. pc'[Boot] \in Ended /\ kind'[Boot] = "get"
        BY <2>2, NoneAssumption DEF ReceiveSession, Lost, End, Goto, IInv, TypeOK
    <3> QED
        BY <3>1, <3>2 DEF BootUnderWay
  <2> QED
      BY <1>3, <2>1, <2>2
      DEF Proceed, BootUnderWay, Refresh, ServeLogin, ServeChange, ServeLogout,
          ReceiveLogin, ReceiveResult, ReceiveLogout, ClearAtom
<1>4. CASE Tick \/ RevokeElsewhere \/ UNCHANGED vars
    BY <1>4 DEF Tick, RevokeElsewhere, vars, calls, BootUnderWay
<1> QED
    BY <1>1, <1>2, <1>3, <1>4 DEF Next, GetSession, Post

\* The hook is pending until its first fetch has ended at most.
THEOREM PendingWhileBootingHolds == Spec => []PendingWhileBooting
<1>1. Init => BootUnderWay
    BY NoneAssumption DEF Init, BootUnderWay
<1>2. IInv /\ BootUnderWay /\ [Next]_vars => BootUnderWay'
    BY BootStep
<1>3. BootUnderWay => PendingWhileBooting
    BY DEF BootUnderWay, PendingWhileBooting
<1> QED
    BY <1>1, <1>2, <1>3, IInvHolds, PTL DEF Spec

\* The hook does not become pending again.
THEOREM NeverPendingAgainHolds == Spec => NeverPendingAgain
<1>1. IInv /\ [Next]_vars => [atom # Undefined => atom' # Undefined]_vars
    BY AtomStep, NoneAssumption
<1> QED
    BY <1>1, IInvHolds, PTL DEF Spec, NeverPendingAgain
=============================================================================
