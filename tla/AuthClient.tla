------------------------------ MODULE AuthClient ------------------------------
(***************************************************************************)
(* The TypeScript client (src/clients/packages/client/src/index.ts) with   *)
(* the React hook (clients/packages/react/src/index.ts), the session       *)
(* cookie it relies on and the routes it calls: GET /session, login,       *)
(* register or email-otp/verify, change-password and logout.               *)
(*                                                                         *)
(* One user agent of one identity: a cookie and the $session atom, shared  *)
(* by calls whose requests and answers the network may delay, reorder and  *)
(* lose.  A route is one step here: its own steps are those of modules     *)
(* Session and PasswordChange.  A session token is named by the call that  *)
(* obtains it; a login that needs another factor, or fails, is refused.    *)
(***************************************************************************)
EXTENDS Naturals

CONSTANTS
    Call,     \* calls of the client
    Boot,     \* the one that the hook makes on mount
    Earlier,  \* the session token of an earlier visit
    Nobody,   \* no token: no cookie, an empty answer, the anonymous null
    Refused,  \* an answer that is not ok
    Undefined,\* the atom before any answer
    Lifetime, \* of a session
    Origin,   \* the epoch second of the login of the earlier visit
    Start,    \* that at which the page is opened
    Span      \* how long it stays open

Token == Call \cup {Earlier}

ASSUME NoneAssumption ==
    /\ Boot \in Call
    /\ Earlier \notin Call
    /\ {Nobody, Refused, Undefined} \cap Token = {}
    /\ Nobody # Refused /\ Refused # Undefined /\ Undefined # Nobody

\* From the earlier login to the end of this visit less time passes than from the
\* epoch to the end of a session opened at that login.
ASSUME ClockAssumption ==
    /\ Lifetime \in Nat \ {0}
    /\ {Origin, Start, Span} \subseteq Nat
    /\ Origin <= Start
    /\ Start + Span < Origin + (Origin + Lifetime)

VARIABLES
    now,     \* get_current_timestamp()
    expires, \* expires_at of the session of a token, 0 when it has no row
    until,   \* the Expires date of its cookie
    jar,     \* the session cookie the user agent holds
    atom,    \* whose session $session holds
    pc,      \* where each call stands
    kind,    \* what it is: "get", "login", "change" or "logout"
    cookie,  \* the token it was last sent with
    answer,  \* what the server has answered it
    setter,  \* history: the call that set the atom last
    alone,   \* history: the call under way that nothing has disturbed
    revoked, \* history: tokens that a signOut was sent with
    late     \* history: calls told of a token when the signOut of it ended

store == <<expires, until>>
calls == <<kind, cookie, answer>>
done == <<revoked, late>>
vars == <<now, expires, until, jar, atom, pc, kind, cookie, answer, setter,
          alone, revoked, late>>

Ended == {"done", "failed"}
AtServer == {"sent", "fetching"}
Stage == {"idle"} \cup Ended \cup AtServer \cup
         {"answered", "fetched", "completed", "clearing"}
Kind == {"get", "login", "change", "logout"}
Active == {c \in Call : pc[c] \notin {"idle"} \cup Ended}

\* Mutation of CookieExpires: the cookie gets the date of the session.
CookieExpiresWithSession(time, at) == at

\* set_cookie is given expires_at as an integer, which http.cookies takes for
\* seconds from the time at which the cookie is set.
CookieExpires(time, at) == time + at

Init ==
    /\ now = Start
    /\ \E left \in 0..Lifetime :
        expires = [t \in Token |-> IF t = Earlier /\ left > 0 THEN Start + left ELSE 0]
    /\ until = [t \in Token |->
            IF t = Earlier THEN CookieExpires(Origin, Origin + Lifetime) ELSE 0]
    /\ jar \in {Earlier, Nobody}
    /\ atom = Undefined
    /\ pc = [c \in Call |-> "idle"]
    /\ kind = [c \in Call |-> "get"]
    /\ cookie = [c \in Call |-> Nobody]
    /\ answer = [c \in Call |-> Nobody]
    /\ setter = Boot
    /\ alone = {}
    /\ revoked = {}
    /\ late = [t \in Token |-> {}]

----------------------------------------------------------------------------
Goto(c, stage) == pc' = [pc EXCEPT ![c] = stage]

\* The promise of c resolves or rejects; what it remembers is dropped.
End(c, how) ==
    /\ Goto(c, how)
    /\ kind' = [kind EXCEPT ![c] = "get"]
    /\ cookie' = [cookie EXCEPT ![c] = Nobody]
    /\ answer' = [answer EXCEPT ![c] = Nobody]
    /\ alone' = alone \ {c}

\* The session exists and is not expired.
Live(t) == t \in Token /\ now < expires[t]

(* The browser sends a request *)

\* The cookie goes along until its date.
Sent == IF jar \in Token /\ now < until[jar] THEN jar ELSE Nobody

Begin(c, k, stage) ==
    /\ pc[c] = "idle"
    /\ Goto(c, stage)
    /\ cookie' = [cookie EXCEPT ![c] = Sent]
    /\ alone' = IF Active = {} THEN {c} ELSE {}
    /\ kind' = [kind EXCEPT ![c] = k]
    /\ UNCHANGED <<now, store, jar, atom, answer, setter, done>>

\* useEffect: the first fetch, made once and only while the atom is undefined.
BootFetch == atom = Undefined /\ Begin(Boot, "get", "fetching")

\* getSession(), or refetch() of the hook.
GetSession(c) == c # Boot /\ Begin(c, "get", "fetching")

\* jsonPost() of signIn.password, signIn.emailOtp.verify or signUp.password, of
\* changePassword, and the fetch of signOut.
Post(c) == c # Boot /\ \E k \in Kind \ {"get"} : Begin(c, k, "sent")

\* A login that is complete goes on with getSession().
Refresh(c) ==
    /\ pc[c] = "completed"
    /\ Goto(c, "fetching")
    /\ cookie' = [cookie EXCEPT ![c] = Sent]
    /\ UNCHANGED <<now, store, jar, atom, kind, answer, setter, alone, done>>

----------------------------------------------------------------------------
(* The server answers *)

Answer(c, stage, a) ==
    /\ Goto(c, stage)
    /\ answer' = [answer EXCEPT ![c] = a]
    /\ UNCHANGED <<now, jar, atom, kind, cookie, setter, done>>

\* get_by_token() extends a session past half its lifetime; the cookie is not
\* set again.
Slide(t) ==
    /\ expires' = [expires EXCEPT ![t] =
            IF 2 * (@ - now) < Lifetime THEN now + Lifetime ELSE @]
    /\ UNCHANGED until

\* current_session of GET /session.
ServeSession(c) ==
    /\ pc[c] = "fetching"
    /\ \/ /\ Live(cookie[c])
          /\ Slide(cookie[c])
          /\ Answer(c, "fetched", cookie[c])
       \/ /\ ~Live(cookie[c])
          /\ UNCHANGED store
          /\ Answer(c, "fetched", Refused)
    /\ UNCHANGED alone

\* A new session, whose token is the answer; only the sessions of kept stay.
Open(c, kept) ==
    /\ expires' = [t \in Token |-> IF t = c THEN now + Lifetime
                                   ELSE IF t \in kept THEN expires[t] ELSE 0]
    /\ until' = [until EXCEPT ![c] = CookieExpires(now, now + Lifetime)]
    /\ Answer(c, "answered", c)
    /\ UNCHANGED alone

\* The login routes open a session, whatever cookie came along.
ServeLogin(c) ==
    /\ pc[c] = "sent" /\ kind[c] = "login"
    /\ Open(c, Token)

\* change-password revokes every session of the identity and opens another.
ServeChange(c) ==
    /\ pc[c] = "sent" /\ kind[c] = "change"
    /\ Live(cookie[c])
    /\ Open(c, {})

\* Mutation of ServeLogout: the cookie is cleared, the session is kept.
ServeLogoutKeep(c) ==
    /\ pc[c] = "sent" /\ kind[c] = "logout"
    /\ Answer(c, "answered", Nobody)
    /\ UNCHANGED <<store, alone>>

\* logout deletes the session of the cookie unless it has expired, and clears the
\* cookie whether there was one or not.
ServeLogout(c) ==
    /\ pc[c] = "sent" /\ kind[c] = "logout"
    /\ expires' = [t \in Token |-> IF t = cookie[c] /\ Live(t) THEN 0 ELSE expires[t]]
    /\ Answer(c, "answered", Nobody)
    /\ UNCHANGED <<until, alone>>

\* A wrong password, also that of a change whose session has just been extended;
\* no session, another factor that is due, or an error of the server or of the
\* proxy before it.
Refuse(c) ==
    /\ pc[c] \in AtServer
    /\ Answer(c, IF pc[c] = "sent" THEN "answered" ELSE "fetched", Refused)
    /\ alone' = alone \ {c}
    /\ \/ UNCHANGED store
       \/ kind[c] = "change" /\ Live(cookie[c]) /\ Slide(cookie[c])

----------------------------------------------------------------------------
(* The answer reaches the browser, or does not *)

SetAtom(c, value) == atom' = value /\ setter' = c

\* Mutation of ReceiveSession: response.ok is not looked at.
ReceiveSessionUnchecked(c) ==
    /\ pc[c] = "fetched"
    /\ SetAtom(c, answer[c])
    /\ End(c, "done")
    /\ UNCHANGED <<now, store, jar, done>>

\* getSession() stores what it was told: the session, or null.
ReceiveSession(c) ==
    /\ pc[c] = "fetched"
    /\ SetAtom(c, IF answer[c] = Refused THEN Nobody ELSE answer[c])
    /\ End(c, "done")
    /\ UNCHANGED <<now, store, jar, done>>

\* A POST is answered with a Set-Cookie, or is refused.
SetCookie(c) == jar' = IF answer[c] = Refused THEN jar ELSE answer[c]

\* The answer to loginRequest: getSession() is next.
ReceiveLogin(c) ==
    /\ pc[c] = "answered" /\ kind[c] = "login" /\ answer[c] # Refused
    /\ SetCookie(c)
    /\ Goto(c, "completed")
    /\ UNCHANGED <<now, store, atom, calls, setter, alone, done>>

\* changePassword leaves the atom alone, and any POST but signOut returns the
\* error of a refusal.
ReceiveResult(c) ==
    /\ pc[c] = "answered"
    /\ \/ kind[c] = "change" /\ End(c, "done")
       \/ kind[c] = "login" /\ answer[c] = Refused /\ End(c, "failed")
    /\ SetCookie(c)
    /\ UNCHANGED <<now, store, atom, setter, done>>

\* signOut does not look at the status of the answer.
ReceiveLogout(c) ==
    /\ pc[c] = "answered" /\ kind[c] = "logout"
    /\ SetCookie(c)
    /\ Goto(c, "clearing")
    /\ UNCHANGED <<now, store, atom, calls, setter, alone, done>>

\* signOut is through: the server has done its part unless it refused.
SignedOut(c) ==
    /\ End(c, "done")
    /\ IF answer[c] = Refused \/ cookie[c] = Nobody THEN UNCHANGED done
       ELSE /\ revoked' = revoked \cup {cookie[c]}
            /\ late' = [late EXCEPT ![cookie[c]] =
                    {d \in Call : pc[d] = "fetched" /\ answer[d] = cookie[c]}]

\* Mutation of ClearAtom: signOut leaves the state to the next refetch.
ClearAtomNot(c) ==
    /\ pc[c] = "clearing"
    /\ SignedOut(c)
    /\ UNCHANGED <<now, store, jar, atom, setter>>

\* The last line of signOut.
ClearAtom(c) ==
    /\ pc[c] = "clearing"
    /\ SetAtom(c, Nobody)
    /\ SignedOut(c)
    /\ UNCHANGED <<now, store, jar>>

\* Mutation of Lost: getSession() has no catch.
LostUncaught(c) ==
    /\ pc[c] \in AtServer \cup {"answered", "fetched"}
    /\ End(c, "failed")
    /\ UNCHANGED <<now, store, jar, atom, setter, done>>

\* The request or its answer is lost, fetch() rejects: getSession() catches it,
\* the other calls let it through.
Lost(c) ==
    /\ \/ pc[c] \in {"fetching", "fetched"} /\ SetAtom(c, Nobody)
       \/ pc[c] \in {"sent", "answered"} /\ UNCHANGED <<atom, setter>>
    /\ End(c, "failed")
    /\ UNCHANGED <<now, store, jar, done>>

----------------------------------------------------------------------------
\* Time passes; a session that ends disturbs the call under way.
Tick ==
    /\ now < Start + Span
    /\ now' = now + 1
    /\ alone' = IF \E t \in Token : expires[t] = now + 1 THEN {} ELSE alone
    /\ UNCHANGED <<store, jar, atom, pc, calls, setter, done>>

\* The password is changed from another device.
RevokeElsewhere ==
    /\ expires' = [t \in Token |-> 0]
    /\ alone' = {}
    /\ UNCHANGED <<now, until, jar, atom, pc, calls, setter, done>>

\* What a call does once it is sent.
Proceed(c) ==
    \/ Refresh(c)
    \/ ServeSession(c)
    \/ ServeLogin(c)
    \/ ServeChange(c)
    \/ ServeLogout(c)
    \/ Refuse(c)
    \/ ReceiveSession(c)
    \/ ReceiveLogin(c)
    \/ ReceiveResult(c)
    \/ ReceiveLogout(c)
    \/ ClearAtom(c)
    \/ Lost(c)

Next ==
    \/ BootFetch
    \/ \E c \in Call : GetSession(c) \/ Post(c) \/ Proceed(c)
    \/ Tick
    \/ RevokeElsewhere

\* A mounted component runs its effect, and a fetch resolves or rejects.
Fairness == WF_vars(BootFetch) /\ \A c \in Call : WF_vars(Proceed(c))

Spec == Init /\ [][Next]_vars /\ Fairness

----------------------------------------------------------------------------
(* Properties *)

\* Every variable has the type the code gives it.
TypeOK ==
    /\ now \in Start..(Start + Span)
    /\ expires \in [Token -> Nat]
    /\ until \in [Token -> Nat]
    /\ jar \in Token \cup {Nobody}
    /\ atom \in Token \cup {Nobody, Undefined}
    /\ pc \in [Call -> Stage]
    /\ kind \in [Call -> Kind]
    /\ cookie \in [Call -> Token \cup {Nobody}]
    /\ answer \in [Call -> Token \cup {Nobody, Refused}]
    /\ setter \in Call
    /\ alone \subseteq Call
    /\ revoked \subseteq Token
    /\ late \in [Token -> SUBSET Call]

\* After a signOut that the server has carried out, the session it was sent with
\* never works again and its cookie is never back, in whatever order answers
\* arrive.  The state shows that session again only through an answer that was
\* on its way when signOut ended, of a getSession served before the logout; no
\* call answered later does it (signOut, getSession).
SignedOutForGood ==
    /\ \A t \in revoked : ~Live(t)
    /\ jar \notin revoked
    /\ atom \in revoked => setter \in late[atom]

\* The state agrees with what the server says of the cookie.
Agrees == atom = IF Live(jar) THEN jar ELSE Nobody

\* A getSession, login or signOut that resolves without another call, a lost
\* answer, an error or the end of the session in between leaves the atom in
\* agreement with the cookie and the server (getSession, loginRequest, signOut).
UndisturbedCallAgrees ==
    [][\A c \in alone : pc'[c] = "done" /\ kind[c] # "change" => Agrees']_vars

\* "Session lifetime from creation or last extension": as long as the session of
\* the cookie lives, the user agent sends it, although it is only set at login
\* and the session slides (set_session_cookie, get_by_token).
LiveSessionReachable == Live(jar) => Sent = jar

\* "True until the first session fetch has resolved": the hook does not stay
\* pending, whatever is lost (useSession, getSession).
PendingEnds == <>[](atom # Undefined)
=============================================================================
