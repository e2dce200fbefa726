---------------------------- MODULE AuthSession ----------------------------
(***************************************************************************)
(* The tabs of one browser and the sessions they share: the client of each *)
(* tab refreshes its access token when the page loads, before the token    *)
(* runs out and when a request is refused (auth-session.tsx,               *)
(* archive-api.ts), every time with the refresh cookie that all tabs have  *)
(* in common, and the server rotates the session (AuthController).         *)
(*                                                                         *)
(* The tokens of one rotation (refresh cookie, access token) are one       *)
(* number.  An answer arrives within the 30 seconds of the grace window, a *)
(* session lives longer than the behaviour.  Signing in and out are left   *)
(* out: the user is signed in, or is not.                                  *)
(*                                                                         *)
(* The server reads a session and later updates it by its id, with no lock *)
(* and no transaction: an update may overwrite what it has not read.       *)
(***************************************************************************)
EXTENDS Naturals, FiniteSets

CONSTANTS
    Tabs,
    MaxTokens, MaxLoads, MaxLosses      \* bounds: tokens issued, pages loaded, failed calls

ASSUME AuthAssumption == MaxTokens \in Nat /\ MaxLoads \in Nat /\ MaxLosses \in Nat

VARIABLES
    tab,        \* each tab's AuthSessionState and its access token
    call,       \* each tab's requests under way, one of a kind
    cookie,     \* the refresh cookie of the browser, 0 for none
    sessions,   \* api_sessions
    issued,     \* tokens issued so far
    updates,    \* rotations that the server has read a session for and not written
    erased,     \* tokens that such an update has removed without having read them
    disturbed,  \* the answer to a refresh was lost
    loads, losses

serverVars == <<sessions, issued, updates, erased>>
authVars == <<tab, call, cookie, serverVars, disturbed, loads, losses>>

Tokens == 0..MaxTokens
Statuses == {"loading", "authenticated", "guest"}

\* Why a tab asks for a refresh.
Kinds == {"bootstrap", "silent", "request"}

\* What a request carries, and the code of its answer once it has one.
Codes == {"none", "ok", "UNAUTHENTICATED", "RATE_LIMITED", "no-code"}
Calls == [sent : BOOLEAN, cookie : Tokens, code : Codes, token : Tokens]
NoCall == [sent |-> FALSE, cookie |-> 0, code |-> "none", token |-> 0]

\* current and previous are the token hashes, grace that rotated_at is recent;
\* the id is the token the row was inserted with.
Sessions == [id : Tokens, current : Tokens, previous : Tokens, grace : BOOLEAN]

\* The session to update, the token it was found with and the one it gets.
Updates == [id : Tokens, seen : Tokens, token : Tokens]

Unmounted == [status |-> "loading", token |-> 0]

New(token) == [id |-> token, current |-> token, previous |-> 0, grace |-> FALSE]

\* Signed in in no tab yet, or in an earlier visit.
AuthInit ==
    /\ tab = [t \in Tabs |-> Unmounted]
    /\ call = [t \in Tabs |-> [k \in Kinds |-> NoCall]]
    /\ \/ cookie = 0 /\ sessions = {} /\ issued = 0
       \/ MaxTokens > 0 /\ cookie = 1 /\ sessions = {New(1)} /\ issued = 1
    /\ updates = {} /\ erased = {}
    /\ disturbed = FALSE /\ loads = 0 /\ losses = 0

-----------------------------------------------------------------------------
(* The server.                                                             *)

HoldersOf(token) == {s \in sessions : s.current = token}

InGrace(token) == {s \in sessions : s.previous = token /\ s.grace}
Alive(token) == HoldersOf(token) \cup InGrace(token) /= {}

Answered(t, k, code, token) ==
    call' = [call EXCEPT ![t][k].code = code, ![t][k].token = token]

\* sessionFromRefreshCookie.  A session whose current token it is will be
\* rotated: the new tokens are made, the row is not yet written.  A token that
\* was rotated away from a moment ago gets a session of its own, whose INSERT
\* meets no other statement.  Any other is refused.
Refresh(t, k) ==
    LET token == call[t][k].cookie
    IN  \/ /\ HoldersOf(token) /= {} /\ issued < MaxTokens
           /\ \E s \in HoldersOf(token) :
                 updates' = updates \cup {[id |-> s.id, seen |-> token, token |-> issued + 1]}
           /\ issued' = issued + 1
           /\ Answered(t, k, "none", issued + 1)
           /\ UNCHANGED <<sessions, erased>>
        \/ /\ HoldersOf(token) = {} /\ InGrace(token) /= {} /\ issued < MaxTokens
           /\ sessions' = sessions \cup {New(issued + 1)}
           /\ issued' = issued + 1
           /\ Answered(t, k, "ok", issued + 1)
           /\ UNCHANGED <<updates, erased>>
        \/ /\ ~Alive(token)
           /\ Answered(t, k, "UNAUTHENTICATED", 0)
           /\ UNCHANGED serverVars

\* A call that the server has not begun to serve.
Unserved(t, k) == call[t][k].sent /\ call[t][k].code = "none" /\ call[t][k].token = 0

ServeRefresh(t, k) ==
    /\ Unserved(t, k)
    /\ Refresh(t, k)
    /\ UNCHANGED <<tab, cookie, disturbed, loads, losses>>

\* Mutant: a rotation forgets the token it rotates away from.
Rotated_Forgets(s, u) == [s EXCEPT !.current = u.token, !.previous = 0, !.grace = TRUE]

Rotated(s, u) == [s EXCEPT !.current = u.token, !.previous = u.seen, !.grace = TRUE]

\* What an update removes from a session that is no longer as it was found.
Overwritten(s, u) == IF s.current = u.seen THEN {} ELSE {s.current, s.previous} \ {u.seen}

\* The UPDATE, by the session's id whatever it holds by now; the call that it
\* serves is answered, unless it was lost.
Rotate ==
    \E u \in updates, s \in sessions :
        /\ s.id = u.id
        /\ sessions' = (sessions \ {s}) \cup {Rotated(s, u)}
        /\ updates' = updates \ {u}
        /\ erased' = erased \cup Overwritten(s, u)
        /\ call' = [t \in Tabs |-> [k \in Kinds |->
                       IF call[t][k].token = u.token THEN [call[t][k] EXCEPT !.code = "ok"]
                       ELSE call[t][k]]]
        /\ UNCHANGED <<tab, cookie, issued, disturbed, loads, losses>>

\* The throttle of refreshes, per address of the client.
Throttle(t, k) ==
    /\ losses < MaxLosses
    /\ Unserved(t, k)
    /\ losses' = losses + 1
    /\ Answered(t, k, "RATE_LIMITED", 0)
    /\ UNCHANGED <<tab, cookie, serverVars, disturbed, loads>>

\* The call fails: with its answer, if the server has begun to serve it.
NetworkFails(t, k) ==
    /\ losses < MaxLosses
    /\ call[t][k].sent /\ call[t][k].code /= "no-code"
    /\ losses' = losses + 1
    /\ Answered(t, k, "no-code", 0)
    /\ disturbed' = (disturbed \/ call[t][k].token /= 0)
    /\ UNCHANGED <<tab, cookie, serverVars, loads>>

\* 30 seconds have passed since a rotation: its answer has long arrived.
GraceEnds ==
    \E s \in sessions :
        /\ s.grace
        /\ \A t \in Tabs, k \in Kinds : call[t][k].token /= s.current
        /\ sessions' = (sessions \ {s}) \cup {[s EXCEPT !.grace = FALSE]}
        /\ UNCHANGED <<tab, call, cookie, issued, updates, erased, disturbed, loads, losses>>

-----------------------------------------------------------------------------
(* The tabs.                                                               *)

Asking == [NoCall EXCEPT !.sent = TRUE, !.cookie = cookie]

\* A page loads, and asks for a refresh before anything else (bootstrap).  What
\* the page before it was waiting for is lost.
LoadPage(t) ==
    /\ loads < MaxLoads
    /\ loads' = loads + 1
    /\ tab' = [tab EXCEPT ![t] = Unmounted]
    /\ call' = [call EXCEPT ![t] = [k \in Kinds |->
                   IF k = "bootstrap" THEN Asking ELSE NoCall]]
    /\ disturbed' = (disturbed \/ \E k \in Kinds : call[t][k].token /= 0)
    /\ UNCHANGED <<cookie, serverVars, losses>>

\* Silent: the timer of refreshSession.  Request: an API request was refused,
\* and refreshAccessToken runs once for all of them.
AskRefresh(t, k) ==
    /\ tab[t].status = "authenticated"
    /\ k = "silent" \/ (k = "request" /\ ~Alive(tab[t].token))
    /\ ~call[t][k].sent
    /\ call' = [call EXCEPT ![t][k] = Asking]
    /\ UNCHANGED <<tab, cookie, serverVars, disturbed, loads, losses>>

\* The failures that refreshSession would try again, by their code.  The
\* server's envelopes name theirs otherwise and a failed fetch has none, so
\* that no answer is tried again.  What bootstrap tries again within 10 seconds
\* gets the answer that it has kept.
Transient(code) == code \in {"http_401", "http_429", "network_error"}

\* What the failure of each kind of call makes of the tab.
AfterFailure(t, k, code) ==
    CASE k = "request" -> [tab[t] EXCEPT !.status = IF code = "UNAUTHENTICATED" THEN "guest" ELSE @]
      [] k = "bootstrap" -> [tab[t] EXCEPT !.status = IF @ = "authenticated" THEN @ ELSE "guest"]
      [] OTHER -> [tab[t] EXCEPT !.status = "guest"]

AfterSuccess(t, k, token) ==
    CASE k = "request" -> [tab[t] EXCEPT !.token = token]
      [] OTHER         -> [status |-> "authenticated", token |-> token]

\* The answer arrives, and with it the cookie.
HearRefresh(t, k) ==
    LET answer == call[t][k]
    IN  /\ answer.code /= "none"
        /\ IF answer.code = "ok"
           THEN /\ cookie' = answer.token
                /\ tab' = [tab EXCEPT ![t] = AfterSuccess(t, k, answer.token)]
                /\ call' = [call EXCEPT ![t][k] = NoCall]
           ELSE /\ UNCHANGED cookie
                /\ IF k = "silent" /\ Transient(answer.code)
                   THEN call' = [call EXCEPT ![t][k] = Asking] /\ UNCHANGED tab
                   ELSE /\ tab' = [tab EXCEPT ![t] = AfterFailure(t, k, answer.code)]
                        /\ call' = [call EXCEPT ![t][k] = NoCall]
        /\ UNCHANGED <<serverVars, disturbed, loads, losses>>

AuthNext ==
    \/ \E t \in Tabs :
          \/ LoadPage(t)
          \/ \E k \in Kinds : AskRefresh(t, k) \/ ServeRefresh(t, k) \/ Throttle(t, k) \/ NetworkFails(t, k) \/ HearRefresh(t, k)
    \/ Rotate \/ GraceEnds

AuthSpec == AuthInit /\ [][AuthNext]_authVars

-----------------------------------------------------------------------------
(* Properties                                                              *)

\* The types; and every token belongs to one session at most, which keeps its id.
AuthTypeOK ==
    /\ tab \in [Tabs -> [status : Statuses, token : Tokens]]
    /\ call \in [Tabs -> [Kinds -> Calls]]
    /\ cookie \in Tokens /\ issued \in Tokens
    /\ sessions \subseteq Sessions /\ updates \subseteq Updates /\ erased \subseteq Tokens
    /\ \A s, r \in sessions : s.current = r.current \/ s.id = r.id => s = r
    /\ disturbed \in BOOLEAN /\ loads \in 0..MaxLoads /\ losses \in 0..MaxLosses

\* However the tabs of a browser refresh at the same time, and in whatever order
\* the server's reads and updates run and the answers set the cookie: while no
\* answer is lost, the cookie they share is one the server accepts
\* (sessionFromRefreshCookie and its grace window).  The one way for it to die
\* is an update of its session by a refresh that read the session before.
CookieStaysAlive == ~disturbed => cookie = 0 \/ Alive(cookie) \/ cookie \in erased

\* "remember the old hash briefly so a racing sibling request can still recover":
\* once every tab that raced has its answer, the server accepts their cookie.
RacersRecover ==
    ~disturbed /\ (\A t \in Tabs, k \in Kinds : ~call[t][k].sent) => cookie = 0 \/ Alive(cookie)

\* "transient refresh failures must not log the user out": no tab takes its
\* user for a guest while the browser holds a cookie the server accepts.
LiveSessionIsKept ==
    ~disturbed => \A t \in Tabs : tab[t].status = "guest" => cookie = 0 \/ ~Alive(cookie)

=============================================================================
