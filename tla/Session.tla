------------------------------- MODULE Session -------------------------------
(***************************************************************************)
(* Login and logout of one browser (backend auth/routes.go and             *)
(* auth/session.go).  The session is not kept by the server: it is a       *)
(* cookie the browser sends with each request, and an answer that saves    *)
(* the session replaces the whole cookie when it arrives.  The windows of  *)
(* the browser share the cookie; other browsers log in to the same         *)
(* accounts and share the tables of Users.tla.                             *)
(***************************************************************************)
EXTENDS Users

CONSTANTS
  Window,      \* windows of the browser the routes are opened in
  State,       \* what NewState draws (bounds the logins under way)
  OneRequest   \* TRUE: the browser waits for an answer of these routes
               \* before it sends the next request; windows may stay at the
               \* identity provider as long as they like

VARIABLES
  jar,      \* the cookie: a session
  window,   \* window -> what goes on in it
  latest,   \* history: the window that opened /Login last, None after a logout
  out       \* history: logged out, and no later login has completed

browser == <<jar, window, latest, out>>
vars    == <<imports, browser>>

ASSUME StateAssumption  == None \notin State \cup Window \cup Login
ASSUME SessionSwitches  == OneRequest \in BOOLEAN

NoSession == [state |-> None, userId |-> None]

(* Where a window is: no route open; the answer of /Login on its way; at   *)
(* the identity provider; /LoginComplete at work; its answer on its way;   *)
(* the answer of /Logout on its way.  cookie is the session the request    *)
(* carries or its answer saves.                                            *)
At(place, c, s, l) == [at |-> place, cookie |-> c, state |-> s, login |-> l]
Closed == At("closed", NoSession, None, None)
Requesting == {"login", "complete", "answered", "logout"}

MayRequest == OneRequest => \A w \in Window : window[w].at \notin Requesting
Move(w, place) == window' = [window EXCEPT ![w] = place]

(* 256 random bits: not among those still in use. *)
Fresh(s) == s # jar.state /\ \A w \in Window : s \notin {window[w].state, window[w].cookie.state}

-----------------------------------------------------------------------------
(* /Login: the answer saves the session it got with a new state, and       *)
(* redirects the window to the identity provider.                          *)
OpenLogin(w) ==
  /\ window[w].at = "closed" /\ MayRequest
  /\ \E s \in State :
       Fresh(s) /\ Move(w, At("login", [jar EXCEPT !.state = s], s, None))
  /\ latest' = w
  /\ UNCHANGED <<imports, jar, out>>

LoginAnswered(w) ==
  /\ window[w].at = "login"
  /\ jar' = window[w].cookie
  /\ Move(w, At("idp", NoSession, window[w].state, None))
  /\ UNCHANGED <<imports, latest, out>>

(* /LoginComplete with the state of the session: the code is exchanged and *)
(* the profile fetched.                                                    *)
Return_unchecked(w) ==
  /\ window[w].at = "idp" /\ MayRequest
  /\ \E l \in Login, p \in Profile :
       Fetch(l, p) /\ Move(w, At("complete", jar, window[w].state, l))
  /\ UNCHANGED <<jar, latest, out>>
Return(w) ==
  /\ window[w].at = "idp" /\ MayRequest
  /\ jar.state # None /\ jar.state = window[w].state
  /\ \E l \in Login, p \in Profile :
       Fetch(l, p) /\ Move(w, At("complete", jar, window[w].state, l))
  /\ UNCHANGED <<jar, latest, out>>

(* The identity provider answers with an error, the state is not that of   *)
(* the session, the exchange or the profile fails, the user gives up.      *)
(* With an error the handler goes on, but has no code to exchange.         *)
Refused(w) ==
  /\ window[w].at = "idp" /\ MayRequest
  /\ Move(w, Closed)
  /\ UNCHANGED <<imports, jar, latest, out>>

(* ImportUserProfile; its error is answered with no session saved. *)
Import_windowWaits(l) ==
  /\ Statement(l) \/ Fault(l)
  /\ UNCHANGED browser
Import(l) ==
  /\ Statement(l) \/ Fault(l)
  /\ window' = [w \in Window |->
       IF window[w].login = l /\ pc'[l] = "idle" THEN Closed ELSE window[w]]
  /\ UNCHANGED <<jar, latest, out>>

(* setUserId *)
Complete(w) ==
  /\ window[w].at = "complete"
  /\ Finish(window[w].login)
  /\ Move(w, At("answered", [window[w].cookie EXCEPT !.userId = user[window[w].login]],
                window[w].state, None))
  /\ UNCHANGED <<jar, latest, out>>

CompleteAnswered(w) ==
  /\ window[w].at = "answered"
  /\ jar' = window[w].cookie
  /\ Move(w, Closed)
  /\ out' = (out /\ w # latest)
  /\ UNCHANGED <<imports, latest>>

(* /Logout: clearSession *)
OpenLogout_keepsState(w) ==
  /\ window[w].at = "closed" /\ MayRequest
  /\ Move(w, At("logout", [jar EXCEPT !.userId = None], None, None))
  /\ UNCHANGED <<imports, jar, latest, out>>
OpenLogout(w) ==
  /\ window[w].at = "closed" /\ MayRequest
  /\ Move(w, At("logout", NoSession, None, None))
  /\ UNCHANGED <<imports, jar, latest, out>>

LogoutAnswered(w) ==
  /\ window[w].at = "logout"
  /\ jar' = window[w].cookie
  /\ Move(w, Closed)
  /\ latest' = None /\ out' = TRUE
  /\ UNCHANGED imports

(* MaxAge seconds have passed since the cookie was saved. *)
CookieExpires ==
  /\ jar # NoSession /\ jar' = NoSession
  /\ UNCHANGED <<imports, window, latest, out>>

(* A login from another browser. *)
Elsewhere(l) ==
  /\ \A w \in Window : window[w].login # l
  /\ (\E p \in Profile : Fetch(l, p)) \/ Finish(l)
  /\ UNCHANGED browser

-----------------------------------------------------------------------------
Init ==
  /\ UsersInit
  /\ jar = NoSession
  /\ window = [w \in Window |-> Closed]
  /\ latest = None
  /\ out = TRUE

Next ==
  \/ \E w \in Window :
       OpenLogin(w) \/ LoginAnswered(w) \/ Return(w) \/ Refused(w) \/ Complete(w)
         \/ CompleteAnswered(w) \/ OpenLogout(w) \/ LogoutAnswered(w)
  \/ \E l \in Login : Import(l) \/ Elsewhere(l)
  \/ CookieExpires

Spec == Init /\ [][Next]_vars

-----------------------------------------------------------------------------
(* Properties. *)

Cookie == [state : State \cup {None}, userId : UserId \cup {None}]

(* Cookies hold a state and the id of a row; a window whose login is being *)
(* imported has its own slot at the server.                                *)
TypeOK ==
  /\ UsersTypeOK
  /\ jar \in Cookie
  /\ window \in [Window -> [at : Requesting \cup {"closed", "idp"}, cookie : Cookie,
                            state : State \cup {None}, login : Login \cup {None}]]
  /\ latest \in Window \cup {None} /\ out \in BOOLEAN
  /\ \A w \in Window :
       /\ window[w].at = "complete" <=> window[w].login # None
       /\ window[w].at = "complete" => Busy(window[w].login)
       /\ \A v \in Window : window[v].login = window[w].login /\ v # w => window[w].login = None

(* Of several logins begun in several windows only the one begun last can  *)
(* complete, and none that was begun before a logout: the state of the     *)
(* others is no longer that of the session.  Rests on OneRequest.          *)
LatestLoginOnly ==
  \A w \in Window : window[w].at \in {"complete", "answered"} => w = latest

(* "clear the user's session" (routes.go:99): once the browser has logged  *)
(* out, the session names no user until a login begun later has completed. *)
(* Rests on OneRequest.                                                    *)
LoggedOutStaysOut == out => jar.userId = None

=============================================================================
