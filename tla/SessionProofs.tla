---------------------------- MODULE SessionProofs ----------------------------
(***************************************************************************)
(* Proofs about Session.tla for every number of windows, accounts and      *)
(* logins.  The import of profiles is that of Users.tla, so what is proved *)
(* there holds here; what holds of the cookie needs OneRequest.            *)
(***************************************************************************)
EXTENDS Session, UsersProofs

WindowStep(w) ==
  OpenLogin(w) \/ LoginAnswered(w) \/ Return(w) \/ Refused(w) \/ Complete(w)
    \/ CompleteAnswered(w) \/ OpenLogout(w) \/ LogoutAnswered(w)

-----------------------------------------------------------------------------
(* The tables. *)

LEMMA ImportsByStep == TypeOK /\ [Next]_vars => [UsersNext]_imports
<1> SUFFICES ASSUME TypeOK, [Next]_vars PROVE [UsersNext]_imports
  OBVIOUS
<1>1. CASE UNCHANGED vars
  BY <1>1 DEF vars
<1>2. ASSUME NEW w \in Window, WindowStep(w) PROVE [UsersNext]_imports
  <2>1. CASE Return(w)
    <3>1. PICK l \in Login, p \in Profile : Fetch(l, p)
      BY <2>1 DEF Return
    <3> QED BY <3>1 DEF UsersNext
  <2>2. CASE Complete(w)
    <3>1. window[w].login \in Login
      BY <2>2, StateAssumption DEF Complete, TypeOK
    <3> QED BY <2>2, <3>1 DEF Complete, UsersNext
  <2>3. CASE ~Return(w) /\ ~Complete(w)
    BY <1>2, <2>3 DEF WindowStep, OpenLogin, LoginAnswered, Refused, CompleteAnswered,
                      OpenLogout, LogoutAnswered
  <2> QED BY <2>1, <2>2, <2>3
<1>3. ASSUME NEW l \in Login, Import(l) \/ Elsewhere(l) PROVE [UsersNext]_imports
  BY <1>3 DEF Import, Elsewhere, UsersNext
<1>4. CASE CookieExpires
  BY <1>4 DEF CookieExpires
<1> QED BY <1>1, <1>2, <1>3, <1>4 DEF Next, WindowStep

-----------------------------------------------------------------------------
(* Types. *)

Place == [at : Requesting \cup {"closed", "idp"}, cookie : Cookie,
          state : State \cup {None}, login : Login \cup {None}]

BrowserTypes ==
  /\ jar \in Cookie
  /\ window \in [Window -> Place]
  /\ latest \in Window \cup {None} /\ out \in BOOLEAN

(* A window whose login is being imported has its own slot at the server.  *)
OwnSlot(w) ==
  /\ window[w].at = "complete" <=> window[w].login # None
  /\ window[w].at = "complete" => Busy(window[w].login)
  /\ \A v \in Window : window[v].login = window[w].login /\ v # w => window[w].login = None

LEMMA SessionTypeParts ==
  TypeOK <=> UsersTypeOK /\ BrowserTypes /\ \A w \in Window : OwnSlot(w)
BY DEF TypeOK, BrowserTypes, OwnSlot, Place

LEMMA Places ==
  ASSUME NEW a \in Requesting \cup {"closed", "idp"}, NEW c \in Cookie,
         NEW s \in State \cup {None}, NEW l \in Login \cup {None}
  PROVE  /\ At(a, c, s, l) \in Place
         /\ At(a, c, s, l).at = a /\ At(a, c, s, l).cookie = c
         /\ At(a, c, s, l).state = s /\ At(a, c, s, l).login = l
BY DEF At, Place

LEMMA NoSessionType == NoSession \in Cookie /\ NoSession.state = None /\ NoSession.userId = None
BY DEF NoSession, Cookie

LEMMA ClosedType == Closed \in Place /\ Closed.at = "closed" /\ Closed.login = None
                    /\ Closed.state = None
BY Places, NoSessionType DEF Closed

(* What a login in progress does to the slots of the others. *)
LEMMA SlotsStayBusy ==
  ASSUME UsersTypeOK, NEW l \in Login, LoginStep(l), NEW k \in Login \ {l}
  PROVE  Busy(k)' <=> Busy(k)
BY StepTypes DEF Spares, Busy

LEMMA SlotOfWindow ==
  ASSUME TypeOK, NEW v \in Window, window[v].at = "complete"
  PROVE  window[v].login \in Login /\ Busy(window[v].login)
<1>1. window[v].login \in Login \cup {None} /\ window[v].login # None
  BY DEF TypeOK
<1> QED BY <1>1 DEF TypeOK

(* Only the windows that are left at "complete" keep their slots busy.     *)
LEMMA SlotStays ==
  ASSUME TypeOK, NEW l \in Login, LoginStep(l), NEW v \in Window,
         window[v].at = "complete", window[v].login # l
  PROVE  pc'[window[v].login] # "idle"
<1>1. window[v].login \in Login \ {l} /\ Busy(window[v].login)
  BY SlotOfWindow
<1>2. PICK k \in Login \ {l} : k = window[v].login
  BY <1>1
<1> QED BY <1>1, <1>2, SlotsStayBusy DEF TypeOK, Busy

(* A window moves to a place with no slot. *)
LEMMA MoveOn ==
  ASSUME TypeOK, NEW w \in Window, NEW place \in Place, Move(w, place),
         place.login = None, place.at # "complete",
         \A v \in Window \ {w} : window[v].at = "complete" => pc'[window[v].login] # "idle"
  PROVE  window' \in [Window -> Place] /\ \A v \in Window : OwnSlot(v)'
<1>1. window' = [window EXCEPT ![w] = place] /\ window \in [Window -> Place]
  BY DEF Move, TypeOK, Place
<1>2. window' \in [Window -> Place]
  BY <1>1
<1>3. window'[w] = place /\ \A v \in Window \ {w} : window'[v] = window[v]
  BY <1>1
<1>4. ASSUME NEW v \in Window PROVE OwnSlot(v)'
  <2>1. CASE v = w
    BY <1>3, <2>1 DEF OwnSlot
  <2>2. CASE v # w
    BY <1>3, <2>2 DEF OwnSlot, TypeOK, Busy
  <2> QED BY <2>1, <2>2
<1> QED BY <1>2, <1>4

LEMMA QuietWindowTypes ==
  ASSUME TypeOK, NEW w \in Window, UNCHANGED imports,
         OpenLogin(w) \/ LoginAnswered(w) \/ Refused(w) \/ CompleteAnswered(w)
           \/ OpenLogout(w) \/ LogoutAnswered(w)
  PROVE  BrowserTypes' /\ \A v \in Window : OwnSlot(v)'
<1>0. /\ \A v \in Window \ {w} : window[v].at = "complete" => pc'[window[v].login] # "idle"
      /\ jar \in Cookie /\ window[w].cookie \in Cookie /\ window[w].state \in State \cup {None}
      /\ None \in State \cup {None} /\ None \in Login \cup {None}
  BY DEF TypeOK, imports, Busy
<1>1. CASE OpenLogin(w)
  <2>1. PICK s \in State : Move(w, At("login", [jar EXCEPT !.state = s], s, None))
    BY <1>1 DEF OpenLogin
  <2>2. [jar EXCEPT !.state = s] \in Cookie
    BY <1>0 DEF Cookie
  <2>3. At("login", [jar EXCEPT !.state = s], s, None) \in Place
        /\ At("login", [jar EXCEPT !.state = s], s, None).login = None
        /\ At("login", [jar EXCEPT !.state = s], s, None).at = "login"
    BY <1>0, <2>2, Places DEF Requesting
  <2> QED BY <1>0, <1>1, <2>1, <2>3, MoveOn DEF OpenLogin, BrowserTypes, TypeOK
<1>2. CASE LoginAnswered(w)
  <2>1. At("idp", NoSession, window[w].state, None) \in Place
        /\ At("idp", NoSession, window[w].state, None).login = None
        /\ At("idp", NoSession, window[w].state, None).at = "idp"
    BY <1>0, Places, NoSessionType
  <2> QED BY <1>0, <1>2, <2>1, MoveOn DEF LoginAnswered, BrowserTypes, TypeOK
<1>3. CASE Refused(w) \/ CompleteAnswered(w) \/ LogoutAnswered(w)
  BY <1>0, <1>3, ClosedType, MoveOn DEF Refused, CompleteAnswered, LogoutAnswered, BrowserTypes, TypeOK
<1>4. CASE OpenLogout(w)
  <2>1. At("logout", NoSession, None, None) \in Place
        /\ At("logout", NoSession, None, None).login = None
        /\ At("logout", NoSession, None, None).at = "logout"
    BY <1>0, Places, NoSessionType DEF Requesting
  <2> QED BY <1>0, <1>4, <2>1, MoveOn DEF OpenLogout, BrowserTypes, TypeOK
<1> QED BY <1>1, <1>2, <1>3, <1>4

LEMMA ReturnTypes ==
  ASSUME TypeOK, NEW w \in Window, Return(w)
  PROVE  BrowserTypes' /\ \A v \in Window : OwnSlot(v)'
<1>1. PICK l \in Login, p \in Profile :
        Fetch(l, p) /\ Move(w, At("complete", jar, window[w].state, l))
  BY DEF Return
<1>2. window' = [window EXCEPT ![w] = At("complete", jar, window[w].state, l)]
  BY <1>1 DEF Move
<1>3. /\ jar \in Cookie /\ window[w].state \in State \cup {None} /\ window \in [Window -> Place]
      /\ UsersTypeOK /\ ~Busy(l) /\ Busy(l)'
  BY <1>1 DEF TypeOK, Place, Fetch, Busy, UsersTypeOK
<1>4. /\ At("complete", jar, window[w].state, l) \in Place
      /\ At("complete", jar, window[w].state, l).at = "complete"
      /\ At("complete", jar, window[w].state, l).login = l
  BY <1>3, Places DEF Requesting
<1>5. BrowserTypes'
  BY <1>2, <1>3, <1>4 DEF Return, BrowserTypes, TypeOK
<1>6. ASSUME NEW v \in Window \ {w}
      PROVE  window'[v] = window[v] /\ window[v].login # l
             /\ (window[v].at = "complete" => pc'[window[v].login] # "idle")
  <2>1. window[v].at = "complete" => window[v].login \in Login \ {l}
    BY <1>3, StateAssumption DEF TypeOK
  <2>2. window[v].login # l
    BY <1>3, <2>1, StateAssumption DEF TypeOK
  <2>3. ASSUME window[v].at = "complete" PROVE pc'[window[v].login] # "idle"
    BY <1>1, <2>2, <2>3, SlotStays DEF LoginStep
  <2> QED BY <1>2, <2>2, <2>3
<1>7. ASSUME NEW v \in Window PROVE OwnSlot(v)'
  <2>1. window'[w].at = "complete" /\ window'[w].login = l
    BY <1>2, <1>3, <1>4
  <2>2. CASE v = w
    BY <1>3, <1>6, <2>1, <2>2, StateAssumption DEF OwnSlot, Busy
  <2>3. CASE v # w
    BY <1>6, <2>1, <2>3 DEF OwnSlot, TypeOK, Busy
  <2> QED BY <2>2, <2>3
<1> QED BY <1>5, <1>7

LEMMA CompleteTypes ==
  ASSUME TypeOK, NEW w \in Window, Complete(w)
  PROVE  BrowserTypes' /\ \A v \in Window : OwnSlot(v)'
<1> DEFINE l == window[w].login
           c == [window[w].cookie EXCEPT !.userId = user[l]]
<1>1. l \in Login /\ UsersTypeOK /\ Finish(l) /\ pc[l] = "done" /\ user[l] \in UserId
  BY StateAssumption DEF Complete, TypeOK, Finish, UsersTypeOK, Rows
<1>2. c \in Cookie /\ window[w].state \in State \cup {None}
  BY <1>1 DEF TypeOK, Cookie
<1>3. /\ At("answered", c, window[w].state, None) \in Place
      /\ At("answered", c, window[w].state, None).at = "answered"
      /\ At("answered", c, window[w].state, None).login = None
  BY <1>2, Places DEF Requesting
<1>4. ASSUME NEW v \in Window \ {w}, window[v].at = "complete" PROVE pc'[window[v].login] # "idle"
  <2>1. window[v].login # l
    BY <1>1, <1>4, StateAssumption DEF TypeOK
  <2> QED BY <1>1, <1>4, <2>1, SlotStays DEF LoginStep
<1> QED BY <1>3, <1>4, MoveOn DEF Complete, BrowserTypes, TypeOK

LEMMA ImportTypes ==
  ASSUME TypeOK, NEW l \in Login, Import(l)
  PROVE  BrowserTypes' /\ \A v \in Window : OwnSlot(v)'
<1>1. LoginStep(l) /\ UsersTypeOK /\ window \in [Window -> Place]
  BY DEF Import, LoginStep, TypeOK, Place
<1>2. window' = [w \in Window |->
        IF window[w].login = l /\ pc'[l] = "idle" THEN Closed ELSE window[w]]
  BY DEF Import
<1>3. BrowserTypes'
  BY <1>1, <1>2, ClosedType DEF Import, BrowserTypes, TypeOK
<1>4. ASSUME NEW v \in Window, window'[v].at = "complete" PROVE pc'[window'[v].login] # "idle"
  <2>1. window'[v] = window[v]
    BY <1>2, <1>4, ClosedType
  <2>2. window[v].at = "complete"
    BY <1>4, <2>1
  <2>3. CASE window[v].login = l
    BY <1>2, <1>4, <2>1, <2>3, ClosedType
  <2>4. CASE window[v].login # l
    BY <1>1, <2>1, <2>2, <2>4, SlotStays
  <2> QED BY <2>3, <2>4
<1>5. ASSUME NEW v \in Window PROVE OwnSlot(v)'
  BY <1>2, <1>4, ClosedType DEF OwnSlot, TypeOK, Busy
<1> QED BY <1>3, <1>5

LEMMA ElsewhereTypes ==
  ASSUME TypeOK, NEW l \in Login, Elsewhere(l)
  PROVE  BrowserTypes' /\ \A v \in Window : OwnSlot(v)'
<1>1. LoginStep(l) /\ UsersTypeOK /\ UNCHANGED browser
  BY DEF Elsewhere, LoginStep, TypeOK
<1>2. ASSUME NEW v \in Window, window[v].at = "complete" PROVE pc'[window[v].login] # "idle"
  <2>1. window[v].login # l
    BY DEF Elsewhere
  <2> QED BY <1>1, <1>2, <2>1, SlotStays
<1> QED BY <1>1, <1>2 DEF browser, BrowserTypes, OwnSlot, TypeOK, Place, Busy

LEMMA SessionTypesNext == TypeOK /\ [Next]_vars => TypeOK'
<1> SUFFICES ASSUME TypeOK, [Next]_vars PROVE TypeOK'
  OBVIOUS
<1>1. UsersTypeOK'
  BY ImportsByStep, TypesNext DEF TypeOK
<1>2. BrowserTypes' /\ \A v \in Window : OwnSlot(v)'
  <2>1. CASE UNCHANGED vars
    BY <2>1 DEF vars, browser, imports, BrowserTypes, OwnSlot, TypeOK, Busy, Place
  <2>2. ASSUME NEW w \in Window, WindowStep(w)
        PROVE  BrowserTypes' /\ \A v \in Window : OwnSlot(v)'
    <3>1. CASE Return(w) \/ Complete(w)
      BY <3>1, ReturnTypes, CompleteTypes
    <3>2. CASE ~Return(w) /\ ~Complete(w)
      <4>1. UNCHANGED imports
        BY <2>2, <3>2 DEF WindowStep, OpenLogin, LoginAnswered, Refused, CompleteAnswered,
                          OpenLogout, LogoutAnswered
      <4> QED BY <2>2, <3>2, <4>1, QuietWindowTypes DEF WindowStep
    <3> QED BY <3>1, <3>2
  <2>3. CASE CookieExpires
    BY <2>3, NoSessionType DEF CookieExpires, imports, BrowserTypes, OwnSlot, TypeOK, Busy, Place
  <2> QED BY <2>1, <2>2, <2>3, ImportTypes, ElsewhereTypes DEF Next, WindowStep
<1> QED BY <1>1, <1>2 DEF TypeOK, BrowserTypes, OwnSlot, Place

LEMMA SessionTypesInit == Init => TypeOK
<1> SUFFICES ASSUME Init PROVE TypeOK
  OBVIOUS
<1>1. UsersTypeOK
  BY TypesInit DEF Init
<1>2. window \in [Window -> Place] /\ \A w \in Window : window[w] = Closed
  BY ClosedType DEF Init
<1> QED BY <1>1, <1>2, ClosedType, NoSessionType DEF Init, TypeOK, Place

(* Cookies hold a state and the id of a row, and a window whose login is   *)
(* imported has a slot of its own.                                         *)
THEOREM SessionTypeCorrect == Spec => []TypeOK
BY SessionTypesInit, SessionTypesNext, PTL DEF Spec

(* The import of a session is an import: the composition adds no behaviour *)
(* to Users.tla.                                                           *)
THEOREM SessionImports == Spec => UsersSpec
<1>1. Init => UsersInit
  BY DEF Init
<1> QED BY <1>1, ImportsByStep, SessionTypeCorrect, PTL DEF Spec, UsersSpec

-----------------------------------------------------------------------------
(* The cookie of a browser that waits for its answers. *)

Asking(w) == window[w].at \in Requesting

(* At most one answer of the session routes is on its way. *)
OneAtOnce == \A v, w \in Window : Asking(v) /\ Asking(w) => v = w

(* A window has the state of its own login, and an answer saves it again.  *)
Fits(w) ==
  /\ window[w].at \in {"closed", "logout"} => window[w].state = None
  /\ window[w].at \in {"login", "complete", "answered"} => window[w].cookie.state = window[w].state
  /\ window[w].at = "logout" => window[w].cookie = NoSession
  /\ window[w].at = "login" => w = latest

StatesDiffer ==
  \A v, w \in Window : v # w /\ window[v].state = window[w].state => window[v].state = None

(* Once /Login is answered, the session has the state of the login begun   *)
(* last or of one that is over.                                            *)
StateIsLatest ==
  (\A w \in Window : window[w].at # "login") =>
    \A v \in Window :
      window[v].at = "idp" /\ jar.state # None /\ jar.state = window[v].state => v = latest

(* An answer of /Login that is on its way brings no user back. *)
OutsideStays ==
  \A w \in Window : out /\ window[w].at = "login" => window[w].cookie.userId = None

(* LatestLoginOnly and LoggedOutStaysOut depend on the states and answers  *)
(* under way: which of them can still get into the cookie.                 *)
CookieInv ==
  /\ OneAtOnce /\ StatesDiffer /\ StateIsLatest /\ OutsideStays
  /\ \A w \in Window : Fits(w)
  /\ LatestLoginOnly /\ LoggedOutStaysOut

(* w goes to a place a request leads to, or ceases to wait. *)
Moved(w, a, c, s) ==
  /\ \A v \in Window \ {w} : window'[v] = window[v]
  /\ window'[w].at = a /\ window'[w].cookie = c /\ window'[w].state = s

LEMMA MoveTo ==
  ASSUME TypeOK, NEW w \in Window, NEW a \in Requesting \cup {"closed", "idp"}, NEW c \in Cookie,
         NEW s \in State \cup {None}, NEW l \in Login \cup {None}, Move(w, At(a, c, s, l))
  PROVE  Moved(w, a, c, s)
<1>1. window' = [window EXCEPT ![w] = At(a, c, s, l)] /\ window \in [Window -> Place]
  BY DEF Move, TypeOK, Place
<1>2. window'[w] = At(a, c, s, l) /\ \A v \in Window \ {w} : window'[v] = window[v]
  BY <1>1
<1>3. /\ At(a, c, s, l).at = a /\ At(a, c, s, l).cookie = c
      /\ At(a, c, s, l).state = s
  BY DEF At
<1> QED BY <1>2, <1>3 DEF Moved

LEMMA CookieOpenLogin ==
  ASSUME TypeOK, OneRequest, CookieInv, NEW w \in Window, OpenLogin(w)
  PROVE  CookieInv'
<1>1. PICK s \in State : Fresh(s) /\ Move(w, At("login", [jar EXCEPT !.state = s], s, None))
  BY DEF OpenLogin
<1>2. [jar EXCEPT !.state = s] \in Cookie /\ [jar EXCEPT !.state = s].state = s
      /\ [jar EXCEPT !.state = s].userId = jar.userId
  BY DEF TypeOK, Cookie
<1>3. Moved(w, "login", [jar EXCEPT !.state = s], s)
  BY <1>1, <1>2, MoveTo DEF Requesting
<1>4. latest' = w /\ jar' = jar /\ out' = out /\ \A v \in Window : ~Asking(v)
  BY DEF OpenLogin, MayRequest, Asking
<1>5. s # None /\ \A v \in Window : s # window[v].state
  BY <1>1, StateAssumption DEF Fresh
<1>6. OneAtOnce' /\ LatestLoginOnly' /\ LoggedOutStaysOut'
  BY <1>3, <1>4 DEF OneAtOnce, Asking, Moved, Requesting, LatestLoginOnly, LoggedOutStaysOut, CookieInv
<1>7. StatesDiffer'
  BY <1>3, <1>5 DEF StatesDiffer, Moved, CookieInv
<1>8. StateIsLatest'
  BY <1>3 DEF StateIsLatest, Moved
<1>9. OutsideStays'
  BY <1>2, <1>3, <1>4 DEF OutsideStays, Moved, Asking, Requesting, CookieInv, LoggedOutStaysOut
<1>10. \A v \in Window : Fits(v)'
  BY <1>2, <1>3, <1>4 DEF Fits, Moved, Asking, Requesting, CookieInv
<1> QED BY <1>6, <1>7, <1>8, <1>9, <1>10 DEF CookieInv

LEMMA CookieLoginAnswered ==
  ASSUME TypeOK, OneRequest, CookieInv, NEW w \in Window, LoginAnswered(w)
  PROVE  CookieInv'
<1>1. Moved(w, "idp", NoSession, window[w].state)
  <2>1. window[w].state \in State \cup {None}
    BY DEF TypeOK
  <2> QED BY <2>1, MoveTo, NoSessionType DEF LoginAnswered
<1>2. /\ jar' = window[w].cookie /\ jar'.state = window[w].state
      /\ latest' = latest /\ out' = out /\ w = latest /\ window[w].at = "login"
      /\ \A v \in Window : v # w => ~Asking(v)
  BY DEF LoginAnswered, CookieInv, Fits, OneAtOnce, Asking, Requesting
<1>3. OneAtOnce' /\ LatestLoginOnly' /\ LoggedOutStaysOut'
  BY <1>1, <1>2 DEF OneAtOnce, Asking, Moved, Requesting, LatestLoginOnly, LoggedOutStaysOut,
                    OutsideStays, CookieInv
<1>4. StatesDiffer'
  BY <1>1 DEF StatesDiffer, Moved, CookieInv
<1>5. StateIsLatest'
  BY <1>1, <1>2 DEF StateIsLatest, StatesDiffer, Moved, CookieInv
<1>6. OutsideStays'
  BY <1>1, <1>2 DEF OutsideStays, Moved, CookieInv
<1>7. \A v \in Window : Fits(v)'
  BY <1>1, <1>2 DEF Fits, Moved, CookieInv
<1> QED BY <1>3, <1>4, <1>5, <1>6, <1>7 DEF CookieInv

LEMMA CookieReturn ==
  ASSUME TypeOK, OneRequest, CookieInv, NEW w \in Window, Return(w)
  PROVE  CookieInv'
<1>1. Moved(w, "complete", jar, window[w].state)
  <2>1. window[w].state \in State \cup {None} /\ jar \in Cookie
    BY DEF TypeOK
  <2> QED BY <2>1, MoveTo DEF Return, Requesting
<1>2. /\ latest' = latest /\ out' = out /\ jar' = jar /\ window[w].at = "idp"
      /\ jar.state # None /\ jar.state = window[w].state
      /\ \A v \in Window : ~Asking(v)
  BY DEF Return, MayRequest, Asking
<1>3. w = latest
  BY <1>2 DEF CookieInv, StateIsLatest, Asking, Requesting
<1>4. OneAtOnce' /\ LatestLoginOnly' /\ LoggedOutStaysOut'
  BY <1>1, <1>2, <1>3 DEF OneAtOnce, Asking, Moved, Requesting, LatestLoginOnly, LoggedOutStaysOut, CookieInv
<1>5. StatesDiffer'
  BY <1>1 DEF StatesDiffer, Moved, CookieInv
<1>6. StateIsLatest'
  BY <1>1, <1>2 DEF StateIsLatest, Moved, CookieInv
<1>7. OutsideStays'
  BY <1>1, <1>2 DEF OutsideStays, Moved, CookieInv
<1>8. \A v \in Window : Fits(v)'
  BY <1>1, <1>2 DEF Fits, Moved, CookieInv
<1> QED BY <1>4, <1>5, <1>6, <1>7, <1>8 DEF CookieInv

(* A window that closes, the cookie as it was. *)
LEMMA CookieClose ==
  ASSUME TypeOK, CookieInv, UNCHANGED <<jar, latest, out>>,
         \A v \in Window : window'[v] = window[v] \/ (window'[v] = Closed /\ window[v].at # "login")
  PROVE  CookieInv'
<1>1. OneAtOnce' /\ LatestLoginOnly' /\ LoggedOutStaysOut'
  BY ClosedType DEF OneAtOnce, Asking, Requesting, LatestLoginOnly, LoggedOutStaysOut, CookieInv
<1>2. StatesDiffer'
  BY ClosedType DEF StatesDiffer, CookieInv
<1>3. StateIsLatest'
  BY ClosedType DEF StateIsLatest, CookieInv
<1>4. OutsideStays'
  BY ClosedType DEF OutsideStays, CookieInv
<1>5. \A v \in Window : Fits(v)'
  BY ClosedType DEF Fits, CookieInv
<1> QED BY <1>1, <1>2, <1>3, <1>4, <1>5 DEF CookieInv

LEMMA CookieComplete ==
  ASSUME TypeOK, CookieInv, NEW w \in Window, Complete(w)
  PROVE  CookieInv'
<1> DEFINE c == [window[w].cookie EXCEPT !.userId = user[window[w].login]]
<1>1. c \in Cookie /\ c.state = window[w].cookie.state
  <2>1. window[w].login \in Login /\ pc[window[w].login] = "done"
    BY StateAssumption DEF Complete, TypeOK, Finish
  <2>2. user[window[w].login] \in UserId
    BY <2>1 DEF TypeOK, UsersTypeOK, Rows
  <2> QED BY <2>2 DEF TypeOK, Cookie
<1>2. Moved(w, "answered", c, window[w].state)
  <2>1. window[w].state \in State \cup {None}
    BY DEF TypeOK
  <2> QED BY <1>1, <2>1, MoveTo DEF Complete, Requesting
<1>3. UNCHANGED <<jar, latest, out>> /\ window[w].at = "complete"
  BY DEF Complete
<1>4. OneAtOnce' /\ LatestLoginOnly' /\ LoggedOutStaysOut'
  BY <1>2, <1>3 DEF OneAtOnce, Asking, Moved, Requesting, LatestLoginOnly, LoggedOutStaysOut, CookieInv
<1>5. StatesDiffer'
  BY <1>2 DEF StatesDiffer, Moved, CookieInv
<1>6. StateIsLatest'
  BY <1>2, <1>3 DEF StateIsLatest, Moved, CookieInv
<1>7. OutsideStays'
  BY <1>2, <1>3 DEF OutsideStays, Moved, CookieInv
<1>8. \A v \in Window : Fits(v)'
  BY <1>1, <1>2, <1>3 DEF Fits, Moved, CookieInv
<1> QED BY <1>4, <1>5, <1>6, <1>7, <1>8 DEF CookieInv

LEMMA CookieCompleteAnswered ==
  ASSUME TypeOK, CookieInv, NEW w \in Window, CompleteAnswered(w)
  PROVE  CookieInv'
<1>1. (\A v \in Window \ {w} : window'[v] = window[v]) /\ window'[w] = Closed
  BY DEF CompleteAnswered, Move, TypeOK
<1>2. /\ latest' = latest /\ w = latest /\ out' = FALSE
      /\ jar'.state = window[w].state
  BY DEF CompleteAnswered, CookieInv, LatestLoginOnly, Fits, TypeOK
<1>3. OneAtOnce' /\ LatestLoginOnly' /\ LoggedOutStaysOut'
  BY <1>1, <1>2, ClosedType DEF OneAtOnce, Asking, Requesting, LatestLoginOnly, LoggedOutStaysOut, CookieInv
<1>4. StatesDiffer'
  BY <1>1, ClosedType DEF StatesDiffer, CookieInv
<1>5. StateIsLatest'
  BY <1>1, <1>2, ClosedType DEF StateIsLatest, StatesDiffer, CookieInv
<1>6. OutsideStays'
  BY <1>2 DEF OutsideStays
<1>7. \A v \in Window : Fits(v)'
  BY <1>1, <1>2, ClosedType DEF Fits, CookieInv
<1> QED BY <1>3, <1>4, <1>5, <1>6, <1>7 DEF CookieInv

LEMMA CookieOpenLogout ==
  ASSUME TypeOK, OneRequest, CookieInv, NEW w \in Window, OpenLogout(w)
  PROVE  CookieInv'
<1>1. Moved(w, "logout", NoSession, None)
  BY MoveTo, NoSessionType DEF OpenLogout, Requesting
<1>2. UNCHANGED <<jar, latest, out>> /\ \A v \in Window : ~Asking(v)
  BY DEF OpenLogout, MayRequest, Asking
<1>3. OneAtOnce' /\ LatestLoginOnly' /\ LoggedOutStaysOut'
  BY <1>1, <1>2 DEF OneAtOnce, Asking, Moved, Requesting, LatestLoginOnly, LoggedOutStaysOut, CookieInv
<1>4. StatesDiffer'
  BY <1>1 DEF StatesDiffer, Moved, CookieInv
<1>5. StateIsLatest'
  BY <1>1, <1>2 DEF StateIsLatest, Moved, Asking, Requesting, CookieInv
<1>6. OutsideStays'
  BY <1>1, <1>2 DEF OutsideStays, Moved, CookieInv
<1>7. \A v \in Window : Fits(v)'
  BY <1>1, <1>2 DEF Fits, Moved, CookieInv
<1> QED BY <1>3, <1>4, <1>5, <1>6, <1>7 DEF CookieInv

LEMMA CookieLogoutAnswered ==
  ASSUME TypeOK, CookieInv, NEW w \in Window, LogoutAnswered(w)
  PROVE  CookieInv'
<1>1. (\A v \in Window \ {w} : window'[v] = window[v]) /\ window'[w] = Closed
  BY DEF LogoutAnswered, Move, TypeOK
<1>2. jar' = NoSession /\ \A v \in Window : v # w => ~Asking(v)
  BY DEF LogoutAnswered, CookieInv, Fits, OneAtOnce, Asking, Requesting
<1>3. \A v \in Window : ~Asking(v)'
  BY <1>1, <1>2, ClosedType DEF Asking, Requesting
<1>4. OneAtOnce' /\ LatestLoginOnly' /\ LoggedOutStaysOut' /\ OutsideStays' /\ StateIsLatest'
  BY <1>2, <1>3, NoSessionType DEF OneAtOnce, Asking, Requesting, LatestLoginOnly, LoggedOutStaysOut,
                                   OutsideStays, StateIsLatest
<1>5. StatesDiffer'
  BY <1>1, ClosedType DEF StatesDiffer, CookieInv
<1>6. \A v \in Window : Fits(v)'
  BY <1>1, <1>3, ClosedType DEF Fits, Asking, Requesting, CookieInv
<1> QED BY <1>4, <1>5, <1>6 DEF CookieInv

LEMMA CookieExpiry ==
  ASSUME CookieInv, CookieExpires
  PROVE  CookieInv'
BY NoSessionType DEF CookieExpires, CookieInv, OneAtOnce, Asking, StatesDiffer, StateIsLatest,
                     OutsideStays, Fits, LatestLoginOnly, LoggedOutStaysOut

LEMMA CookieNext == TypeOK /\ OneRequest /\ CookieInv /\ [Next]_vars => CookieInv'
<1> SUFFICES ASSUME TypeOK, OneRequest, CookieInv, [Next]_vars PROVE CookieInv'
  OBVIOUS
<1>1. CASE UNCHANGED browser
  BY <1>1, CookieClose DEF browser
<1>2. ASSUME NEW w \in Window, Refused(w) PROVE CookieInv'
  <2>1. UNCHANGED <<jar, latest, out>> /\ window[w].at = "idp"
        /\ window' = [window EXCEPT ![w] = Closed] /\ window \in [Window -> Place]
    BY <1>2 DEF Refused, Move, TypeOK, Place
  <2>2. \A v \in Window : window'[v] = window[v] \/ (window'[v] = Closed /\ window[v].at # "login")
    BY <2>1
  <2> QED BY <2>1, <2>2, CookieClose
<1>3. ASSUME NEW l \in Login, Import(l) PROVE CookieInv'
  <2>1. \A v \in Window : window[v].login = l => window[v].at # "login"
    BY StateAssumption DEF TypeOK
  <2> QED BY <1>3, <2>1, CookieClose DEF Import
<1>4. ASSUME NEW w \in Window, WindowStep(w) PROVE CookieInv'
  BY <1>2, <1>4, CookieOpenLogin, CookieLoginAnswered, CookieReturn, CookieComplete,
     CookieCompleteAnswered, CookieOpenLogout, CookieLogoutAnswered DEF WindowStep
<1> QED BY <1>1, <1>3, <1>4, CookieExpiry DEF Next, WindowStep, Elsewhere, vars, browser

LEMMA CookieInit == Init => CookieInv
BY ClosedType, NoSessionType
   DEF Init, CookieInv, OneAtOnce, Asking, Requesting, StatesDiffer, StateIsLatest, OutsideStays,
       Fits, LatestLoginOnly, LoggedOutStaysOut

LEMMA CookieHolds == OneRequest /\ Spec => []CookieInv
<1>1. ASSUME OneRequest PROVE Spec => []CookieInv
  <2>1. TypeOK /\ CookieInv /\ [Next]_vars => CookieInv'
    BY <1>1, CookieNext
  <2> QED BY <2>1, CookieInit, SessionTypeCorrect, PTL DEF Spec
<1> QED BY <1>1

(* A browser that waits for its answers completes only the login it began  *)
(* last, and none it began before a logout.                                *)
THEOREM LatestLoginWins == OneRequest /\ Spec => []LatestLoginOnly
<1>1. CookieInv => LatestLoginOnly
  BY DEF CookieInv
<1> QED BY <1>1, CookieHolds, PTL

(* Once such a browser has logged out, its session names no user until a   *)
(* login begun later has completed.                                        *)
THEOREM LogoutLasts == OneRequest /\ Spec => []LoggedOutStaysOut
<1>1. CookieInv => LoggedOutStaysOut
  BY DEF CookieInv
<1> QED BY <1>1, CookieHolds, PTL

(* What Users.tla promises holds of the sessions of a browser too. *)
THEOREM SessionImportsAreRight == Spec => []DuplicatesBounded /\ []AloneLoginIsExact /\ KeptBadgesStay
BY SessionImports, DuplicatesStayBounded, AloneLoginsAreExact, BadgesStay

=============================================================================
