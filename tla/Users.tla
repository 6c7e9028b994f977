-------------------------------- MODULE Users --------------------------------
(***************************************************************************)
(* What a login does to the tables users and user_badges (backend          *)
(* model/users.go, ImportUserProfile and UpdateBadges).  The profile is    *)
(* fetched once; the statements that follow each commit by themselves, so  *)
(* the logins of several windows and browsers interleave.  One action is   *)
(* one statement.                                                          *)
(*                                                                         *)
(* Of the names of a user one is kept, and of the columns of user_badges   *)
(* the set of badges each user holds.                                      *)
(***************************************************************************)
EXTENDS Naturals, FiniteSets

CONSTANTS
  Account,         \* ids the identity provider gives: users.foreign_id
  Name,
  Symbol,          \* badge urls a profile may list
  Badge,           \* those the badges table knows
  UserId,          \* ids the users table can hand out (bounds the INSERTs)
  Login,           \* slots for /LoginComplete requests (bounds the concurrency)
  None,            \* no row
  UniqueAccounts,  \* TRUE: the schema, which the repository does not have,
                   \* makes foreign_id unique
  Faults,          \* TRUE: a statement may fail, the process die, or the
                   \* result of a SELECT break off before its first row
  MaxBroken        \* such results for one account (bounds the history)

VARIABLES
  users,     \* users table: user id -> row or None
  held,      \* user_badges: user id -> badges
  pc,        \* next statement of each login
  profile,   \* the profile it imports
  user,      \* userId
  alone,     \* history: no other login of the account ran since it began
  broken     \* history: account -> results that hid its row from a login

imports == <<users, held, pc, profile, user, alone, broken>>

UserRow == [account : Account, name : Name]
Profile == [account : Account, name : Name, badges : SUBSET Symbol]
PC      == {"idle", "find", "update", "insert", "delete", "add", "done"}

ASSUME LoginAssumption  == IsFiniteSet(Login) /\ Login # {}
ASSUME BadgeAssumption  == Badge \subseteq Symbol
ASSUME RowAssumption    == None \notin UserRow \cup UserId
ASSUME UsersSwitches    == UniqueAccounts \in BOOLEAN /\ Faults \in BOOLEAN
                           /\ MaxBroken \in Nat

Rows(a)  == {u \in UserId : users[u] # None /\ users[u].account = a}
Busy(l)  == pc[l] # "idle"
Of(l, a) == Busy(l) /\ profile[l].account = a
Known(l) == profile[l].badges \cap Badge

Goto(l, s)   == pc' = [pc EXCEPT ![l] = s] /\ UNCHANGED <<profile, alone>>
Work(l, u, s) == user' = [user EXCEPT ![l] = u] /\ Goto(l, s)

NoProfile == [account |-> None, name |-> None, badges |-> {}]

Stop(l) ==
  /\ pc' = [pc EXCEPT ![l] = "idle"]
  /\ profile' = [profile EXCEPT ![l] = NoProfile]
  /\ user' = [user EXCEPT ![l] = None]
  /\ alone' = [alone EXCEPT ![l] = FALSE]

-----------------------------------------------------------------------------
(* The profile of an account arrives.  Badges collects the url of every    *)
(* badge listed, whatever its other fields.  An answer that is no profile  *)
(* reads as one with an empty id and no badge.                             *)
Fetch(l, p) ==
  /\ ~Busy(l)
  /\ pc' = [pc EXCEPT ![l] = "find"]
  /\ profile' = [profile EXCEPT ![l] = p]
  /\ alone' = [k \in Login |->
       IF k = l THEN \A j \in Login : ~Of(j, p.account)
       ELSE alone[k] /\ ~Of(k, p.account)]
  /\ UNCHANGED <<users, held, user, broken>>

(* SELECT id FROM users WHERE foreign_id = ?: of several rows, any.  A     *)
(* result that breaks off reads as one without a row: rows.Next is false,  *)
(* and nobody asks rows.Err.                                               *)
Find_missesRow(l) ==
  /\ pc[l] = "find"
  /\ \/ \E u \in Rows(profile[l].account) : Work(l, u, "update")
     \/ Work(l, None, "insert")
  /\ UNCHANGED <<users, held, broken>>
Find(l) ==
  /\ pc[l] = "find"
  /\ LET a == profile[l].account IN
       \/ /\ \E u \in Rows(a) : Work(l, u, "update")
          /\ UNCHANGED broken
       \/ /\ Rows(a) = {} /\ Work(l, None, "insert")
          /\ UNCHANGED broken
       \/ /\ Faults /\ Rows(a) # {} /\ broken[a] < MaxBroken
          /\ Work(l, None, "insert")
          /\ broken' = [broken EXCEPT ![a] = @ + 1]
  /\ UNCHANGED <<users, held>>

Update(l) ==
  /\ pc[l] = "update"
  /\ users' = [users EXCEPT ![user[l]].name = profile[l].name]
  /\ Goto(l, "delete")
  /\ UNCHANGED <<held, user, broken>>

(* The INSERT fails on a unique column, or with no id left in the model.   *)
Insert(l) ==
  LET free == {u \in UserId : users[u] = None}
      refused == free = {} \/ (UniqueAccounts /\ Rows(profile[l].account) # {}) IN
  /\ pc[l] = "insert"
  /\ \/ \E u \in free :
          /\ ~refused
          /\ users' = [users EXCEPT ![u] = [account |-> profile[l].account, name |-> profile[l].name]]
          /\ Work(l, u, "delete")
     \/ refused /\ Stop(l) /\ UNCHANGED users
  /\ UNCHANGED <<held, broken>>

(* DELETE ... NOT IN (?), or every badge when the profile lists none.      *)
DeleteBadges_all(l) ==
  /\ pc[l] = "delete"
  /\ held' = [held EXCEPT ![user[l]] = {}]
  /\ Goto(l, IF profile[l].badges = {} THEN "done" ELSE "add")
  /\ UNCHANGED <<users, user, broken>>
DeleteBadges_notWhenNone(l) ==
  /\ pc[l] = "delete"
  /\ held' = IF profile[l].badges = {} THEN held
             ELSE [held EXCEPT ![user[l]] = @ \cap profile[l].badges]
  /\ Goto(l, IF profile[l].badges = {} THEN "done" ELSE "add")
  /\ UNCHANGED <<users, user, broken>>
DeleteBadges(l) ==
  /\ pc[l] = "delete"
  /\ held' = [held EXCEPT ![user[l]] = @ \cap profile[l].badges]
  /\ Goto(l, IF profile[l].badges = {} THEN "done" ELSE "add")
  /\ UNCHANGED <<users, user, broken>>

(* INSERT IGNORE ... SELECT of the badges the table knows. *)
AddBadges(l) ==
  /\ pc[l] = "add"
  /\ held' = [held EXCEPT ![user[l]] = @ \cup Known(l)]
  /\ Goto(l, "done")
  /\ UNCHANGED <<users, user, broken>>

(* ImportUserProfile returns the id of the user. *)
Finish(l) ==
  /\ pc[l] = "done"
  /\ Stop(l)
  /\ UNCHANGED <<users, held, broken>>

(* A statement fails or the process dies: what is written stays written.   *)
Fault(l) ==
  /\ Faults /\ Busy(l)
  /\ Stop(l)
  /\ UNCHANGED <<users, held, broken>>

-----------------------------------------------------------------------------
UsersInit ==
  /\ users   = [u \in UserId |-> None]
  /\ held    = [u \in UserId |-> {}]
  /\ pc      = [l \in Login |-> "idle"]
  /\ profile = [l \in Login |-> NoProfile]
  /\ user    = [l \in Login |-> None]
  /\ alone   = [l \in Login |-> FALSE]
  /\ broken  = [a \in Account |-> 0]

Statement(l) ==
  Find(l) \/ Update(l) \/ Insert(l) \/ DeleteBadges(l) \/ AddBadges(l)

UsersNext ==
  \E l \in Login :
    (\E p \in Profile : Fetch(l, p)) \/ Statement(l) \/ Finish(l) \/ Fault(l)

UsersSpec == UsersInit /\ [][UsersNext]_imports

-----------------------------------------------------------------------------
(* Properties. *)

(* Tables and locals hold what they should, and a login that is past its   *)
(* row has one, of its account.                                            *)
UsersTypeOK ==
  /\ users \in [UserId -> UserRow \cup {None}]
  /\ held \in [UserId -> SUBSET Badge]
  /\ pc \in [Login -> PC]
  /\ profile \in [Login -> Profile \cup {NoProfile}]
  /\ user \in [Login -> UserId \cup {None}]
  /\ alone \in [Login -> BOOLEAN]
  /\ broken \in [Account -> 0 .. MaxBroken]
  /\ \A l \in Login :
       /\ Busy(l) => profile[l] \in Profile
       /\ pc[l] \in {"update", "delete", "add", "done"} =>
            user[l] \in Rows(profile[l].account)

(* First logins of one account that overlap may each insert a row, and so  *)
(* may each login whose result broke off, but nothing else does: whoever   *)
(* comes later and reads a row does not insert.  One row if the schema     *)
(* makes foreign_id unique.                                                *)
DuplicatesBounded ==
  \A a \in Account :
    Cardinality(Rows(a)) <= IF UniqueAccounts THEN 1 ELSE Cardinality(Login) + broken[a]

(* A login no other login of the account overlaps leaves the user exactly  *)
(* as its profile says, whatever earlier logins that failed half-way or    *)
(* wrote a mixture of two profiles left behind.                            *)
AloneLoginIsExact ==
  \A l \in Login : pc[l] = "done" /\ alone[l] =>
    /\ users[user[l]].name = profile[l].name
    /\ held[user[l]] = Known(l)

(* A badge is taken away only for a profile that lacks it: no contest      *)
(* access test that runs between the statements of a login misses a badge  *)
(* the user had before and has after.                                      *)
KeptBadgesStay ==
  [][\A u \in UserId : \A b \in held[u] :
       (\A l \in Login : Busy(l) /\ user[l] = u => b \in profile[l].badges)
       => b \in held'[u]]_held

=============================================================================
