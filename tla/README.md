# Verification of the team example (go-redux-example-2018-10)

The repository is a small web application in which users, once logged in
through an identity provider, form teams for contests. A Go backend
(`src/backend`) keeps users, badges, contests, teams and memberships in a MySQL
database; a React/Redux frontend (`src/frontend`) keeps a local copy of what
the backend has sent. This directory models it in TLA+, checks the models with
TLC and proves the main theorems with TLAPS.

## 1. Inventory

### Components, state and operations

| Component | State it keeps | Operations |
|---|---|---|
| Team service, `backend/model/teams.go`, behind `routes/teams.go` and `routes/contests.go` | tables `teams`, `team_members`; the local variables of every handler that is running | `CreateTeam`, `JoinTeam`, `LeaveTeam`, `UpdateTeam`, `RenewTeamAccessCode`; the queries `IsUserInTeam`, `isUserNotInAnyTeam`, `getTeamMembersCount`, `Load...` |
| Contest access, `backend/model/contests.go` | tables `contests`, `user_badges` (read) | `CanUserAccessContest`, `LoadContest`, `LoadUserContests` |
| Users and badges, `backend/model/users.go`, `auth/user_profile.go` | tables `users`, `user_badges` | `ImportUserProfile`, `UpdateBadges`, `LoadUser`... |
| Response building, `backend/view/` | one `View` per request: result, entities, `LoadSet`s | `ViewUser...`, `ViewContestTeam`, `addTeams`, `addTeamMembers`, `LoadSet.Need/Load` |
| Sessions and login, `backend/auth/` | the session cookie (`state`, `userId`) | `/Login`, `/LoginComplete`, `/Logout`, `GetUserId` |
| Process start, `backend/main.go`, `config/` | none after start | reads the configuration, registers the routes |
| Utilities, `backend/utils/` | none | random strings, JSON answers |
| Browser store and tasks, `frontend/src/Backend/` | `tasks`, `lastError`, `pristineEntities`, `optimisticChanges`, `entities`, `generation` | the reducer, `monitorBackendTask`, `backendGet`, `backendPost` |
| Team saga, `frontend/src/Team/` | `teamId`; the sagas that are running | create, join, leave, access code, open/closed, key |
| Selectors, `frontend/src/Backend/selectors.ts` | a cache of built entities and its generation | `getUser`, `getTeam`, `getContest`... |
| Frontend wiring and build | the Redux store | action creators, entry points, development server |

### Interactions

* The frontend sends HTTP requests; each request is a goroutine of the backend
  that executes SQL statements one after the other on a connection pool shared
  with all other requests. `Model.Transaction` exists (`model.go`) and no
  handler uses it, so every statement commits by itself.
* The answer of a request is built by the view from further `SELECT`s, after the
  handler has written, and merged into the store of the browser on arrival.
* `/LoginComplete` fetches the profile from the identity provider, imports it
  statement by statement and saves the user in the session. The session is the
  cookie itself: the browser sends it with every request, and an answer that saves
  it replaces it when it arrives.
* A login rewrites the user's badges, which decide what contests the user may
  enter; a contest that starts locks its teams (`is_locked`; no code of this
  repository sets it, so it is set by whatever runs the contest).
* In the browser, sagas start tasks, tasks put actions, and the reducer folds
  actions into the store, one at a time. The selectors build a graph of entities
  from the store and keep it until the store's generation number changes.

### What is hard

Every test-then-act sequence of the team service spans several statements that
other requests interleave with; values loaded early are written back late
(`UpdateTeam` writes the whole row); a handler can fail between two writes;
`joined_at` has whole seconds, so the order of seniority has ties; an answer
is read by several `SELECT`s with writes in between; logins of one account overlap,
in one browser (which shares one cookie) and in others; answers
reach the browser in any order; a cancelled or failed task and its optimistic
change end in two different actions. `PROJECT.json` lists each hazard at its line
with the property that covers it.

### What makes each component correct

* *Team service.* A user is in one team of a contest, or in no more than browser tabs
  send requests at once; a team has at most one creator, and one as long as it has
  members; teams do not outgrow their size; a
  deleted team is empty; a locked team does not change; every request is
  answered.
* *Users.* No more rows per account than logins that can overlap and results that broke
  off; a login nothing overlaps leaves the name and badges of its profile, whatever
  earlier ones left; a badge the user keeps is never missing in between.
* *View.* An answer that calls a team the caller's shows its row and the caller in it,
  whatever was written between the `SELECT`s; what it shows of a locked team is final
  once the requests past the lock test are over.
* *Session.* Of the logins a browser has begun only the last can complete; after
  a logout the session names no user until a login begun later completes.
* *Browser store.* A task is listed as long as it runs; an optimistic change is
  shown from the start of its task, never after it, and only another task takes it off
  the screen before; what is shown at rest is what the server last said.
* *Selectors.* A selector returns the whole graph of its entity, cycles and
  missing entities included, never half built and never of an older generation, as long
  as no saved state brings a generation number back.

## 2. Modules

| Module | Models |
|---|---|
| `Teams` | the team service, statement by statement, any number of concurrent requests |
| `TeamService` | what the handlers promise: the same operations, atomic |
| `TeamsRefinement` | the mapping under which `Teams` implements `TeamService` when requests do not overlap |
| `View` | the contest and team answers, `SELECT` by `SELECT`, next to the handlers of `Teams` |
| `Users` | `ImportUserProfile` and `UpdateBadges`, statement by statement, any number of concurrent logins |
| `Session` | the cookie of one browser with several windows, composed with `Users` |
| `Browser` | the store and the sagas of one browser, composed with `TeamService` |
| `Selectors` | the entity graph, its cache and the generation number |
| `MCTeams`, `MCView`, `MCSession`, `MCBrowser`, `MCSelectors` | the instances TLC checks (symmetry sets, what the configurations name) |
| `TeamsProofs` | theorems about `Teams` |
| `TeamsRefinementProofs` | theorems about `Teams` one request at a time, and `TeamsRefinement` |
| `TeamServiceProofs`, `ViewProofs`, `UsersProofs`, `SessionProofs`, `BrowserProofs`, `SelectorsProofs` | theorems about the module of that name |

`View` extends `Teams`, `Browser` extends `TeamService`, `Session` extends `Users`, and the
proof modules follow: `ViewProofs` extends `TeamsProofs`, `BrowserProofs` extends
`TeamServiceProofs`, `SessionProofs` extends `UsersProofs`. `TeamsRefinementProofs` extends `TeamsProofs`.

### `Teams`: the handlers, statement by statement

`teams` and `members` are the two tables as functions on their primary keys
(`tables.go`), `None` where there is no row; `access` is the join of `contests`
and `user_badges` that `CanUserAccessContest` queries; `drawn` remembers the
access codes drawn. Each slot of `Request` is a goroutine with the local
variables of the handler it runs (`call`, `team`, `row`, `member`, `heir`) and
`pc`, its next statement. One action is one SQL statement with the Go code up to
the next one:

| Handler | Actions |
|---|---|
| `CreateTeam` | `CreateBegin` (access), `CreateNotInTeam`, `CreateName`, `CreateTeam` (INSERT team), `CreateMember` (INSERT member) |
| `JoinTeam` | `JoinBegin` (access), `JoinNotInTeam`, `JoinFind`, `JoinSize`, `JoinMember` |
| `LeaveTeam` | `LeaveBegin` (load, lock test), `LeaveLoad`, `LeaveDelete`, `LeaveHeir`, then `LeaveMarkDeleted` or `LeaveTransfer` |
| `UpdateTeam` | `UpdateBegin` (membership), `UpdateLoad` (load, lock test), `UpdateSave` (whole row) |
| `RenewTeamAccessCode` | `RenewBegin` (membership), `RenewLoad` (load, lock test), `RenewSave` |
| environment | `Fault` (a statement fails or the process dies), `Lock` (a contest starts), `BadgesImported` (a login), `Tick` |

A first statement whose test fails leaves no trace, so it is the guard of the
`...Begin` action. `grace` is a history variable: the requests that had passed
the lock test of a team when it was locked.

The constants `Ops`, `Env` and `Tabs` say what clients and environment do in an
instance: the routes they call, what else happens, and how many requests of one user
can be under way at once. They restrict the inputs, not the handlers. `OnePerUser` is
`Tabs = 1`.

### `TeamService` and `TeamsRefinement`: what the handlers promise

`TeamService` has one action per operation that takes effect at once or not at
all; a team is `None`, `Gone` (deleted) or a record whose `joined` has the members
as its domain. `TeamsRefinement` maps the tables to it: a handler that has
written part of its effect is mapped to the state before its first write, so it
takes effect at its last.

The handlers are no transactions, so what they promise holds when there is quiet around
them. `TeamsRefinement` says how much, as two restrictions of `Next`:

* `SteadySpec`: no request fails between two of its writes (`FaultOutside`). A fault before
  the first write may happen, and contests start, badges change and time passes at
  any moment. One request at a time then leaves the tables consistent
  (`ConsistentAtRest`); this is proved, and checked under the next one.
* `QuietSpec`: moreover a contest does not start under a request that is past the lock
  test of its team (`Committed`), and no badges are imported for a user who waits for
  an answer. One request at a time then implements the service (`ImplementsService`),
  and a start of a contest or an import of badges is a step of the service too.

Without the second restriction the handler still does what the service, which sees the
lock or the badges at the moment of the write, refuses; what a lock adds is the subject of
`FrozenOnceDrained`. A fault between two writes leaves a team without creator or a deleted
team not marked. With overlapping requests neither holds: section 5 lists how.

### `Browser`: one user's store and sagas

`store` is the part of the Redux state the reducers of `Backend/index.ts` and
`Team/index.ts` change: `tasks`, `lastError`, `optimistic` (the list
`optimisticChanges` never has more than one element), `pristine`, `entities`,
`contestId`, `teamId`. Every reducer case is an operator of its name from a
store to the next. `saga` is what each task is doing: asleep (`delay(250)`),
request sent, answer on its way, ended.

One action is one event of the JavaScript loop with everything it causes before
the loop takes the next: redux-saga carries out the `put`s of a saga in order, in
its `asap` queue, before the event returns. So `AnswerArrives` is
`BACKEND_ENTITIES_LOADED`, then `TEAM_CHANGED` where the saga puts it, then
`BACKEND_TASK_FAILED` or not, then `BACKEND_TASK_DONE`; and `TypeKey` is the cancelled
task's `BACKEND_TASK_DONE` before the new `BACKEND_TASK_STARTED`, as `takeLatest` does.

| Code | Actions |
|---|---|
| `takeEvery` of `CREATE_TEAM`, `JOIN_TEAM`, `LEAVE_TEAM`, `CHANGE_TEAM_ACCESS_CODE`, `CHANGE_TEAM_IS_OPEN` with `monitorBackendTask` | `PressCreate`, `PressJoin`, `PressLeave`, `PressNewCode`, `PressOpen` |
| `takeLatest` of `CHANGE_TEAM_KEY` | `TypeKey`, `DelayOver` |
| `LEAVE_TEAM` before the watchers are there: the reducer alone | `LeaveUnheard` |
| `backendGet`, `backendPost`, the rest of each saga | `AnswerArrives` (`Delivered`) |
| the rejections of `fetchJson`, `postJson` | `ConnectionLost` |
| `CONTEST_CHANGED` | `ChangeContest` |
| the routes, at the service | `Handled` |
| other users, other windows, the start of contests | `Others` |

The saga starts with a load, `yield call(monitorBackendTask, ...)`, which returns when the
task it forks is over; the watchers are installed after it. `Watching` says that, and is a
guard of every action a watcher answers. `CONTEST_CHANGED` is a plain action that the
reducer handles, also during a task and before the watchers, so `ChangeContest` is
always possible.

The entities of teams are modelled by facet (`main`, `member`, `members`; the
facet `!` is `over`), which is how the answers and `updateEntities` treat them. The
service is `TeamService` and an answer is built at one moment, so what `Browser` shows of
the browser it shows over a service that keeps its promises; what overlapping handlers do
is the subject of `Teams`, and what an answer read in several statements can mix that
of `View`.

The repository has no user interface. `Browser` lets the user act as the types
of the actions suggest: create or join while no loaded team is shown, everything
else on the team shown. The root saga (`wiring/sagas.ts`) calls a `saga` that
`Backend/index.ts` does not export and catches the error; the team saga is
modelled as if it were the one called.

### `View`: answers read between the statements of other requests

`View` extends `Teams`: `reading[r]` is one request that builds an answer, its next
statement `at`, the caller, and what it has read, and every step of `Teams` (`Written`) may
come between two of its `SELECT`s, so also half of a hand-over, an update that unlocks a
team and a join into a deleted one. A reading is a GET, or what follows the write of a
POST: both call `ViewUserContestTeam`. It counts as a request of its user, so of the `Tabs`
a user has one is taken by it. `settled` is history: the teams whose row was read locked
when no request that had passed their lock test was left (`grace`).

| Code | Actions |
|---|---|
| `ViewUserContestTeam`: `LoadUserContestTeam`, `addTeams`, `addTeamMembers`, `LoadSet.Load(addUsers)` | `AskTeam`, `ReadTeam`, `ReadRow`, `ReadMembers`, `ReadUsers` |
| `ViewUserContest`: access test, `addContestTeams` | `AskContest`, `ReadList` |
| `Flat` and the answer, or the error of a `SELECT` | `Sent` |
| the statements of the handlers, faults, locks, logins | `Written` |

`LoadUserContestTeam` has no `deleted_at` in its `WHERE`, and neither has `LoadTeamsById`: a
user who ended in a deleted team is answered that team. With several teams of a contest
`LIMIT 1` takes any.

`ReadUsers` can come back with no user, since the error of `users.Load` is dropped
(`collections.go:59`).

### `Users` and `Session`: login

Each slot of `Login` is one `/LoginComplete` that has fetched its profile (`Fetch`) and
runs `ImportUserProfile` and `UpdateBadges` one statement at a time: `Find`, `Update` or
`Insert`, `DeleteBadges`, `AddBadges`, `Finish`; `Fault` ends it anywhere. `alone` is a history
variable: no other login of the account ran since this one began. `rows.Next` is false for
a result that broke off as for an empty one, and `rows.Err` is not asked: with `Faults`,
`Find` may go on to `Insert` although there are rows, and `broken` counts how often it has
(at most `MaxBroken` times for an account). A user's badges are a set, of which `Badge` are
the ones the `badges` table knows.

`Session` adds a browser: `jar` is its cookie, `window[w]` what is going on in a window,
with the session that the request carries or its answer saves. The windows share
the cookie and an answer overwrites it.

| Code | Actions |
|---|---|
| `/Login`, `newSessionState`, redirect | `OpenLogin`, `LoginAnswered` |
| `/LoginComplete`: error, wrong state, failed exchange or profile | `Refused` |
| `/LoginComplete`: state checked, profile imported, `setUserId` | `Return`, `Import`, `Complete`, `CompleteAnswered` |
| `/Logout`, `clearSession` | `OpenLogout`, `LogoutAnswered` |
| `MaxAge` of the cookie store | `CookieExpires` |
| `/LoginComplete` of other browsers | `Elsewhere` |

`latest` and `out` are history variables: the window that opened `/Login` last, and
whether the browser has logged out since a login completed.

### `Selectors`: the entity graph

`entities` maps a node (a contest, team, member or user) to its facets, or `Absent`;
of the facets the model keeps a content and the nodes its ids name. The selectors call
each other, and `calls` is their stack: of each entity being loaded, the ids not visited
yet. A JavaScript event is not interrupted, so the store changes only while `calls` is
empty. Each call is a step, which needs no recursive operator and shows the cache half
built. A node of `Null` is the id null of a collection, which selects the null entity;
no `refs` contain it. `asked` and `behind` are history variables: the nodes components have
selected since the cache was cleared, and whether since then a state was loaded whose
generation is no newer than the cache.

| Code | Actions |
|---|---|
| `getContest`, `getTeam`, ... called by a component | `Select` |
| `visitEntity`: `maybeClearCache`, the cached entity, the thunk of a missing one or the null entity, the entity put in the cache before its load | `Visit`, a part of `Select` and `Descend` |
| the selector calls inside a load | `Descend` |
| the end of a load: the value is set | `Return` |
| the reducers that end in `flushSelectorCache` | `Change` |
| the development action that replaces the state, generation included | `Load` |

## 3. Runs

`tlc -config X.cfg M` checks module `M` with configuration `X.cfg`, as `PROJECT.json`
pairs them under `runs`; `tlapm M.tla` checks the proofs of module `M`. The
definitions with a suffix (`HasRoom_offByOne`) are the definition without it as a
plausible bug would change it: with it in place, the run of the property named
under `mutants` fails.

| Run | Instance | What it shows |
|---|---|---|
| `users` | 3 users, 3 request slots, `Tabs` 1; create, join, leave, faults | no user is in more teams of a contest than tabs, here one, deleted ones included; no team has two creators |
| `tabs` | 3 users, 2 slots, `Tabs` 2, all routes, contests start, users log in again | tables and locals have their types; size overshoots by the requests in flight at most; locked teams freeze |
| `alone` | `QuietSpec`: one request at a time, 3 users, 2 teams of one contest, all routes, 3 ranks of seniority | tables consistent at rest; implements `TeamService`, locks and imports included |
| `view` | `View`: 3 users, size 2, 1 team, 2 slots that write and 1 that reads, `Tabs` 1; create, join, leave, update, faults, the contest starts | readings have their types; the caller is in the team shown; what is shown of a team that was locked and drained is final |
| `logins` | `Session`: 1 account, 2 badges, 2 logins at a time, 2 windows, faults, 1 broken result | types; duplicate rows bounded; a login alone is exact; badges kept stay; only the last login completes; a logout lasts |
| `browser_tasks` | 2 overlapping tasks, other windows of the user, contests start, lost connections; fairness | tasks, optimistic change, entities coherent; facets kept; a change stays until a task starts or ends; every task leaves the list |
| `browser_alone` | one task at a time, 2 contests, 2 teams, another user, lost connections | the browser at rest shows what the service has; only a late answer brings up a team of another contest |
| `selectors` | a team, 2 members, a user, a null id; states with any generation are loaded; deadlock checked | what is cached is complete, and of the current state unless a load brought back a number; a selector returns the whole graph; an entity handed out stays; each step of a selector leaves less to do and none is stuck |
| `deleted_with_member` | 2 users | violated: a team ends deleted with a member |
| `lock_undone` | 1 user, the contest starts | violated: an update unlocks the team |
| `other_contest` | 2 contests, one task at a time | violated: a late answer shows the team of another contest |
| `leaving_fails` | 1 user | violated: leaving a team ends in an error in the browser |

### Bounds, and why they are enough

* *Users.* A hand-over needs a leaving creator, an heir and someone whose move
  interferes: three users. Two suffice where the property is about a request and
  its own rows.
* *Requests* (`Request`). The races are between one handler's test and its write;
  two slots give each handler one adversary, three let a join and a leave both
  hit the same hand-over.
* *Teams, names, codes.* Two teams of one contest for exclusivity; one in `view`, which
  is about what is read of a team while it is created, handed over, locked, unlocked and
  deleted; a code more than teams where a code is renewed. Where an id or code is used up the INSERT
  fails, which is also what a full or refusing database does.
* *Time* (`MaxTime`). One tick gives ties and an order of `joined_at`; 0 makes all
  members tie, where every choice of an heir is possible; 2 in `alone` gives three
  members three ranks.
* *Size* (`MaxSize`, 5 in the code). Less than the number of users, so that the
  limit is reached; 3 in `alone`, so that a leaving creator has a choice of heirs.
* *Contests.* One in the runs of `Teams`: every further contest multiplies what the users
  can enter, and the theorems about `Teams` and `View` are for any number (that the row shown
  is of the contest asked for is only proved). Two in two runs of `Browser`, where the user
  changes from one to the other.
* *Readers.* One: readings share nothing. Two requests write meanwhile, as a hand-over or
  a deletion needs a join or a leave to meet. `ViewProofs` drops both bounds.
* *Tabs.* One for what holds of a user who waits. `tabs` has two; `MembershipsBounded` is
  proved for any number, and a run that exceeds it with two tabs would need three teams
  and three requests of one user.
* *Logins.* Two slots: one login in the way of another; a duplicate user and a
  mixture of badges need no third. Three user ids, so that the bound on duplicates
  can be exceeded; one broken result, which alone adds a row to the one there is. One
  account, since logins of two accounts touch different rows; two badges listed, of which
  one is known. `UsersProofs` drops all of these.
* *Windows, states.* Two windows, each with a login under way, and a third state
  for the cookie. `SessionProofs` drops the bound.
* *Graph.* One team, two members and a user: a member names its team, so there are
  cycles, a member that is not loaded and one not in the list. A contest names teams as
  a team its members and adds no shape. Two generations after the first, so that a cache is
  filled before and after a change and a load can go back as well as ahead; any store
  leads to any other that loses no entity, so longer runs repeat these. `SelectorsProofs` drops both bounds.
* *Tasks.* Two: the reducer keeps one optimistic change, so a third task does
  nothing to it that a second does not. Two keys, so that a newer key differs from
  the one it cancels. `BrowserProofs` drops the bound.
* In `tabs`, size 1 with two slots and three users lets the bound `MaxSize - 1 + 2`
  be exceeded by a handler that tests wrongly.

`CHECK_DEADLOCK FALSE` is set in every configuration but `Selectors.cfg`: a server without
requests and a browser whose user does nothing are legitimate final states, and bounded
ids, codes and time run out. A component can always call a selector again, so in
`selectors` a deadlock would be a selector that does not return.

### Symmetry

Users, contests, names, ids, codes, keys, slots, tasks, accounts, badges, windows
and states are compared for equality only, so permuting them is sound. `Me` is kept
out of the permutations, and `selectors` permutes the members only. `browser_tasks` checks
liveness and has no symmetry. The `CHOOSE`s of the refinement mapping have one possible
value in every state reached.

### Fairness

`Browser!FairSpec` has weak fairness of `Progress(k)` for every task: the timer of
`delay` fires, a request is answered or its connection breaks. That is what a
browser's event loop and `fetch` give; no fairness is assumed of users, of other
windows or of which answer arrives. All other specifications are checked for safety
alone: a handler has no loop and waits for nothing but its next statement.

## 4. What is proved

All proofs are for any finite set of users, requests and logins, any ids, codes,
names, contests, windows and states, and any `MaxSize` and `MaxTime`, under the named
`ASSUME`s of the modules; TLC evaluates the same assumptions in every run.

About `Teams`:

* `TypeCorrect` (`TypeOK`). Inductive as `Loaded(r)` is part of it: a request at a
  statement has set what the statement reads.
* `TeamsPerUser` (`MembershipsBounded`), for any number of tabs. The test of
  `isUserNotInAnyTeam` is no lock: `TabsInv` counts, for a user and a contest, the teams the
  user is in and the requests past the test, and says that the sum stays within `Tabs`. A
  request passes the test only while the user is in no team, when all that are past it are
  requests of that user under way, and each INSERT moves one from the second count to the
  first.
* `CreatorUnique` (`AtMostOneCreator`), for `OnePerUser`. While a handler is in the
  hand-over, its team has no creator; a team being created has no member. The tests
  alone are not inductive, because the tables change between test and write.
* `LockedTeamsFreeze` (`FrozenOnceDrained`), an action property. Invariant: a request
  past the lock test of a locked team is in `grace`, and a row about to be saved
  was loaded unlocked.
* `SizesBounded` (`SizeBounded`). Invariant: members plus requests between the count
  and the INSERT stay below the bound, by cardinalities of finite sets.

About `Teams` one request at a time (`OneRequest`: there is one request slot), and
`TeamsRefinement`:

* `ConsistentAlone` (`ConsistentAtRest`), for `SteadySpec`. The property is not inductive,
  since it speaks of the tables at rest: every handler that writes twice leaves it in
  between. `ConsInv` speaks of the rows as the service has them (`RowsOf`), where a
  creator who is leaving stays until the hand-over, and says that those of a live team
  are always `Sound`: one creator, who joined first, and at most `MaxSize` members. To
  it belongs what the request in flight has tested and still finds (`RequestSound`): the
  name is free, the team has room, the heir is one of the oldest.
* `HandlersImplementService` (`ImplementsService`), for `QuietSpec`: the initial tables map to
  the initial service, and each statement to a step of the service or to none, as do a
  fault (`FaultStep`), the start of a contest (`MapsLock`) and an import of badges. `UnlockedInv`
  says that a team is unlocked as long as a request past its lock test runs, so that
  the service does not refuse what the handler writes. Each statement that writes has a
  lemma that says what it does to the rows of its team, and `ConsInv` and the refinement
  both follow from it. The refinement also needs `RefInv`: codes are drawn and differ, and what the handler tested against badges,
  membership and code still holds. A team's creator, a `CHOOSE` in the mapping, is
  determined because `Sound` has exactly one.

About `TeamService`:

* `ServiceTypeCorrect`, `ExclusiveMemberships`, `SeniorCreators`. `ServiceInv` is the types with
  `MembershipsExclusive` and `CreatorIsSenior`: a new member is no older than the creator
  because every time in `joined` is a past one. The proof reduces a step to what it
  writes (`UserStep`) and shows that this is a team no other team conflicts with
  (`Allowed`).

About `View`:

* `ReadingsDoNotWrite`: a behaviour of `View` is one of `Teams`, so what is proved of the
  handlers holds next to readings.
* `ViewTypeCorrect`, `CallersAreShown` (for `OnePerUser`), `LockedAnswersStay`. `Good(a)` says what
  stays true of what has been read, whatever statement of another request comes next: a
  user stays a member who has no request of their own under way (`MemberStays`: no handler
  takes out anyone but its caller, not even the one that marks the team deleted), so the
  team found is still the caller's when its row and its members are read; and a team that
  is locked with no request past the lock test keeps its row and its members
  (`SettledStays`, from `FrozenStep` of `TeamsProofs`). The members have to be read after the
  row; with the order swapped (`Following_membersFirst`) the run finds the violation.

About `Users` and `Session`:

* `UsersTypeCorrect`, `DuplicatesStayBounded`, `AloneLoginsAreExact`, `BadgesStay`. The bound on
  duplicates is not inductive: `CountInv` adds the logins about to insert, by
  cardinalities, those sent there by a broken result among them. `AloneInv` says how far
  each statement of an undisturbed login has brought the tables, from whatever state it
  found.
* `SessionImports`: a behaviour of `Session` is one of `Users`, so these hold of it
  (`SessionImportsAreRight`).
* `SessionTypeCorrect`; `LatestLoginWins` and `LogoutLasts` for `OneRequest`. `CookieInv` says which
  states and users can still get into the cookie: at most one answer is on its way,
  the states of the windows differ, and an answer of `/Login` brings no user back.

About `Browser`:

* `TasksListed`, `ShownPending`, `ShownFresh`, `FacetsKept`, for any
  number of tasks, any answers and any behaviour of the service. The invariant is
  their conjunction with `OneKeyTask`: at most one key change is under way, so the
  task that `takeLatest` ends is the only one. One lemma per reducer says what it
  does to the fields; three lemmas (`TaskStarts`, `TaskGoesOn`, `TaskEnds`) carry the
  invariant over a step.
* `TypeCorrect` (`TypeOK`). An answer has its type because it is read from a service that
  has its own (`ServiceInv`), and `entities` because a change under way is one of `Settings`.
* `OnlyLateAnswers` (`OnlyLateAnswersMix`), for any number of tasks and contests that change
  at any moment. `ToldInv`: whatever the store, an answer on its way or the service tells
  of a team's contest is the same contest (`OneContest`, as ids are not handed out twice and
  no operation moves a team); the team shown is loaded (`ShownLoaded`); the team an answer
  names is of the contest its task asked about (`AnswersTell`). So an answer to a task of the
  current contest names a team of it, and `TeamIsOfContest` can end in no other way than by
  the answer to a task begun before the contest was changed, which is what the run
  `other_contest` shows.
* `ChangesStay` (`PendingStays`), for any number of tasks: from `ShowsWhatItHas`, and from the
  order in which `takeLatest` ends the old task before it starts the new one.
* `StaysInStep` (`InStep`), for `OneAtATime` and no other users or windows ("others" not in
  `Env`), with any connections lost and the contest changed at any moment, also during a
  task. The invariant adds, for the task under way, what it
  does to what is shown (`Following`: a create, a join or a leave runs while no team is
  shown) and that an answer on its way carries what the service still has (`Carries`), as
  nobody but the user changes the user's teams (`MineKept`); merging it then makes the
  team shown equal to the service's.

About `Selectors`, for entities that name each other in any way:

* `TypeCorrect` (`TypeOK`), `FreshCache` (`CacheIsFresh`) and `WholeGraph` (`SelectsTheGraph`). The two
  last speak of a cache at rest and are not inductive. `Whole` says what holds while selectors
  run: every cached entity is either built, with all it names cached, or it is loading and
  on the stack; what an entity on the stack names is cached or still to be visited by that
  call; and nothing is cached that the nodes asked for do not lead to. That a cache is closed
  and not half built (`GraphSound`) holds whatever is loaded; that it is of the current state
  holds unless a load has brought a number back (`behind`). `Reach` is the least
  set closed under the ids in the store, so the cache of the returned selector, which is
  closed and contains what was asked for, contains `Reach(asked)` too.
* `StableEntities` (`EntitiesStay`), an action property from the same invariant: only an entity
  that is loading is ever written again.
* `EverySelectorReturns` (`SelectorsEnd`): each step of a running selector shrinks the entities
  left to load or the ids left to visit and enlarges neither. Both are subsets of finite
  sets when there are finitely many nodes, so a selector takes finitely many steps,
  whatever cycles the entities form. That a running selector can always take its next step is
  `ENABLED`, beyond the prover: the deadlock check of the run shows it.

Model-checked only: `TasksEnd`, which is liveness under fairness and beyond the prover,
and the absence of deadlock in `selectors`. Proved only: the invariants of `TeamService`; what
they say is checked of the handlers themselves in `alone` (`ConsistentAtRest`). The
violation runs are counterexamples and need no proof.

## 5. What does not hold

The four violation runs each show a statement of the sources that the code breaks;
`PROJECT.json` quotes them under `findings`. The same races have further effects
that have no run of their own because the cause is the same:

* the heir of a leaving creator can leave between being selected and promoted: the
  `UPDATE` (`teams.go:196`) then matches no row, and a team with members has no
  creator. No source says it has one, so no run is made of it;
* two `CreateTeam`s can insert one name (`NamesUnique`), and concurrent joins exceed
  `MaxSize` (`SizeNotExceeded`), up to the proved bound;
* a user with two windows can be in two teams of a contest, and with more in more
  (`MembershipsBounded` says how many);
* an answer can call a deleted team the caller's, since `LoadUserContestTeam` does not look
  at `deleted_at` and a join that meets the last leave ends there (`deleted_with_member`);
* an answer read while a request past the lock test runs can show a team locked that
  then gets a member or is unlocked again (`lock_undone`), so `LockedAnswersAreFinal` speaks of
  teams read after that;
* `UpdateTeam` writes an old access code or a cleared `deleted_at` back, for the same
  reason as it unlocks;
* two logins of one account that overlap can leave the user with badges of both
  profiles, until a login nothing overlaps (`AloneLoginIsExact` says that one is exact);
* without `OneRequest`, the late answer of a `/Login` or `/LoginComplete` sent before a
  logout brings the user back: the server keeps no session it could end;
* a second row of a badge in `user_badges` makes the count in `CanUserAccessContest` 2 and
  denies access (`contests.go:30`); a unique key would prevent it;
* a state saved in development and loaded again can have a generation the cache has
  seen, and the selectors then return entities of the other state (the case `behind` of
  `CacheIsFresh` and `SelectsTheGraph`);
* every `SELECT` of `users.go:56` that breaks off before its first row makes the login insert a
  further row of its account;
* a `LEAVE_TEAM` before the first load has ended sets `teamId` to null and sends nothing;
* without `OnePerUser`, a user who leaves in one window while an answer is read in
  another can get an answer that names the team without its user in it;
* with overlapping tasks a pending change is hidden by the start or the end of
  another task, which `Backend/index.ts:39` says ("XXX this is wrong"); `PendingStays` says that
  nothing else hides it;
* `UpdateTeam` ignores `publicKey`, so a key the browser shows as pending is never
  stored.

## 6. Assumptions

* The schema of the database is not in the repository. Primary keys are those
  `tables.go` declares: a second `team_members` row with the same key is refused.
  `user_badges` holds a badge of a user once, as `INSERT IGNORE` suggests;
  `users.foreign_id` may be unique or not (`UniqueAccounts`).
* Each statement commits by itself: `Model.Transaction` has no caller.
* `NOW()` has whole seconds (`joined_at` is a DATETIME read as a string).
* A drawn access code is fresh: 64 random bits; the code has a TODO for the
  conflict. A drawn state is fresh: 256 random bits.
* `is_locked` is set from outside the repository; a lock is never lifted from
  outside.
* `OnePerUser`, that is `Tabs = 1` (in `users`, `view` and the theorems that name it): a user
  waits for an answer before the next request. A second window breaks it; section 5
  says what follows.
* `OneRequest` (in `logins` and two theorems): a browser waits for the answer of a
  session route before it requests another. Windows may stay at the identity
  provider as long as they like.
* In `InStep`, the service is done with a request whose connection broke before it
  handles the next request of that browser.
* A `nil` or a missing value is no value: `None` is no row, team or facet (`NoneAssumption`,
  `NullAssumption`), an entity that is not loaded has no facets (`AbsentAssumption`), and the
  mark of a deleted team is no team (`GoneAssumption`).

## 7. Not modelled

* The landing page and `/User` (`routes/landing.go`, `routes/users.go`): one or two
  reads each, of tables nothing relates.
* What a badge's `do_not_possess` and the status of the profile request mean: the
  code looks at neither.
* The catch around the reducers, and the root saga that calls a saga which does not
  exist: both report an error of the program and do nothing else.
* `loggedOut` (no code puts `BACKEND_LOGGED_OUT`), `contestIds`, `userId`, and `CLEAR_ERROR` (no
  reducer handles it).
* Process start, configuration, build, development server, random characters,
  JSON and HTML formatting: no state that the properties tell apart.

## 8. Possible extensions

1. `ImplementsService` for requests of different teams and users that overlap: `Sound` and
   the lemmas of `TeamsRefinementProofs` are about one team and one request, and would
   carry over to a team that one request at a time writes to.
2. `InStep` for requests that outlive their connection.
