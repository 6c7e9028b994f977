------------------------------- MODULE Browser ------------------------------
(***************************************************************************)
(* The browser of one user, Me: the store (frontend Backend/index.ts,      *)
(* Team/index.ts, wiring/store.ts) and the sagas that talk to the team     *)
(* service.  The service is TeamService.tla, which other users and other   *)
(* windows of Me may call as well.                                         *)
(*                                                                         *)
(* JavaScript runs an event to its end before the next, and redux-saga     *)
(* carries out the puts an event causes before it returns, so one action   *)
(* is one event with all its store updates: something the user does, a     *)
(* timer, an answer.                                                       *)
(***************************************************************************)
EXTENDS TeamService

CONSTANTS
  Me,          \* the user of this browser
  Key,         \* public keys the user types
  Unknown,     \* 'unknown' in store.ts
  Task,        \* task references (bounds the tasks in progress)
  Kinds,       \* what the user does: subset of AllKinds
  Env,         \* what else may happen: subset of AllEnv
  OneAtATime   \* TRUE: the user waits for a task to end before the next press

VARIABLES
  store,       \* the Redux state
  saga         \* task -> what its saga is doing

vars == <<service, store, saga>>

AllKinds == {"create", "join", "leave", "code", "open", "key", "contest"}
AllEnv   == {"others", "strangers", "loss"}

ASSUME MeAssumption      == Me \in User /\ Task # {}
ASSUME UnknownAssumption == Unknown \notin TeamId \cup {None} /\ None \notin TeamId \cup Task
ASSUME SwitchAssumption  == Kinds \subseteq AllKinds /\ Env \subseteq AllEnv /\ OneAtATime \in BOOLEAN

(* Facets of a team, and what a change not confirmed yet sets. *)
MainFacet  == [contest : Contest, name : Name, open : BOOLEAN, locked : BOOLEAN]
Roster     == UNION {[us -> 0 .. MaxTime] : us \in SUBSET User}
StoredTeam == [main : MainFacet \cup {None}, member : Code \cup {None}, members : Roster \cup {None}]
Settings   == ({"open"} \X BOOLEAN) \cup ({"key"} \X Key)
Errors     == {"refused", "lost", "TypeError"}

ASSUME NullAssumption == None \notin MainFacet \cup Code \cup Roster \cup Settings \cup Errors

-----------------------------------------------------------------------------
(* What the service sends of a team: the facets of its entity.  The main   *)
(* facet is sent with every team, the others to members only.              *)
Main(t)    == [contest |-> team[t].contest, name |-> team[t].name,
               open |-> team[t].open, locked |-> team[t].locked]
NoFacets   == [main |-> None, member |-> None, members |-> None]
Unsent     == [t \in TeamId |-> NoFacets]
AllFacets(t) == [main |-> Main(t), member |-> team[t].code, members |-> team[t].joined]

Refusal == [status |-> "error", teamId |-> None, entities |-> Unsent]
(* LeaveTeam answers with the JSON value true. *)
JustTrue == [status |-> "true", teamId |-> None, entities |-> Unsent]

WithMe(t) == Here(t) /\ Me \in Members(t)

(* ViewUserContestTeam *)
TeamAnswer(c) ==
  LET mine == {t \in TeamId : WithMe(t) /\ team[t].contest = c} IN
  IF mine = {}
  THEN [status |-> "view", teamId |-> None, entities |-> Unsent]
  ELSE LET t == CHOOSE t \in mine : TRUE IN
       [status |-> "view", teamId |-> t, entities |-> [Unsent EXCEPT ![t] = AllFacets(t)]]

(* ViewUserContest *)
ContestAnswer(c) ==
  [status |-> "view", teamId |-> None,
   entities |-> [t \in TeamId |->
     IF Here(t) /\ team[t].contest = c
     THEN [NoFacets EXCEPT !.main = Main(t)] ELSE NoFacets]]

-----------------------------------------------------------------------------
(* The reducers: the store after an action. *)

(* updateEntities: what an answer does not mention stays. *)
Merged_wholeEntity(old, new) ==
  [t \in TeamId |-> IF new[t] = NoFacets THEN old[t] ELSE new[t]]
Merged_firstWins(old, new) ==
  [t \in TeamId |->
    [f \in DOMAIN NoFacets |-> IF old[t][f] = None THEN new[t][f] ELSE old[t][f]]]
Merged(old, new) ==
  [t \in TeamId |->
    [f \in DOMAIN NoFacets |-> IF new[t][f] = None THEN old[t][f] ELSE new[t][f]]]

(* applyOptimisticChanges: the facet '!' of the changed team. *)
Overlaid(pristine, change) ==
  [t \in TeamId |->
    [facets |-> pristine[t],
     over   |-> IF change # None /\ change.team = t THEN change.set ELSE None]]

(* flushSelectorCache, without the generation the selectors read. *)
Flush(s) == [s EXCEPT !.entities = Overlaid(s.pristine, s.optimistic)]

TaskStarted(s, k, change) ==
  Flush([s EXCEPT !.tasks = s.tasks \cup {k}, !.lastError = None, !.optimistic = change])

TaskFailed(s, k, error) ==
  Flush([s EXCEPT !.tasks = s.tasks \ {k}, !.lastError = error, !.optimistic = None])

TaskDone_keepsChange(s, k) == Flush([s EXCEPT !.tasks = s.tasks \ {k}])
TaskDone(s, k) == Flush([s EXCEPT !.tasks = s.tasks \ {k}, !.optimistic = None])

EntitiesLoaded_noFlush(s, new) == [s EXCEPT !.pristine = Merged(s.pristine, new)]
EntitiesLoaded(s, new) == Flush([s EXCEPT !.pristine = Merged(s.pristine, new)])

TeamChanged(s, t)    == [s EXCEPT !.teamId = t]
ContestChanged_keepsTeam(s, c) == [s EXCEPT !.contestId = c]
ContestChanged(s, c) == [s EXCEPT !.contestId = c, !.teamId = Unknown]
LeavePressed(s)      == [s EXCEPT !.teamId = None]

-----------------------------------------------------------------------------
(* The sagas. *)

Job(kind, c, t, arg) == [kind |-> kind, contest |-> c, team |-> t, arg |-> arg]

(* The optimistic change of a task: only these two kinds have one. *)
Change_always(job) == [team |-> job.team, set |-> <<job.kind, job.arg>>]
Change(job) ==
  IF job.kind \in {"open", "key"}
  THEN [team |-> job.team, set |-> <<job.kind, job.arg>>] ELSE None

Ended            == [job |-> None, phase |-> "ended", answer |-> None]
Asleep(job)      == [job |-> job, phase |-> "delay", answer |-> None]
Sent(job)        == [job |-> job, phase |-> "sent", answer |-> None]
Answered(job, a) == [job |-> job, phase |-> "answered", answer |-> a]

Busy(k)      == saga[k].phase # "ended"
In(k, phase) == saga[k].phase = phase

(* The user acts on the team shown, which is loaded. *)
TeamShown == store.teamId \in TeamId /\ store.pristine[store.teamId].main # None
MayAct    == OneAtATime => \A k \in Task : ~Busy(k)

(* `yield call(monitorBackendTask, ...)` returns when the task it has      *)
(* forked is over: the team saga takes no action of the user before its    *)
(* first load has ended.                                                   *)
Watching  == \A k \in Task : Busy(k) => saga[k].job.kind \notin {"load", "view"}

(* monitorBackendTask, up to the request or the delay.  s is the store the *)
(* user's action has left.                                                 *)
Start(k, job, s) ==
  /\ job.kind \in Kinds /\ MayAct /\ Watching /\ ~Busy(k)
  /\ store' = TaskStarted(s, k, Change(job))
  /\ saga' = [saga EXCEPT ![k] = Sent(job)]
  /\ UNCHANGED service

PressCreate(k) ==
  /\ ~TeamShown
  /\ \E n \in Name : Start(k, Job("create", store.contestId, None, n), store)

PressJoin(k) ==
  /\ ~TeamShown
  /\ \E x \in Code : Start(k, Job("join", store.contestId, None, x), store)

PressLeave(k) ==
  /\ TeamShown
  /\ Start(k, Job("leave", None, store.teamId, None), LeavePressed(store))

(* Before the watchers are there the reducer forgets the team all the      *)
(* same, and nothing is sent.                                              *)
LeaveUnheard ==
  /\ "leave" \in Kinds /\ MayAct /\ ~Watching /\ TeamShown
  /\ store' = LeavePressed(store)
  /\ UNCHANGED <<service, saga>>

PressNewCode(k) ==
  /\ TeamShown
  /\ Start(k, Job("code", None, store.teamId, None), store)

PressOpen(k) ==
  /\ TeamShown
  /\ \E b \in BOOLEAN : Start(k, Job("open", None, store.teamId, b), store)

(* takeLatest: a key change still under way is cancelled, its request      *)
(* aborted, and its finally clause puts BACKEND_TASK_DONE before the new   *)
(* task starts.                                                            *)
TypeKey_notCancelled(k) ==
  /\ "key" \in Kinds /\ TeamShown /\ MayAct /\ Watching /\ ~Busy(k)
  /\ \E x \in Key :
       LET job == Job("key", None, store.teamId, x)
           old == {j \in Task : Busy(j) /\ saga[j].job.kind = "key"} IN
       /\ store' = TaskStarted(store, k, Change(job))
       /\ saga' = [j \in Task |-> IF j = k THEN Asleep(job)
                                  ELSE IF j \in old THEN Ended ELSE saga[j]]
  /\ UNCHANGED service
TypeKey_startedFirst(k) ==
  /\ "key" \in Kinds /\ TeamShown /\ MayAct /\ Watching /\ ~Busy(k)
  /\ \E x \in Key :
       LET job == Job("key", None, store.teamId, x)
           old == {j \in Task : Busy(j) /\ saga[j].job.kind = "key"} IN
       /\ \/ old = {} /\ store' = TaskStarted(store, k, Change(job))
          \/ \E j \in old : store' = TaskDone(TaskStarted(store, k, Change(job)), j)
       /\ saga' = [j \in Task |-> IF j = k THEN Asleep(job)
                                  ELSE IF j \in old THEN Ended ELSE saga[j]]
  /\ UNCHANGED service
TypeKey(k) ==
  /\ "key" \in Kinds /\ TeamShown /\ MayAct /\ Watching /\ ~Busy(k)
  /\ \E x \in Key :
       LET job == Job("key", None, store.teamId, x)
           old == {j \in Task : Busy(j) /\ saga[j].job.kind = "key"} IN
       /\ \/ old = {} /\ store' = TaskStarted(store, k, Change(job))
          \/ \E j \in old : store' = TaskStarted(TaskDone(store, j), k, Change(job))
       /\ saga' = [j \in Task |-> IF j = k THEN Asleep(job)
                                  ELSE IF j \in old THEN Ended ELSE saga[j]]
  /\ UNCHANGED service

DelayOver(k) ==
  /\ In(k, "delay")
  /\ saga' = [saga EXCEPT ![k] = Sent(saga[k].job)]
  /\ UNCHANGED <<service, store>>

(* CONTEST_CHANGED is no task and waits for none. *)
ChangeContest ==
  /\ "contest" \in Kinds
  /\ \E c \in Contest : store' = ContestChanged(store, c)
  /\ UNCHANGED <<service, saga>>

(* What the answer does: puts BACKEND_ENTITIES_LOADED, what the saga does  *)
(* with the result, then BACKEND_TASK_FAILED or not, BACKEND_TASK_DONE.    *)
(* The operator `in` of backendPost throws on true.                        *)
Delivered(s, k, job, a) ==
  LET loaded == EntitiesLoaded(s, a.entities) IN
  CASE a.status = "error" -> TaskDone(TaskFailed(s, k, "refused"), k)
    [] a.status = "true"  -> TaskDone(TaskFailed(s, k, "TypeError"), k)
    [] a.status = "view" /\ job.kind = "load" -> TeamChanged(loaded, a.teamId)
    [] a.status = "view" /\ job.kind \in {"create", "join"} /\ a.teamId # None ->
         TaskDone(TeamChanged(loaded, a.teamId), k)
    [] OTHER -> TaskDone(loaded, k)

(* The first task of the team saga makes two requests. *)
AnswerArrives(k) ==
  /\ In(k, "answered")
  /\ LET job == saga[k].job  a == saga[k].answer IN
     /\ store' = Delivered(store, k, job, a)
     /\ saga' = [saga EXCEPT ![k] =
          IF a.status = "view" /\ job.kind = "load"
          THEN Sent(Job("view", job.contest, None, None)) ELSE Ended]
  /\ UNCHANGED service

(* The connection breaks before or after the service has done its work. *)
ConnectionLost_hangs(k) ==
  /\ "loss" \in Env
  /\ In(k, "sent") \/ In(k, "answered")
  /\ saga' = [saga EXCEPT ![k].phase = "hung"]
  /\ UNCHANGED <<service, store>>
ConnectionLost(k) ==
  /\ "loss" \in Env
  /\ In(k, "sent") \/ In(k, "answered")
  /\ store' = TaskDone(TaskFailed(store, k, "lost"), k)
  /\ saga' = [saga EXCEPT ![k] = Ended]
  /\ UNCHANGED service

-----------------------------------------------------------------------------
(* The service handles a request: it does what TeamService says, or        *)
(* refuses.  A user who is not in the team may leave it, and a key change  *)
(* writes nothing (UpdateTeam ignores publicKey), so a cancelled one need  *)
(* not be handled.  The work may be done and the answer be an error, when  *)
(* a SELECT of the view fails.                                             *)
Reply(k, a) ==
  \E b \in {a, Refusal} : saga' = [saga EXCEPT ![k] = Answered(saga[k].job, b)]

Accepts(k) ==
  \E job \in {saga[k].job} : \E t \in {job.team} :
  \/ /\ job.kind = "create" /\ Create(Me, job.contest, job.arg)
     /\ Reply(k, TeamAnswer(job.contest)')
  \/ /\ job.kind = "join" /\ Join(Me, job.contest, job.arg)
     /\ Reply(k, TeamAnswer(job.contest)')
  \/ /\ job.kind = "leave"
     /\ \/ Leave(Me, t)
        \/ /\ Here(t) => ~team[t].locked /\ Me \notin Members(t)
           /\ UNCHANGED service
     /\ Reply(k, JustTrue)
  \/ /\ job.kind = "code" /\ RenewCode(Me, t)
     /\ Reply(k, TeamAnswer(team[t].contest)')
  \/ /\ job.kind = "open" /\ SetOpen(Me, t, job.arg)
     /\ Reply(k, TeamAnswer(team[t].contest)')
  \/ /\ job.kind = "key" /\ WithMe(t) /\ ~team[t].locked
     /\ Reply(k, TeamAnswer(team[t].contest)) /\ UNCHANGED service
  \/ /\ job.kind = "load"
     /\ Reply(k, TeamAnswer(job.contest)) /\ UNCHANGED service
  \/ /\ job.kind = "view" /\ <<Me, job.contest>> \in access
     /\ Reply(k, ContestAnswer(job.contest)) /\ UNCHANGED service

Handled(k) ==
  /\ In(k, "sent")
  /\ \/ Accepts(k)
     \/ Reply(k, Refusal) /\ UNCHANGED service
  /\ UNCHANGED store

(* What else happens to the service; strangers leave the teams of Me alone. *)
Others ==
  /\ ServiceNext
  /\ \/ "others" \in Env
     \/ "strangers" \in Env /\ \A t \in TeamId : WithMe(t) \/ WithMe(t)' => team'[t] = team[t]
  /\ UNCHANGED <<store, saga>>

-----------------------------------------------------------------------------
(* The team saga starts with a contest chosen and nothing loaded. *)
Init ==
  /\ ServiceInit
  /\ \E k \in Task, c \in Contest :
       /\ saga = [j \in Task |-> IF j = k THEN Sent(Job("load", c, None, None)) ELSE Ended]
       /\ store = [tasks |-> {k}, lastError |-> None, optimistic |-> None,
                   pristine |-> Unsent, entities |-> Overlaid(Unsent, None),
                   contestId |-> c, teamId |-> Unknown]

Press(k) ==
  PressCreate(k) \/ PressJoin(k) \/ PressLeave(k) \/ PressNewCode(k) \/ PressOpen(k) \/ TypeKey(k)

Progress(k) == DelayOver(k) \/ Handled(k) \/ AnswerArrives(k) \/ ConnectionLost(k)

Next == (\E k \in Task : Press(k) \/ Progress(k)) \/ LeaveUnheard \/ ChangeContest \/ Others

Spec == Init /\ [][Next]_vars

(* Timers fire, and a request is answered or its connection breaks. *)
FairSpec == Spec /\ \A k \in Task : WF_vars(Progress(k))

-----------------------------------------------------------------------------
(* Properties. *)

(* The store holds facets as the service sends them; a saga that runs is   *)
(* asleep, waiting for an answer or about to be given one.                 *)
TypeOK ==
  /\ ServiceTypeOK
  /\ store.tasks \in SUBSET Task
  /\ store.lastError \in Errors \cup {None}
  /\ store.optimistic \in [team : TeamId, set : Settings] \cup {None}
  /\ store.pristine \in [TeamId -> StoredTeam]
  /\ store.contestId \in Contest
  /\ store.teamId \in TeamId \cup {None, Unknown}
  /\ \A k \in Task : saga[k].phase \in {"ended", "delay", "sent", "answered"}

(* The tasks the store lists are those under way, whether they end by an   *)
(* answer, an error, a lost connection or a newer key.                     *)
TasksAreListed == store.tasks = {k \in Task : Busy(k)}

(* README.md:44 "when the server response arrives, the extra facet is      *)
(* removed": a change shown before its confirmation belongs to a task that *)
(* has still to end.                                                       *)
ShownIsPending ==
  store.optimistic # None => \E k \in Task : Busy(k) /\ Change(saga[k].job) = store.optimistic

(* What the selectors read is never stale: it is what the service sent     *)
(* with the pending change over it.                                        *)
ShowsWhatItHas == store.entities = Overlaid(store.pristine, store.optimistic)

(* "facets enable partial loading" (README.md:35): an answer that does not *)
(* mention a facet does not take it away.                                  *)
FacetsAreKept ==
  [][\A t \in TeamId, f \in {"main", "member", "members"} :
       store.pristine[t][f] # None => store'.pristine[t][f] # None]_store

(* When the user does one thing at a time and the others leave the user's  *)
(* teams alone, a team shown with no error is the user's team as the       *)
(* service has it: after lost connections, changes of contest during a     *)
(* task, late errors and all.  Rests on OneAtATime, and on the service     *)
(* being done with a request whose connection broke before it handles the  *)
(* next.                                                                   *)
InStep ==
  (\A k \in Task : ~Busy(k)) /\ store.lastError = None /\ store.teamId \in TeamId =>
    /\ WithMe(store.teamId)
    /\ store.pristine[store.teamId] = AllFacets(store.teamId)

(* README.md:39 "when the user performs an action, a facet is added to one *)
(* or more entities": a change is shown from the start of its task, and    *)
(* what takes it from the screen before its end is the start or the end of *)
(* another task ("XXX this is wrong", Backend/index.ts:39), never the      *)
(* delay, an answer loaded for another task or a change of contest.        *)
Shown(k) == store.entities[saga[k].job.team].over = Change(saga[k].job).set

PendingStays ==
  [][\A k \in Task : Busy(k)' /\ Change(saga'[k].job) # None =>
       \/ Shown(k)'
       \/ Busy(k) /\ ~Shown(k)
       \/ Busy(k) /\ \E j \in Task \ {k} : Busy(j) # Busy(j)']_vars

(* Backend/index.ts:83 "Teams are per-contest? so when the contest changes, *)
(* forget the current team."                                               *)
TeamIsOfContest ==
  store.teamId \in TeamId => store.pristine[store.teamId].main.contest = store.contestId

(* What brings the team of another contest on the screen is an answer to a *)
(* task begun before the contest was changed, and nothing else: no press,  *)
(* no other answer, no change of contest.                                  *)
OnlyLateAnswersMix ==
  [][TeamIsOfContest /\ ~TeamIsOfContest' =>
       \E k \in Task :
         /\ In(k, "answered") /\ ~In(k, "answered")'
         /\ saga[k].job.kind \in {"load", "create", "join"}
         /\ saga[k].job.contest # store.contestId]_vars

(* No task stays in the list for ever. *)
TasksEnd == \A k \in Task : k \in store.tasks ~> k \notin store.tasks

-----------------------------------------------------------------------------
(* What the sources state and the code breaks. *)

(* Backend/index.ts:298 "result: {}": a team left is no error. *)
LeavingIsNoError ==
  [][\A k \in Task : In(k, "answered") /\ saga[k].answer.status = "true" /\ ~Busy(k)'
       => store'.lastError = None]_<<store, saga>>

=============================================================================
