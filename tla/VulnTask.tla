------------------------------ MODULE VulnTask ------------------------------
(***************************************************************************)
(* Remediation tasks (vuln-task.service.ts): a task is a row with a status *)
(* and a cached score, and links to the CVEs it is about.  Every write to  *)
(* a task ends in recomputeTask, which reads the links, then the status,   *)
(* and then writes the score: three statements, outside any transaction.   *)
(*                                                                         *)
(* A request to the API is a record in req: the operation, where it stands *)
(* and the locals it carries over an await.  Every step is one statement.  *)
(***************************************************************************)
EXTENDS Integers, FiniteSets, FiniteSetsExt

CONSTANTS
  Request,   \* what the API process may be doing at the same time
  TaskId,    \* bound: the tasks that can be made
  CVE,
  Urgency,   \* scoreUrgency of a CVE: 0..100
  Ops,       \* the operations of the API
  None

ASSUME TaskAssumption ==
  /\ Urgency \in [CVE -> 0..100]
  /\ {"create", "patch", "addCves", "removeCve"} \subseteq Ops

VARIABLES
  tasks,   \* rows of vuln_task and vuln_task_cve, None where there is none
  req,     \* what each request is doing
  left,    \* bound: how many more requests of each operation arrive
  flagged  \* history: rows that a race or a fault has touched (see Disturb)

taskVars == <<tasks, req, left, flagged>>

Status == {"new", "in_progress", "closed"}
Priorities == {"p1", "p2", "p3", "p4"}

(* What PATCH may ask: a status, an owner ("assign"), or only texts.       *)
Patches == Status \cup {"assign", "edit"}

Blank == [op |-> "idle", at |-> "idle", case |-> None, task |-> None, sig |-> None,
          arg |-> None, links |-> {}, seen |-> None, play |-> None, todo |-> {},
          alone |-> FALSE]

Idle(r) == req[r].op = "idle"
Tasks == {t \in TaskId : tasks[t] # None}

-----------------------------------------------------------------------------
(* Deviations: plausible slips in the definitions that follow. *)

(* An owner puts the task in work whatever its status was. *)
PatchedAlwaysTaken(p, prev) ==
  IF p \in Status THEN p ELSE IF p = "assign" THEN "in_progress" ELSE prev

-----------------------------------------------------------------------------
(* Scores. *)

(* The n most urgent of the CVEs L (all of them when there are fewer). *)
Top(n, L) == CHOOSE T \in SUBSET L :
               /\ Cardinality(T) = Min({n, Cardinality(L)})
               /\ \A c \in T, d \in L \ T : Urgency[c] >= Urgency[d]

(* A deviation: the urgencies are added up where they should be averaged,  *)
(* and the sum is not clamped.                                             *)
AggregateSum(L) ==
  LET total(T) == MapThenSumSet(LAMBDA c : Urgency[c], T)
  IN  IF L = {} THEN 0
      ELSE (130 * Max({Urgency[c] : c \in L}) + 50 * total(Top(3, L)) + 20 * total(Top(10, L))
            + 100) \div 200

(* clamp(n, 0, 100) of an integer *)
Clamp(n) == IF n \in 0..100 THEN n ELSE IF n \in Nat THEN 100 ELSE 0

(* aggregateTaskScore: round(0.65 max + 0.25 avg(top 3) + 0.1 avg(top 10)), half up. *)
WeightedScore(L) ==
  LET total(T) == MapThenSumSet(LAMBDA c : Urgency[c], T)
      n3 == Cardinality(Top(3, L))
      n10 == Cardinality(Top(10, L))
      den == 100 * n3 * n10
      num == 65 * Max({Urgency[c] : c \in L}) * n3 * n10
             + 25 * total(Top(3, L)) * n10 + 10 * total(Top(10, L)) * n3
  IN  (2 * num + den) \div (2 * den)
AggregateScore(L) == IF L = {} THEN 0 ELSE Clamp(WeightedScore(L))

(* A deviation: the score is computed without the status of the task. *)
FinalIgnoringStatus(L, st) == AggregateScore(L)

(* score_final: a closed task scores nothing (statusMultiplier). *)
FinalScore(L, st) == IF st = "closed" THEN 0 ELSE AggregateScore(L)

(* The score a task made from a case starts with. *)
ScoreFloor(p) == CASE p = "p1" -> 80 [] p = "p2" -> 65 [] p = "p3" -> 40 [] p = "p4" -> 20

-----------------------------------------------------------------------------
(* Requests. *)

(* A request of operation op arrives; q holds its inputs.  It is alone     *)
(* until another one is under way with it (kept for a property).           *)
Begin(r, op, q) ==
  /\ Idle(r) /\ left[op] > 0
  /\ left' = [left EXCEPT ![op] = @ - 1]
  /\ req' = [s \in Request |->
               IF s = r THEN [q EXCEPT !.op = op,
                                       !.alone = op = "resolve" /\ \A u \in Request : Idle(u)]
               ELSE [req[s] EXCEPT !.alone = FALSE]]

(* The request goes on at the given point, or answers and is gone.  It     *)
(* carries only what it still needs: to show the case, to write its first  *)
(* playbook, to go on with the other rows of a backfill.                   *)
Resume(q, at) ==
  CASE at = "end" -> Blank
    [] at = "view" -> [Blank EXCEPT !.op = "get", !.at = at, !.case = q.case]
    [] at = "playbook" -> [Blank EXCEPT !.op = q.op, !.at = at, !.case = q.case]
    [] at = "row" -> [Blank EXCEPT !.op = q.op, !.at = at, !.todo = q.todo]
    [] at = "floor" -> [q EXCEPT !.at = at, !.links = {}, !.seen = None]
    [] OTHER -> [q EXCEPT !.at = at]

(* Where the caller of recomputeTask goes on. *)
AfterScore(q) == CASE q.op \in {"open", "backfill"} -> "floor"
                   [] q.op = "resolve" -> "view"
                   [] OTHER -> "end"

(* Someone other than r will write a score of t computed from what they    *)
(* read before, or will lift it to the floor without looking.              *)
Rescoring(r, t, points) ==
  \E s \in Request \ {r} :
    /\ req[s].task = t
    /\ \/ req[s].at \in points
       \/ /\ AfterScore(req[s]) = "floor"
          /\ req[s].at \in {"links", "read", "status", "score", "floor"}

(* A change of t under someone's recomputeTask: the score they will write  *)
(* is already outdated, and so the row is flagged.                         *)
Disturb(r, t, points) ==
  flagged' = IF Rescoring(r, t, points) THEN flagged \cup {t} ELSE flagged

NewTask(c, p) == [status |-> "new", links |-> {}, case |-> c, priority |-> p,
                  score |-> IF c = None THEN 0 ELSE ScoreFloor(p)]

FreeTask == CHOOSE t \in TaskId : t \notin Tasks

(* POST vuln-tasks: the row, then its links, then the score. *)
CreateTask(r, L) ==
  /\ Tasks # TaskId
  /\ Begin(r, "create", [Blank EXCEPT !.at = "links", !.task = FreeTask, !.links = L])
  /\ tasks' = [tasks EXCEPT ![FreeTask] = NewTask(None, "p3")]
  /\ UNCHANGED flagged

(* INSERT INTO vuln_task_cve ... ON CONFLICT DO NOTHING *)
LinkCves(r) ==
  LET t == req[r].task IN
  /\ req[r].at = "links"
  /\ tasks' = [tasks EXCEPT ![t].links = @ \cup req[r].links]
  /\ req' = [req EXCEPT ![r].at = "read"]
  /\ Disturb(r, t, {"status", "score"})
  /\ UNCHANGED left

(* recomputeTask: the links (and the signals of their CVEs) ... *)
ReadLinks(r) ==
  /\ req[r].at = "read"
  /\ req' = [req EXCEPT ![r].at = "status", ![r].links = tasks[req[r].task].links]
  /\ UNCHANGED <<tasks, left, flagged>>

(* ... then the status ... *)
ReadStatus(r) ==
  /\ req[r].at = "status"
  /\ req' = [req EXCEPT ![r].at = "score", ![r].seen = tasks[req[r].task].status]
  /\ UNCHANGED <<tasks, left, flagged>>

(* ... and then the write.  A score computed from the row as it is now,    *)
(* with no other one on its way, makes good what was disturbed before.     *)
WriteScore(r) ==
  LET q == req[r]  t == q.task IN
  /\ q.at = "score"
  /\ tasks' = [tasks EXCEPT ![t].score = FinalScore(q.links, q.seen)]
  /\ req' = [req EXCEPT ![r] = Resume(q, AfterScore(q))]
  /\ flagged' = IF /\ q.links = tasks[t].links /\ q.seen = tasks[t].status
                   /\ AfterScore(q) # "floor" /\ ~Rescoring(r, t, {"status", "score"})
                THEN flagged \ {t} ELSE flagged
  /\ UNCHANGED left

(* createFromVocCase lifts the score to the floor of the priority. *)
KeepFloor(r) ==
  LET q == req[r]  t == q.task IN
  /\ q.at = "floor"
  /\ tasks' = [tasks EXCEPT ![t].score = Max({@, ScoreFloor(tasks[t].priority)})]
  /\ req' = [req EXCEPT ![r].at = "link"]
  /\ UNCHANGED <<left, flagged>>

(* PATCH vuln-tasks/:id *)
BeginPatch(r, t, p) ==
  /\ t \in Tasks
  /\ Begin(r, "patch", [Blank EXCEPT !.at = "patch", !.task = t, !.arg = p])
  /\ UNCHANGED <<tasks, flagged>>

(* patch: SELECT * ... *)
SelectTask(r) ==
  /\ req[r].at = "patch"
  /\ req' = [req EXCEPT ![r].at = "update", ![r].seen = tasks[req[r].task].status]
  /\ UNCHANGED <<tasks, left, flagged>>

(* The status a patch p writes over prev: an owner given to a task still   *)
(* new puts it in work, and without a status none is written (None).       *)
Patched(p, prev) ==
  CASE p \in Status -> p
    [] p = "assign" /\ prev = "new" -> "in_progress"
    [] OTHER -> None

(* ... and the UPDATE, with what was decided from the row read before. *)
UpdateTask(r) ==
  LET q == req[r]  t == q.task  st == Patched(q.arg, q.seen) IN
  /\ q.at = "update"
  /\ req' = [req EXCEPT ![r].at = "read"]
  /\ IF st = None
     THEN UNCHANGED <<tasks, flagged>>
     ELSE /\ tasks' = [tasks EXCEPT ![t].status = st]
          /\ Disturb(r, t, {"score"})
  /\ UNCHANGED left

(* POST vuln-tasks/:id/cves *)
AddCves(r, t, L) ==
  /\ t \in Tasks
  /\ Begin(r, "addCves", [Blank EXCEPT !.at = "links", !.task = t, !.links = L])
  /\ UNCHANGED <<tasks, flagged>>

(* POST vuln-tasks/:id/cves/:cveId/remove *)
RemoveCve(r, t, c) ==
  /\ t \in Tasks
  /\ Begin(r, "removeCve", [Blank EXCEPT !.at = "read", !.task = t])
  /\ tasks' = [tasks EXCEPT ![t].links = @ \ {c}]
  /\ Disturb(r, t, {"status", "score"})

TaskInit == /\ tasks = [t \in TaskId |-> None]
            /\ req = [r \in Request |-> Blank]
            /\ flagged = {}

(* What a request does next, whoever called it. *)
TaskStep(r) == \/ LinkCves(r) \/ ReadLinks(r) \/ ReadStatus(r) \/ WriteScore(r)
               \/ KeepFloor(r) \/ SelectTask(r) \/ UpdateTask(r)

TaskArrival(r, patches) ==
  \/ \E L \in SUBSET CVE : CreateTask(r, L)
  \/ \E t \in Tasks, p \in patches : BeginPatch(r, t, p)
  \/ \E t \in Tasks, L \in SUBSET CVE \ {{}} : AddCves(r, t, L)
  \/ \E t \in Tasks, c \in CVE : RemoveCve(r, t, c)

(* The request has changed its task and not yet written its score. *)
Unscored(r) == /\ req[r].task # None
               /\ req[r].at \in {"links", "read", "status", "score", "floor"}

-----------------------------------------------------------------------------
(* Properties. *)

(* No request is at work on t. *)
AtRest(t) == \A r \in Request : req[r].task # t

(* The score on the board is that of the CVEs now linked and of the status *)
(* now set (or the floor, for an open task a case has just made): requests *)
(* that overlap leave another score behind only when one of them changed   *)
(* the task between another one's reads and its write, or was cut short.   *)
ScoreIsCurrent ==
  \A t \in Tasks \ flagged :
    LET fresh == IF tasks[t].status = "closed" THEN 0 ELSE AggregateScore(tasks[t].links) IN
    AtRest(t) => \/ tasks[t].score = fresh
                 \/ /\ tasks[t].case # None /\ tasks[t].status # "closed"
                    /\ tasks[t].score = Max({fresh, ScoreFloor(tasks[t].priority)})

(* A closed task is opened again by a request that says so, or by an       *)
(* assignment decided when the task was still new; never by a link, a      *)
(* score or an edit.                                                       *)
NoSilentReopen ==
  [][\A t \in Tasks : tasks[t].status = "closed" /\ tasks'[t].status # "closed" =>
       \E r \in Request : /\ req[r].at = "update" /\ req[r].task = t
                          /\ \/ req[r].arg = tasks'[t].status
                             \/ req[r].arg = "assign" /\ req[r].seen = "new"]_tasks

(* vuln-task.service.ts:660, "Keep VOC priority floor visible even when    *)
(* CVE signals are weak/absent": an open task made from a case is listed   *)
(* at the floor of its priority or above.                                  *)
FloorKept ==
  \A t \in Tasks : tasks[t].case # None /\ tasks[t].status # "closed" /\ AtRest(t)
                     => tasks[t].score >= ScoreFloor(tasks[t].priority)
=============================================================================
