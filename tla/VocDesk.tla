------------------------------- MODULE VocDesk -------------------------------
(***************************************************************************)
(* The vulnerability operations desk (voc-case.service.ts): analysts open  *)
(* a case from a signal of the queue, the case is merged by its dedup key  *)
(* with one already open, gets a remediation task and a playbook, and is   *)
(* resolved, which settles its signals and its task.  At start-up, and on  *)
(* demand, a backfill makes the tasks that are missing.                    *)
(*                                                                         *)
(* VulnTask is the task service; a request walks into its steps when it    *)
(* makes or patches a task, and comes back where AfterScore says.  The     *)
(* process may crash: requests are lost, rows stay as they are.            *)
(***************************************************************************)
EXTENDS VulnTask

CONSTANTS
  Boot,      \* the timer that runs the backfill 45 s after start
  CaseId,    \* bound: the cases that can be opened
  Signal,    \* entries of the queue, by their refKey
  Source,    \* "cve", "bdu" or "tg"
  CveOf,     \* the CVEs a signal is about
  Priority,  \* vocPriority of a signal
  Step,      \* labels of playbook steps
  Evidence,  \* the step that addEvidence marks
  Workload,  \* bounds, one of them in a behaviour: ops, the requests of each
             \* operation; faults, the crashes and failed statements; fired,
             \* whether the timer has; inputs, what requests may ask for:
             \* signals and wants to open, statuses of cases, patches of tasks,
             \* marks of the queue; books, what the text engine may write
  Markable   \* bound: the steps analysts mark

CaseStatus == {"open", "in_progress", "resolved", "cancelled"}
TriageStatus == {"open", "claimed", "done", "dismissed"}
Playbook == [ai : BOOLEAN, steps : SUBSET Step, done : SUBSET Step]

TaskRow == [status : Status, links : SUBSET CVE, case : CaseId \cup {None},
            priority : Priorities, score : 0..100]
CaseRow == [status : CaseStatus, key : Signal \cup CVE, primary : Signal,
            refs : SUBSET Signal, task : TaskId \cup {None}, play : Playbook \cup {None}]
Inputs == [signals : SUBSET Signal, wants : SUBSET BOOLEAN, statuses : SUBSET CaseStatus,
           patches : SUBSET Patches, marks : SUBSET TriageStatus,
           books : SUBSET [ai : BOOLEAN, steps : SUBSET Step]]

(* Rows and keys are told apart, and None is neither. *)
ASSUME IdentityAssumption ==
  /\ TaskId \cap (CaseId \cup Signal \cup CVE) = {}
  /\ None \notin TaskId \cup CaseId \cup Signal \cup TaskRow \cup CaseRow \cup Playbook
              \cup Status

ASSUME DeskAssumption ==
  /\ Boot \in Request
  /\ {"open", "backfill", "resolve", "status", "step", "evidence", "regenerate", "get",
      "triage"} \subseteq Ops
  /\ Source \in [Signal -> {"cve", "bdu", "tg"}]
  /\ CveOf \in [Signal -> SUBSET CVE]
  /\ Priority \in [Signal -> Priorities]
  /\ \A s \in Signal : Source[s] = "cve" => CveOf[s] # {}
  /\ Evidence \in Step /\ Markable \subseteq Step
  /\ Workload \subseteq [ops : [Ops -> Nat], faults : [crashes : Nat, failures : Nat],
                        fired : BOOLEAN, inputs : Inputs]

VARIABLES
  cases,       \* rows of voc_case and voc_case_ref
  triage,      \* voc_triage.status of a signal, None where there is no row
  backfilled,  \* the timer of this start has fired
  waived,      \* history: open cases no task is coming for before the next start
  scope,       \* the inputs of the workload of this behaviour
  faults       \* bound: crashes and failures still to come

rest == <<triage, backfilled, waived, scope, faults>>
deskVars == <<cases, rest>>
vars == <<taskVars, deskVars>>

User == Request \ {Boot}
Cases == {c \in CaseId : cases[c] # None}
Active(c) == c \in Cases /\ cases[c].status \in {"open", "in_progress"}

(* vocDedupKey: the signal itself, but a CVE stands for itself and a post  *)
(* of a channel for the first CVE it names.                                *)
DedupKey(s) == IF Source[s] = "bdu" \/ CveOf[s] = {} THEN s ELSE CHOOSE c \in CveOf[s] : TRUE

FreeCase == CHOOSE c \in CaseId : c \notin Cases

Init == /\ TaskInit
        /\ cases = [c \in CaseId |-> None]
        /\ triage = [s \in Signal |-> None]
        /\ waived = {}
        /\ \E w \in Workload : /\ left = w.ops /\ faults = w.faults
                               /\ backfilled = w.fired /\ scope = w.inputs

-----------------------------------------------------------------------------
(* Deviations: plausible slips in the definitions that follow. *)

(* The lookup knows only the status a case once started with. *)
MergesIntoOpen(c, k) == c \in Cases /\ cases[c].status = "open" /\ cases[c].key = k

(* The backfill looks only for cases nobody has taken. *)
LacksTaskOpen(c) == c \in Cases /\ cases[c].status = "open" /\ cases[c].task = None

(* ensureTaskForCase makes a task without looking for one. *)
EnsureAlways(r) ==
  LET q == req[r] IN
  /\ q.at = "ensure"
  /\ Tasks # TaskId
  /\ req' = [req EXCEPT ![r].at = "insertTask"]
  /\ UNCHANGED <<tasks, left, flagged, deskVars>>

(* A fresh playbook replaces the old one, marks and all. *)
MergeForgets(prev, fresh) == [fresh EXCEPT !.done = {}]

(* resolveCase settles only the signal the case was opened from. *)
RefsOfPrimary(c) == {cases[c].primary}

-----------------------------------------------------------------------------
(* Playbooks: one JSON column, read, changed and written back whole. *)

Fresh(b) == [ai |-> b.ai, steps |-> b.steps, done |-> {}]

(* mergePlaybookProgress: a mark survives where the label does. *)
Merge(prev, fresh) ==
  IF prev = None THEN fresh ELSE [fresh EXCEPT !.done = prev.done \cap fresh.steps]

(* Where a request goes on once getCaseById has answered. *)
AfterView(q) == IF q.at \in {"view", "viewSave"} THEN "end"
                ELSE CASE q.op = "resolve" -> "close"
                       [] q.op = "step" -> IF q.arg.step \in q.play.steps THEN "mark" ELSE "end"
                       [] q.op = "evidence" -> "evidence"
                       [] q.op = "regenerate" -> "rewrite"

(* getCaseById: the row; a playbook the model wrote is returned as it is ...*)
ReadCase(r) ==
  LET q == req[r]
      read == [q EXCEPT !.play = cases[q.case].play,
                        !.task = IF q.op = "resolve" /\ q.at = "look"
                                 THEN cases[q.case].task ELSE @]
  IN
  /\ q.at \in {"look", "view"}
  /\ req' = [req EXCEPT ![r] =
               IF read.play # None /\ read.play.ai
               THEN Resume(read, AfterView(read))
               ELSE [read EXCEPT !.at = IF q.at = "look" THEN "lookSave" ELSE "viewSave"]]
  /\ UNCHANGED <<tasks, left, flagged, deskVars>>

(* ... and any other one is made anew and written back, marks kept from    *)
(* the row as it was read.                                                 *)
SavePlaybook(r) ==
  LET q == req[r] IN
  /\ q.at \in {"lookSave", "viewSave"}
  /\ \E b \in scope.books :
       LET saved == [q EXCEPT !.play = Merge(q.play, Fresh(b))] IN
       /\ cases' = [cases EXCEPT ![q.case].play = saved.play]
       /\ req' = [req EXCEPT ![r] = Resume(saved, AfterView(saved))]
  /\ UNCHANGED <<tasks, left, flagged, rest>>

(* createFromRef, for a new case: nothing to keep. *)
FirstPlaybook(r) ==
  LET q == req[r] IN
  /\ q.at = "playbook"
  /\ \E b \in scope.books : cases' = [cases EXCEPT ![q.case].play = Fresh(b)]
  /\ req' = [req EXCEPT ![r] = Resume(q, "view")]
  /\ UNCHANGED <<tasks, left, flagged, rest>>

(* regeneratePlaybook: the same, with the playbook its view returned. *)
Rewrite(r) ==
  LET q == req[r] IN
  /\ q.at = "rewrite"
  /\ \E b \in scope.books : cases' = [cases EXCEPT ![q.case].play = Merge(q.play, Fresh(b))]
  /\ req' = [req EXCEPT ![r] = Resume(q, "view")]
  /\ UNCHANGED <<tasks, left, flagged, rest>>

(* markPlaybookStep: addEvidence reads the column once more. *)
ReadForEvidence(r) ==
  LET q == req[r]  play == cases[q.case].play IN
  /\ q.at = "evidence"
  /\ req' = [req EXCEPT ![r] =
               IF play # None /\ Evidence \in play.steps \ play.done
               THEN [q EXCEPT !.at = "mark", !.play = play,
                              !.arg = [step |-> Evidence, done |-> TRUE]]
               ELSE Resume(q, "view")]
  /\ UNCHANGED <<tasks, left, flagged, deskVars>>

(* The whole playbook is written back with one step changed. *)
MarkStep(r) ==
  LET q == req[r]
      marked == IF q.arg.done THEN q.play.done \cup {q.arg.step} ELSE q.play.done \ {q.arg.step}
  IN
  /\ q.at = "mark"
  /\ cases' = [cases EXCEPT ![q.case].play = [q.play EXCEPT !.done = marked]]
  /\ req' = [req EXCEPT ![r] = Resume(q, "view")]
  /\ UNCHANGED <<tasks, left, flagged, rest>>

ViewCase(r, op, c, arg) ==
  /\ c \in Cases
  /\ Begin(r, op, [Blank EXCEPT !.at = IF op = "get" THEN "view" ELSE "look", !.case = c,
                                !.arg = arg])
  /\ UNCHANGED <<tasks, flagged, deskVars>>

-----------------------------------------------------------------------------
(* Opening a case. *)

(* The cases createFromRef may add a signal with dedup key k to. *)
Merges(c, k) == Active(c) /\ cases[c].key = k

(* POST cases/from-ref starts by looking for one.  Two requests that both  *)
(* find none will both insert, and the key is flagged.                     *)
OpenCase(r, s, want) ==
  LET k == DedupKey(s)
      found == {c \in CaseId : Merges(c, k)}
      q == [Blank EXCEPT !.sig = s, !.links = CveOf[s]]
  IN
  /\ r # Boot
  /\ IF found # {}
     THEN /\ \E c \in found :
               Begin(r, "open", [q EXCEPT !.at = "attach", !.case = c,
                                          !.arg = [want |-> want, new |-> FALSE]])
          /\ UNCHANGED flagged
     ELSE /\ Begin(r, "open", [q EXCEPT !.at = "insert", !.arg = [want |-> want, new |-> TRUE]])
          /\ flagged' = IF \E u \in Request : req[u].at = "insert" /\ DedupKey(req[u].sig) = k
                        THEN flagged \cup {k} ELSE flagged
  /\ UNCHANGED <<tasks, deskVars>>

(* A signal joins an open case. *)
AttachRef(r) ==
  LET q == req[r] IN
  /\ q.at = "attach"
  /\ cases' = [cases EXCEPT ![q.case].refs = @ \cup {q.sig}]
  /\ req' = [req EXCEPT ![r] = Resume(q, IF q.arg.want THEN "ensure" ELSE "view")]
  /\ UNCHANGED <<tasks, left, flagged, rest>>

(* A new case, and its first signal. *)
InsertCase(r) ==
  LET q == req[r] IN
  /\ q.at = "insert"
  /\ Cases # CaseId
  /\ cases' = [cases EXCEPT ![FreeCase] =
                 [status |-> "in_progress", key |-> DedupKey(q.sig), primary |-> q.sig,
                  refs |-> {}, task |-> None, play |-> None]]
  /\ req' = [req EXCEPT ![r].at = "ref", ![r].case = FreeCase]
  /\ waived' = IF q.arg.want THEN waived ELSE waived \cup {FreeCase}
  /\ UNCHANGED <<tasks, left, flagged, triage, backfilled, scope, faults>>

InsertRef(r) ==
  LET q == req[r] IN
  /\ q.at = "ref"
  /\ cases' = [cases EXCEPT ![q.case].refs = @ \cup {q.sig}]
  /\ req' = [req EXCEPT ![r] = Resume(q, IF q.arg.want THEN "ensure" ELSE "playbook")]
  /\ UNCHANGED <<tasks, left, flagged, rest>>

-----------------------------------------------------------------------------
(* The task of a case. *)

EnsurePoint == {"ensure", "insertTask", "links", "read", "status", "score", "floor", "link"}
Ensuring(r) == req[r].op \in {"open", "backfill"} /\ req[r].at \in EnsurePoint
AfterEnsure(q) == IF q.op = "backfill" THEN "row"
                  ELSE IF q.arg.new THEN "playbook" ELSE "view"

(* ensureTaskForCase: does the case have one?  Two that both find none     *)
(* will both make one, and the case is flagged.                            *)
EnsureTask(r) ==
  LET q == req[r] IN
  /\ q.at = "ensure"
  /\ IF cases[q.case].task # None
     THEN /\ req' = [req EXCEPT ![r] = Resume(q, AfterEnsure(q))]
          /\ UNCHANGED flagged
     ELSE /\ req' = [req EXCEPT ![r].at = "insertTask"]
          /\ flagged' = IF \E u \in Request \ {r} : /\ Ensuring(u) /\ req[u].at # "ensure"
                                                    /\ req[u].case = q.case
                        THEN flagged \cup {q.case} ELSE flagged
  /\ UNCHANGED <<tasks, left, deskVars>>

(* createFromVocCase: the row, at the floor of its priority; VulnTask goes on. *)
InsertTask(r) ==
  LET q == req[r] IN
  /\ q.at = "insertTask"
  /\ Tasks # TaskId
  /\ tasks' = [tasks EXCEPT ![FreeTask] = NewTask(q.case, Priority[q.sig])]
  /\ req' = [req EXCEPT ![r].at = "links", ![r].task = FreeTask]
  /\ UNCHANGED <<left, flagged, deskVars>>

(* The case is told of its task; the last one to tell it wins. *)
LinkTask(r) ==
  LET q == req[r] IN
  /\ q.at = "link"
  /\ cases' = [cases EXCEPT ![q.case].task = q.task]
  /\ req' = [req EXCEPT ![r] = Resume(q, AfterEnsure(q))]
  /\ waived' = waived \ {q.case}
  /\ UNCHANGED <<tasks, left, flagged, triage, backfilled, scope, faults>>

(* Cases backfillMissingTasks selects. *)
LacksTask(c) == Active(c) /\ cases[c].task = None
Backfill == [Blank EXCEPT !.at = "row", !.todo = {c \in CaseId : LacksTask(c)}]

(* The timer of VocCaseService, once per start. *)
BootBackfill ==
  /\ ~backfilled /\ backfilled' = TRUE
  /\ req' = [r \in Request |-> IF r = Boot THEN [Backfill EXCEPT !.op = "backfill"]
                               ELSE [req[r] EXCEPT !.alone = FALSE]]
  /\ UNCHANGED <<tasks, left, flagged, cases, triage, waived, scope, faults>>

(* POST cases/backfill-tasks *)
AskBackfill(r) == /\ r # Boot
                  /\ Begin(r, "backfill", Backfill)
                  /\ UNCHANGED <<tasks, flagged, deskVars>>

(* The CVEs a backfilled task is about: of a post only those that joined   *)
(* the case as signals of their own.                                       *)
BackfillCves(c) ==
  LET p == cases[c].primary
      joined == UNION {CveOf[s] : s \in {x \in cases[c].refs : Source[x] = "cve"}}
  IN  CASE Source[p] = "cve" -> CveOf[p]
        [] Source[p] = "bdu" -> IF joined = {} THEN CveOf[p] ELSE joined
        [] Source[p] = "tg" -> joined

BackfillRow(r) ==
  LET q == req[r] IN
  /\ q.at = "row"
  /\ IF q.todo = {} THEN req' = [req EXCEPT ![r] = Blank]
     ELSE \E c \in q.todo :
            req' = [req EXCEPT ![r] = [q EXCEPT !.at = "ensure", !.case = c,
                                                !.sig = cases[c].primary,
                                                !.links = BackfillCves(c),
                                                !.todo = @ \ {c}]]
  /\ UNCHANGED <<tasks, left, flagged, deskVars>>

-----------------------------------------------------------------------------
(* Closing a case. *)

(* resolveCase has read the case, its task_id included; now the UPDATE. *)
CloseCase(r) ==
  LET q == req[r] IN
  /\ q.at = "close"
  /\ cases' = [cases EXCEPT ![q.case].status = "resolved"]
  /\ req' = [req EXCEPT ![r].at = "refs"]
  /\ UNCHANGED <<tasks, left, flagged, rest>>

(* syncTriageOnResolve: every signal of the case ... *)
RefsOf(c) == cases[c].refs
ReadRefs(r) ==
  LET q == req[r] IN
  /\ q.at = "refs"
  /\ req' = [req EXCEPT ![r].at = "settle", ![r].todo = RefsOf(q.case)]
  /\ UNCHANGED <<tasks, left, flagged, deskVars>>

(* ... is done in the queue; then the task that was read is patched. *)
SettleRef(r) ==
  LET q == req[r] IN
  /\ q.at = "settle" /\ q.todo # {}
  /\ \E s \in q.todo : /\ triage' = [triage EXCEPT ![s] = "done"]
                       /\ req' = [req EXCEPT ![r].todo = @ \ {s}]
  /\ UNCHANGED <<tasks, left, flagged, cases, backfilled, waived, scope, faults>>

SettleTask(r) ==
  LET q == req[r] IN
  /\ q.at = "settle" /\ q.todo = {}
  /\ req' = [req EXCEPT ![r] = Resume(q, IF q.task = None THEN "view" ELSE "patch")]
  /\ UNCHANGED <<tasks, left, flagged, deskVars>>

(* PATCH cases/:id takes any status, and touches neither task nor queue.   *)
(* A case opened again beside another one with its key flags the key.      *)
SetStatus(r, c, st) ==
  /\ r # Boot /\ c \in Cases
  /\ Begin(r, "status", [Blank EXCEPT !.at = "view", !.case = c])
  /\ cases' = [cases EXCEPT ![c].status = st]
  /\ LET k == cases[c].key
         reopens == ~Active(c) /\ st \in {"open", "in_progress"}
     IN
     /\ flagged' = IF reopens /\ \/ \E d \in CaseId : Merges(d, k)
                                 \/ \E u \in Request : /\ req[u].at = "insert"
                                                       /\ DedupKey(req[u].sig) = k
                   THEN flagged \cup {k} ELSE flagged
     /\ waived' = IF reopens /\ cases[c].task = None THEN waived \cup {c} ELSE waived
  /\ UNCHANGED <<tasks, triage, backfilled, scope, faults>>

(* upsertTriage: one statement. *)
Triage(s, st) ==
  /\ left["triage"] > 0 /\ left' = [left EXCEPT !["triage"] = @ - 1]
  /\ triage' = [triage EXCEPT ![s] = st]
  /\ req' = [r \in Request |-> [req[r] EXCEPT !.alone = FALSE]]
  /\ UNCHANGED <<tasks, flagged, cases, backfilled, waived, scope, faults>>

-----------------------------------------------------------------------------
(* Faults. *)

(* The rows a request leaves half-written when it is cut short. *)
HalfDone(r) == (IF Unscored(r) THEN {req[r].task} ELSE {})
               \cup (IF Ensuring(r) /\ req[r].task # None THEN {req[r].case} ELSE {})

(* A statement fails.  A task that cannot be made is only logged, and so   *)
(* is a first playbook; any other failure is the answer.                   *)
Fail(r) ==
  LET q == req[r]
      next == CASE Ensuring(r) -> Resume(q, AfterEnsure(q))
                [] q.at = "playbook" -> Resume(q, "view")
                [] OTHER -> Blank
  IN
  /\ ~Idle(r) /\ q.at # "row" /\ faults.failures > 0
  /\ faults' = [faults EXCEPT !.failures = @ - 1]
  /\ req' = [req EXCEPT ![r] = next]
  /\ flagged' = flagged \cup HalfDone(r)
  /\ waived' = IF Ensuring(r) \/ q.at = "ref" THEN waived \cup {q.case} ELSE waived
  /\ UNCHANGED <<tasks, left, cases, triage, backfilled, scope>>

(* The signals of a row cannot be read: the backfill counts the row as     *)
(* failed and goes on to the next.                                         *)
FailRow(r) ==
  LET q == req[r] IN
  /\ q.at = "row" /\ faults.failures > 0
  /\ faults' = [faults EXCEPT !.failures = @ - 1]
  /\ \E c \in q.todo : /\ req' = [req EXCEPT ![r] = [q EXCEPT !.todo = @ \ {c}]]
                       /\ waived' = waived \cup {c}
  /\ UNCHANGED <<tasks, left, flagged, cases, triage, backfilled, scope>>

(* The timer's query fails: that is logged, and it is not asked again. *)
FailScan ==
  /\ ~backfilled /\ backfilled' = TRUE
  /\ faults.failures > 0 /\ faults' = [faults EXCEPT !.failures = @ - 1]
  /\ waived' = waived \cup Backfill.todo
  /\ UNCHANGED <<tasks, req, left, flagged, cases, triage, scope>>

(* The API process dies; the next start runs the backfill again. *)
Crash ==
  /\ faults.crashes > 0 /\ faults' = [faults EXCEPT !.crashes = @ - 1]
  /\ req' = [r \in Request |-> Blank]
  /\ flagged' = flagged \cup UNION {HalfDone(r) : r \in Request}
  /\ backfilled' = FALSE /\ waived' = {}
  /\ UNCHANGED <<tasks, left, cases, triage, scope>>

-----------------------------------------------------------------------------
(* What a request does next. *)
RequestStep(r) ==
  \/ TaskStep(r) /\ UNCHANGED deskVars
  \/ ReadCase(r) \/ SavePlaybook(r) \/ FirstPlaybook(r) \/ Rewrite(r)
  \/ ReadForEvidence(r) \/ MarkStep(r)
  \/ AttachRef(r) \/ InsertCase(r) \/ InsertRef(r)
  \/ EnsureTask(r) \/ InsertTask(r) \/ LinkTask(r) \/ BackfillRow(r)
  \/ CloseCase(r) \/ ReadRefs(r) \/ SettleRef(r) \/ SettleTask(r)

Arrival(r) ==
  \/ TaskArrival(r, scope.patches) /\ UNCHANGED deskVars
  \/ \E s \in scope.signals, want \in scope.wants : OpenCase(r, s, want)
  \/ AskBackfill(r)
  \/ \E c \in Cases, st \in scope.statuses : SetStatus(r, c, st)
  \/ \E c \in Cases : \/ ViewCase(r, "resolve", c, "closed")
                      \/ ViewCase(r, "evidence", c, None)
                      \/ ViewCase(r, "regenerate", c, None)
                      \/ ViewCase(r, "get", c, None)
                      \/ \E st \in Markable, done \in BOOLEAN :
                           ViewCase(r, "step", c, [step |-> st, done |-> done])

Next == \/ \E r \in Request : RequestStep(r) \/ Fail(r) \/ FailRow(r)
        \/ \E r \in User : Arrival(r)
        \/ BootBackfill \/ FailScan
        \/ \E s \in scope.signals, st \in scope.marks : Triage(s, st)
        \/ Crash

Spec == Init /\ [][Next]_vars

(* Timers fire, and the event loop goes on while any request can; no       *)
(* request needs a promise of its own, since each is a finite sequence.    *)
Fairness == WF_vars(BootBackfill) /\ WF_vars(\E r \in Request : RequestStep(r))
FairSpec == Spec /\ Fairness

-----------------------------------------------------------------------------
(* Properties. *)

(* The rows that refer to each other do. *)
RowsOK ==
  /\ tasks \in [TaskId -> TaskRow \cup {None}]
  /\ cases \in [CaseId -> CaseRow \cup {None}]
  /\ \A t \in Tasks : tasks[t].case \in Cases \cup {None}
  /\ \A c \in Cases : cases[c].task \in Tasks \cup {None}

(* The types of the rows, and of what a request may hold. *)
TypeOK ==
  /\ RowsOK
  /\ triage \in [Signal -> TriageStatus \cup {None}]
  /\ \A r \in Request : /\ req[r].op \in Ops \cup {"idle"}
                        /\ req[r].case \in Cases \cup {None}
                        /\ req[r].task \in Tasks \cup {None}
  /\ flagged \subseteq TaskId \cup CaseId \cup Signal \cup CVE
  /\ waived \subseteq CaseId

(* case.ts:38, "same CVE/BDU/TG primary signal merges into one case": two  *)
(* cases with one key are open together only when both were being opened   *)
(* at once, or one was opened again by hand beside the other.              *)
OneCasePerKey ==
  \A c, d \in CaseId : Active(c) /\ Active(d) /\ cases[c].key = cases[d].key /\ c # d
                          => cases[c].key \in flagged

(* A case has one task and knows it, however often its signals come in, it *)
(* is closed and opened again, or the backfill runs: a second task or a    *)
(* forgotten one takes two requests that made it at once, or a cut         *)
(* between making a task and telling the case.                             *)
OneTaskPerCase ==
  \A t \in Tasks : LET c == tasks[t].case IN
    \/ c = None \/ c \in flagged
    \/ cases[c].task = t
    \/ \E r \in Request : Ensuring(r) /\ req[r].task = t

(* A resolve that nothing overlapped leaves nothing open behind: the case  *)
(* is resolved, its signals are done in the queue, and its task is closed  *)
(* and scores nothing.                                                     *)
ResolveSettles ==
  [][\A r \in Request :
       LET q == req[r] IN
       q.op = "resolve" /\ q.alone /\ q.at # "view" /\ req'[r].at = "view" =>
         /\ cases[q.case].status = "resolved"
         /\ \A s \in cases[q.case].refs : triage[s] = "done"
         /\ LET t == cases[q.case].task IN
            t # None => tasks'[t].status = "closed" /\ tasks'[t].score = 0]_vars

(* The mark an analyst has put on a step stays while the playbook has the  *)
(* step, through every view that makes the playbook anew: it goes when it  *)
(* is taken back, or under a request that wrote back an outdated copy.     *)
MarksStay ==
  \A c \in Cases : cases[c].play # None =>
    LET old == cases[c].play  new == cases'[c].play IN
    \A st \in old.done \cap new.steps : st \notin new.done =>
      \E r \in Request : /\ req[r].case = c /\ req'[r] # req[r]
                        /\ \/ req[r].at = "mark" /\ req[r].arg = [step |-> st, done |-> FALSE]
                           \/ req[r].play # old
MarksSurvive == [][MarksStay]_vars

(* A case whose request died gets its task from the backfill of the next   *)
(* start, as long as it stays open.                                        *)
Bare(c) == Active(c) /\ cases[c].task = None
TaskArrives == \A c \in CaseId : Bare(c) ~> (~Bare(c) \/ c \in waived)
=============================================================================
