--------------------------- MODULE VocDeskProofs ---------------------------
(***************************************************************************)
(* Proofs about VocDesk, for any signals, requests, workloads and bounds:  *)
(* type correctness, one case per dedup key, one task per case, no closed  *)
(* task opened again but by a request that says so, and no mark lost.      *)
(***************************************************************************)
EXTENDS VocDesk, TLAPS

(* What a request carries. *)
OpenArg == [want : BOOLEAN, new : BOOLEAN]
MarkArg == [step : Step, done : BOOLEAN]
Point == {"idle", "links", "read", "status", "score", "floor", "patch", "update",
          "look", "lookSave", "view", "viewSave", "playbook", "rewrite", "evidence", "mark",
          "attach", "insert", "ref", "ensure", "insertTask", "link", "row",
          "close", "refs", "settle"}
Row(q) == [op : Ops \cup {"idle"}, at : Point, case : CaseId \cup {None},
             task : TaskId \cup {None}, sig : Signal \cup {None}, arg : {q.arg},
             links : SUBSET CVE, seen : Status \cup {None}, play : Playbook \cup {None},
             todo : SUBSET (CaseId \cup Signal), alone : {q.alone}]

(* What a request must carry to stand at a point, with the tasks T and the *)
(* cases C.                                                                *)
Fits(at, q, T, C) ==
  /\ at \in Point
  /\ at \in {"links", "read", "status", "score", "floor", "patch", "update", "link"}
       => q.task \in T
  /\ at \in {"patch", "update"} => q.op \in {"patch", "resolve"} /\ q.arg \in Patches
  /\ at \in {"score", "update"} => q.seen \in Status
  /\ at \in {"ensure", "insertTask", "floor", "link"} => q.op \in {"open", "backfill"}
  /\ q.op \in {"open", "backfill"} /\ at \in EnsurePoint
       => q.case \in C /\ (q.op = "open" => q.arg \in OpenArg)
  /\ at \in {"ensure", "insertTask"} => q.task = None /\ q.sig \in Signal
  /\ at \in {"look", "lookSave"} =>
       /\ q.op \in {"resolve", "step", "evidence", "regenerate"} /\ q.case \in C
       /\ q.op = "step" => q.arg \in MarkArg
  /\ at \in {"attach", "ref", "view", "viewSave", "playbook", "rewrite", "evidence", "mark"}
       => q.case \in C
  /\ at = "evidence" => q.op = "evidence"
  /\ at = "mark" => q.arg \in MarkArg /\ q.play \in Playbook
  /\ at \in {"attach", "insert", "ref"} =>
       q.op = "open" /\ q.sig \in Signal /\ q.task = None /\ q.arg \in OpenArg
  /\ at \in {"close", "refs", "settle"} => q.op = "resolve"
  /\ at = "playbook" => q.play = None
  /\ at = "row" => q.op = "backfill" /\ q.task = None
  /\ at = "settle" => q.todo \subseteq Signal

Sound(q, T, C) ==
  /\ q \in Row(q)
  /\ q.case \in C \cup {None} /\ q.task \in T \cup {None}
  /\ q.op = "resolve" => q.case \in C /\ q.arg = "closed"
  /\ q.op = "backfill" => q.todo \subseteq C
  /\ Fits(q.at, q, T, C)

ReqOK == /\ req = [r \in Request |-> req[r]]
         /\ \A r \in Request : Sound(req[r], Tasks, Cases)

TypeInv == /\ TypeOK /\ ReqOK
           /\ scope \in Inputs
           /\ ~backfilled => req[Boot].op = "idle" /\ req[Boot].at = "idle"

(* The request has found a case without a task, and is making one. *)
Makes(q) == q.op \in {"open", "backfill"} /\ q.at \in EnsurePoint \ {"ensure"}

(* It is about to make a case, or a task. *)
Forth(q) == q.at = "insert" \/ Makes(q)

(* Two lookups that found nothing for a key, or one beside an active case, *)
(* have flagged the key.                                                   *)
Key(r) == DedupKey(req[r].sig)
Keyed == /\ \A r, u \in Request :
              r # u /\ req[r].at = "insert" /\ req[u].at = "insert" /\ Key(r) = Key(u)
                => Key(r) \in flagged
         /\ \A r \in Request, c \in CaseId :
              req[r].at = "insert" /\ Merges(c, Key(r)) => Key(r) \in flagged
         /\ OneCasePerKey

(* While its case is not flagged, a request that makes a task is the only  *)
(* one to do so for the case, and the case has no other.                   *)
Making(r) == Makes(req[r])
Tasked ==
  /\ \A r \in Request : Making(r) /\ req[r].at # "insertTask"
                          => tasks[req[r].task].case = req[r].case
  /\ \A r \in Request : Making(r) /\ req[r].case \notin flagged =>
       /\ cases[req[r].case].task = None
       /\ \A u \in Request \ {r} : ~(Making(u) /\ req[u].case = req[r].case)
       /\ \A t \in Tasks : tasks[t].case = req[r].case
                             => req[r].task = t /\ req[r].at # "insertTask"
  /\ OneTaskPerCase

Inv == TypeInv /\ Keyed /\ Tasked

-----------------------------------------------------------------------------
(* Sound records. *)

LEMMA SoundBlank == ASSUME NEW T, NEW C PROVE Sound(Blank, T, C)
  BY DEF Sound, Fits, Row, Blank, Point, EnsurePoint

(* More rows, or company, leave a record sound. *)
LEMMA SoundGrows ==
  ASSUME NEW q, NEW T, NEW C, NEW T2, NEW C2, Sound(q, T, C), T \subseteq T2, C \subseteq C2
  PROVE Sound(q, T2, C2)
  BY DEF Sound, Fits

LEMMA SoundAlike ==
  ASSUME NEW q, NEW p, NEW T, NEW C, Sound(q, T, C), p \in Row(p),
         p.op = q.op, p.case = q.case, p.task = q.task, p.sig = q.sig,
         p.arg = q.arg, p.seen = q.seen, p.play = q.play, p.todo = q.todo,
         Fits(p.at, q, T, C)
  PROVE Sound(p, T, C)
  BY DEF Sound, Fits

LEMMA SoundAlone ==
  ASSUME NEW q, NEW T, NEW C, Sound(q, T, C)
  PROVE Sound([q EXCEPT !.alone = FALSE], T, C)
<1> DEFINE p == [q EXCEPT !.alone = FALSE]
<1>1. q \in Row(q) /\ Fits(q.at, q, T, C)
  BY DEF Sound
<1>2. /\ p.op = q.op /\ p.at = q.at /\ p.case = q.case /\ p.task = q.task /\ p.sig = q.sig
      /\ p.arg = q.arg /\ p.seen = q.seen /\ p.play = q.play /\ p.todo = q.todo
      /\ p \in Row(p)
  BY <1>1 DEF Row
<1>3. Sound(p, T, C)
  <2> HIDE DEF p
  <2> QED BY <1>1, <1>2, SoundAlike
<1> QED BY <1>3

LEMMA SoundAt ==
  ASSUME NEW q, NEW x, NEW T, NEW C, Sound(q, T, C), Fits(x, q, T, C)
  PROVE /\ Sound([q EXCEPT !.at = x], T, C)
        /\ [q EXCEPT !.at = x].op = q.op /\ [q EXCEPT !.at = x].at = x
        /\ [q EXCEPT !.at = x].case = q.case /\ [q EXCEPT !.at = x].task = q.task
        /\ [q EXCEPT !.at = x].sig = q.sig
<1> DEFINE p == [q EXCEPT !.at = x]
<1>1. q \in Row(q) /\ x \in Point
  BY DEF Sound, Fits
<1>2. /\ p.op = q.op /\ p.at = x /\ p.case = q.case /\ p.task = q.task /\ p.sig = q.sig
      /\ p.arg = q.arg /\ p.seen = q.seen /\ p.play = q.play /\ p.todo = q.todo
      /\ p \in Row(p)
  BY <1>1 DEF Row
<1>3. Sound(p, T, C)
  <2> HIDE DEF p
  <2> QED BY <1>2, SoundAlike
<1> QED BY <1>2, <1>3

(* Going on elsewhere: what each point needs of the record. *)
LEMMA SoundEnd ==
  ASSUME NEW q, NEW T, NEW C
  PROVE Sound(Resume(q, "end"), T, C) /\ ~Forth(Resume(q, "end"))
  BY SoundBlank DEF Resume, Forth, Makes, Blank

LEMMA SoundLight ==
  ASSUME NEW p, NEW T, NEW C, C \subseteq CaseId, p.op \in Ops \ {"resolve"},
         p.at \in {"view", "playbook", "row"}, p.at = "row" => p.op = "backfill",
         p.case \in C \cup {None}, p.at # "row" => p.case \in C,
         p.todo \subseteq C,
         p = [op |-> p.op, at |-> p.at, case |-> p.case, task |-> None, sig |-> None,
              arg |-> None, links |-> {}, seen |-> None, play |-> None, todo |-> p.todo,
              alone |-> FALSE]
  PROVE Sound(p, T, C) /\ ~Forth(p)
<1>1. p.task = None
  OBVIOUS
<1>2. p \in Row(p)
  BY DEF Row, Point
<1> QED BY <1>1, <1>2 DEF Sound, Fits, Point, EnsurePoint, Forth, Makes

LEMMA SoundView ==
  ASSUME NEW q, NEW T, NEW C, q.case \in C, C \subseteq CaseId
  PROVE Sound(Resume(q, "view"), T, C) /\ ~Forth(Resume(q, "view"))
<1>1. "get" \in Ops \ {"resolve"}
  BY DeskAssumption
<1> QED BY <1>1, SoundLight DEF Resume, Blank

LEMMA SoundPlaybook ==
  ASSUME NEW q, NEW T, NEW C, q.case \in C, q.op = "open", C \subseteq CaseId
  PROVE Sound(Resume(q, "playbook"), T, C) /\ ~Forth(Resume(q, "playbook"))
<1>1. "open" \in Ops \ {"resolve"}
  BY DeskAssumption
<1> QED BY <1>1, SoundLight DEF Resume, Blank

LEMMA SoundRow ==
  ASSUME NEW q, NEW T, NEW C, q.op = "backfill", q.todo \subseteq C, C \subseteq CaseId
  PROVE Sound(Resume(q, "row"), T, C) /\ ~Forth(Resume(q, "row"))
<1>1. "backfill" \in Ops \ {"resolve"}
  BY DeskAssumption
<1> QED BY <1>1, SoundLight DEF Resume, Blank

-----------------------------------------------------------------------------
(* Quiet steps: those that make no case or task, open no case, and hand no *)
(* task over.                                                              *)

KeyCalm(q, n) == n.at = "insert" => q.at = "insert" /\ n.sig = q.sig
TaskCalm(q, n) ==
  /\ Makes(q) <=> Makes(n)
  /\ Makes(n) =>
       /\ n.case = q.case /\ n.task = q.task
       /\ n.at = "insertTask" <=> q.at = "insertTask"
Calm(q, n) == KeyCalm(q, n) /\ TaskCalm(q, n)
CalmReqs == \A r \in Request : Calm(req[r], req'[r])
CalmTasks == /\ Tasks \subseteq Tasks'
             /\ \A t \in Tasks : tasks'[t].case = tasks[t].case
             /\ \A t \in Tasks' \ Tasks : tasks'[t].case = None
SameKeys == /\ Cases' = Cases
            /\ \A c \in Cases : /\ cases'[c].key = cases[c].key
                                /\ Active(c)' => Active(c)
SameLinks == /\ Cases \subseteq Cases'
             /\ \A c \in Cases : cases'[c].task = cases[c].task
FlagsKept == flagged \ TaskId \subseteq flagged'
CalmRows == CalmTasks /\ SameKeys /\ SameLinks

LEMMA NoRow ==
  ASSUME TypeInv, UNCHANGED <<tasks, cases>>
  PROVE RowsOK' /\ CalmRows
  BY DEF TypeInv, TypeOK, RowsOK, CalmRows, CalmTasks, SameKeys, SameLinks, Tasks, Cases, Active

LEMMA TaskChange ==
  ASSUME TypeInv, NEW t \in Tasks, NEW w \in TaskRow, w.case = tasks[t].case,
         tasks' = [tasks EXCEPT ![t] = w], UNCHANGED cases
  PROVE RowsOK' /\ CalmRows /\ Tasks' = Tasks
<1>1. t \in TaskId /\ w # None
  BY IdentityAssumption DEF Tasks
<1>2. Tasks' = Tasks /\ Cases' = Cases
  BY <1>1 DEF Tasks, Cases, TypeInv, TypeOK, RowsOK
<1>3. \A u \in TaskId : tasks'[u] = IF u = t THEN w ELSE tasks[u]
  BY DEF TypeInv, TypeOK, RowsOK
<1>4. RowsOK'
  BY <1>1, <1>2, <1>3 DEF TypeInv, TypeOK, RowsOK
<1>5. CalmRows
  BY <1>2, <1>3 DEF CalmRows, CalmTasks, SameKeys, SameLinks, Active, Tasks
<1> QED BY <1>2, <1>4, <1>5

LEMMA CaseChange ==
  ASSUME TypeInv, NEW c \in Cases, NEW w \in CaseRow,
         w.key = cases[c].key, w.task = cases[c].task,
         w.status \in {cases[c].status, "resolved"},
         cases' = [cases EXCEPT ![c] = w], UNCHANGED tasks
  PROVE RowsOK' /\ CalmRows /\ Cases' = Cases
<1>1. c \in CaseId /\ w # None
  BY IdentityAssumption DEF Cases
<1>2. Tasks' = Tasks /\ Cases' = Cases
  BY <1>1 DEF Tasks, Cases, TypeInv, TypeOK, RowsOK
<1>3. \A d \in CaseId : cases'[d] = IF d = c THEN w ELSE cases[d]
  BY DEF TypeInv, TypeOK, RowsOK
<1>4. RowsOK'
  BY <1>1, <1>2, <1>3 DEF TypeInv, TypeOK, RowsOK
<1>5. CalmRows
  BY <1>2, <1>3 DEF CalmRows, CalmTasks, SameKeys, SameLinks, Active, Cases
<1> QED BY <1>2, <1>4, <1>5

(* One request moves. *)
LEMMA Moves ==
  ASSUME TypeInv, Tasks \subseteq Tasks', Cases \subseteq Cases',
         NEW r \in Request, NEW n, Sound(n, Tasks', Cases'), req' = [req EXCEPT ![r] = n]
  PROVE /\ ReqOK' /\ req'[r] = n
        /\ \A s \in Request \ {r} : req'[s] = req[s]
        /\ Calm(req[r], n) => CalmReqs
<1>1. \A s \in Request : req'[s] = IF s = r THEN n ELSE req[s]
  BY DEF TypeInv, ReqOK
<1>2. req' = [s \in Request |-> req'[s]]
  BY <1>1 DEF TypeInv, ReqOK
<1>3. \A s \in Request : Sound(req'[s], Tasks', Cases')
  BY <1>1, SoundGrows DEF TypeInv, ReqOK
<1> QED BY <1>1, <1>2, <1>3 DEF ReqOK, CalmReqs, Calm, KeyCalm, TaskCalm

(* One request begins. *)
LEMMA Begins ==
  ASSUME TypeInv, Tasks \subseteq Tasks', Cases \subseteq Cases',
         NEW r \in Request, NEW op, NEW q, Begin(r, op, q),
         \A a : Sound([q EXCEPT !.op = op, !.alone = a], Tasks', Cases')
  PROVE /\ ReqOK' /\ \E a : req'[r] = [q EXCEPT !.op = op, !.alone = a]
        /\ \A s \in Request \ {r} : req'[s] = [req[s] EXCEPT !.alone = FALSE]
        /\ \A s \in Request \ {r} : Calm(req[s], req'[s])
<1>1. PICK a : req' = [s \in Request |-> IF s = r THEN [q EXCEPT !.op = op, !.alone = a]
                                        ELSE [req[s] EXCEPT !.alone = FALSE]]
  BY DEF Begin
<1>2. \A s \in Request : Sound(req'[s], Tasks', Cases')
  BY <1>1, SoundAlone, SoundGrows DEF TypeInv, ReqOK
<1>3. \A s \in Request : req[s] \in Row(req[s])
  BY DEF TypeInv, ReqOK, Sound
<1>4. \A s \in Request \ {r} : Calm(req[s], req'[s])
  BY <1>1, <1>3, ZenonT(60) DEF Row, Calm, KeyCalm, TaskCalm, Makes
<1>5. req' = [s \in Request |-> req'[s]]
  BY <1>1
<1> QED BY <1>1, <1>2, <1>4, <1>5 DEF ReqOK

(* What remains of the types. *)
LEMMA TypeNext ==
  ASSUME TypeInv, RowsOK', ReqOK', UNCHANGED scope,
         triage' \in [Signal -> TriageStatus \cup {None}],
         flagged' \subseteq TaskId \cup CaseId \cup Signal \cup CVE, waived' \subseteq CaseId,
         ~backfilled' => req'[Boot].op = "idle" /\ req'[Boot].at = "idle"
  PROVE TypeInv'
  BY DEF TypeInv, TypeOK, ReqOK, Sound, Row

Quiet == CalmReqs /\ CalmRows /\ FlagsKept

(* A step of one request that writes no more than rows. *)
LEMMA QuietMove ==
  ASSUME TypeInv, RowsOK', CalmRows, UNCHANGED <<backfilled, waived, scope>>,
         triage' \in [Signal -> TriageStatus \cup {None}],
         flagged' \subseteq flagged \cup TaskId, FlagsKept,
         NEW r \in Request, req[r].at # "idle", NEW n, Sound(n, Tasks', Cases'),
         Calm(req[r], n), req' = [req EXCEPT ![r] = n]
  PROVE TypeInv' /\ Quiet
<1>1. ReqOK' /\ CalmReqs /\ \A s \in Request \ {r} : req'[s] = req[s]
  BY Moves DEF CalmRows, CalmTasks, SameLinks
<1>2. ~backfilled' => r # Boot
  BY DEF TypeInv, Blank
<1>3. ~backfilled' => req'[Boot].op = "idle" /\ req'[Boot].at = "idle"
  BY <1>1, <1>2, DeskAssumption DEF TypeInv
<1>4. /\ flagged' \subseteq TaskId \cup CaseId \cup Signal \cup CVE
      /\ waived' \subseteq CaseId
  BY DEF TypeInv, TypeOK
<1> QED BY <1>1, <1>3, <1>4, TypeNext DEF Quiet

(* ... and one that writes no row at all. *)
LEMMA QuietRead ==
  ASSUME TypeInv, UNCHANGED <<tasks, flagged, deskVars>>,
         NEW r \in Request, req[r].at # "idle", NEW n, Sound(n, Tasks, Cases),
         Calm(req[r], n), req' = [req EXCEPT ![r] = n]
  PROVE TypeInv' /\ Quiet
<1>1. /\ UNCHANGED <<backfilled, waived, scope, cases>> /\ FlagsKept
      /\ triage' \in [Signal -> TriageStatus \cup {None}]
  BY DEF deskVars, rest, FlagsKept, TypeInv, TypeOK
<1>2. RowsOK' /\ CalmRows /\ Tasks' = Tasks /\ Cases' = Cases
  BY <1>1, NoRow DEF Tasks, Cases
<1> QED BY <1>1, <1>2, QuietMove

-----------------------------------------------------------------------------
(* The steps of the task service. *)

LEMMA AtType ==
  ASSUME TypeInv, NEW r \in Request
  PROVE /\ Sound(req[r], Tasks, Cases) /\ Fits(req[r].at, req[r], Tasks, Cases)
        /\ req[r] \in Row(req[r])
  BY DEF TypeInv, ReqOK, Sound

LEMMA MaxPair ==
  ASSUME NEW a \in 0..100, NEW b \in 0..100
  PROVE Max({a, b}) \in 0..100
<1>1. \E x \in {a, b} : \A y \in {a, b} : x >= y
  OBVIOUS
<1> QED BY <1>1 DEF Max

LEMMA ScoreType == ASSUME NEW L, NEW st PROVE FinalScore(L, st) \in 0..100
<1>1. \A n : Clamp(n) \in 0..100
  BY DEF Clamp
<1> QED BY <1>1 DEF FinalScore, AggregateScore

LEMMA FloorType == ASSUME NEW p \in Priorities PROVE ScoreFloor(p) \in 0..100
  BY DEF Priorities, ScoreFloor

(* A step that writes the row of one task. *)
LEMMA QuietWrite ==
  ASSUME TypeInv, UNCHANGED deskVars,
         NEW t \in Tasks, NEW w \in TaskRow, w.case = tasks[t].case,
         tasks' = [tasks EXCEPT ![t] = w],
         flagged' \in {flagged, flagged \cup {t}, flagged \ {t}},
         NEW r \in Request, req[r].at # "idle", NEW n, Sound(n, Tasks, Cases),
         Calm(req[r], n), req' = [req EXCEPT ![r] = n]
  PROVE TypeInv' /\ Quiet
<1>1. UNCHANGED <<cases, triage, backfilled, waived, scope>> /\ t \in TaskId
  BY DEF deskVars, rest, Tasks
<1>2. RowsOK' /\ CalmRows /\ Tasks' = Tasks /\ Cases' = Cases
  BY <1>1, TaskChange DEF CalmRows, SameKeys
<1>3. /\ triage' \in [Signal -> TriageStatus \cup {None}]
      /\ flagged' \subseteq flagged \cup TaskId /\ FlagsKept
  BY <1>1 DEF TypeInv, TypeOK, FlagsKept
<1> QED BY <1>1, <1>2, <1>3, QuietMove

LEMMA LinkCvesQuiet ==
  ASSUME TypeInv, NEW r \in Request, LinkCves(r), UNCHANGED deskVars
  PROVE TypeInv' /\ Quiet
<1> DEFINE q == req[r]
           w == [tasks[q.task] EXCEPT !.links = @ \cup q.links]
<1>1. /\ q.at = "links" /\ tasks' = [tasks EXCEPT ![q.task] = w]
      /\ req' = [req EXCEPT ![r] = [q EXCEPT !.at = "read"]]
      /\ flagged' = flagged \/ flagged' = flagged \cup {q.task}
  BY DEF LinkCves, Disturb
<1>2. q.task \in Tasks /\ q.links \subseteq CVE
  BY <1>1, AtType DEF Fits, Row
<1>3. tasks[q.task] \in TaskRow
  BY <1>2 DEF Tasks, TypeInv, TypeOK, RowsOK
<1>4. w \in TaskRow /\ w.case = tasks[q.task].case
  BY <1>2, <1>3 DEF TaskRow
<1>5. Fits("read", q, Tasks, Cases)
  BY <1>1, AtType DEF Fits, Point, EnsurePoint
<1>6. Sound([q EXCEPT !.at = "read"], Tasks, Cases) /\ Calm(q, [q EXCEPT !.at = "read"])
  BY <1>1, <1>5, AtType, SoundAt DEF Calm, KeyCalm, TaskCalm, Makes, EnsurePoint
<1> HIDE DEF w
<1> QED BY <1>1, <1>2, <1>4, <1>6, QuietWrite

LEMMA ReadLinksQuiet ==
  ASSUME TypeInv, NEW r \in Request, ReadLinks(r), UNCHANGED deskVars
  PROVE TypeInv' /\ Quiet
<1> DEFINE q == req[r]
           n == [q EXCEPT !.at = "status", !.links = tasks[q.task].links]
<1>1. q.at = "read" /\ req' = [req EXCEPT ![r] = n] /\ UNCHANGED <<tasks, flagged>>
  BY DEF ReadLinks
<1>2. q.task \in Tasks /\ q \in Row(q)
  BY <1>1, AtType DEF Fits
<1>3. tasks[q.task].links \subseteq CVE
  BY <1>2 DEF Tasks, TypeInv, TypeOK, RowsOK, TaskRow
<1>4. /\ n \in Row(n) /\ n.at = "status" /\ n.op = q.op /\ n.case = q.case
      /\ n.task = q.task /\ n.sig = q.sig /\ n.arg = q.arg /\ n.seen = q.seen
      /\ n.play = q.play /\ n.todo = q.todo
  BY <1>2, <1>3, ZenonT(60) DEF Row, Point
<1>5. Fits("status", q, Tasks, Cases)
  BY <1>1, AtType DEF Fits, Point, EnsurePoint
<1> HIDE DEF n
<1>6. Sound(n, Tasks, Cases) /\ Calm(q, n)
  BY <1>1, <1>4, <1>5, AtType, SoundAlike DEF Calm, KeyCalm, TaskCalm, Makes, EnsurePoint
<1> QED BY <1>1, <1>6, QuietRead

LEMMA ReadStatusQuiet ==
  ASSUME TypeInv, NEW r \in Request, ReadStatus(r) \/ SelectTask(r), UNCHANGED deskVars
  PROVE TypeInv' /\ Quiet
<1> DEFINE q == req[r]
           x == IF q.at = "status" THEN "score" ELSE "update"
           n == [q EXCEPT !.at = x, !.seen = tasks[q.task].status]
<1>1. /\ q.at \in {"status", "patch"} /\ req' = [req EXCEPT ![r] = n]
      /\ UNCHANGED <<tasks, flagged>>
  BY DEF ReadStatus, SelectTask
<1>2. q.task \in Tasks /\ q \in Row(q)
  BY <1>1, AtType DEF Fits
<1>3. tasks[q.task].status \in Status
  BY <1>2 DEF Tasks, TypeInv, TypeOK, RowsOK, TaskRow
<1>4. /\ n \in Row(n) /\ n.at = x /\ n.op = q.op /\ n.case = q.case
      /\ n.task = q.task /\ n.sig = q.sig /\ n.arg = q.arg /\ n.seen \in Status
      /\ n.play = q.play /\ n.todo = q.todo
  <2>1. x \in Point
    BY DEF Point
  <2> HIDE DEF x
  <2> QED BY <1>2, <1>3, <2>1 DEF Row
<1> HIDE DEF n
<1>5. Sound(n, Tasks, Cases) /\ Calm(q, n)
  BY <1>1, <1>4, AtType DEF Sound, Fits, Point, Calm, KeyCalm, TaskCalm, Makes, EnsurePoint
<1> QED BY <1>1, <1>5, QuietRead

LEMMA WriteScoreQuiet ==
  ASSUME TypeInv, NEW r \in Request, WriteScore(r), UNCHANGED deskVars
  PROVE TypeInv' /\ Quiet
<1> DEFINE q == req[r]
           w == [tasks[q.task] EXCEPT !.score = FinalScore(q.links, q.seen)]
           n == Resume(q, AfterScore(q))
<1>1. /\ q.at = "score" /\ tasks' = [tasks EXCEPT ![q.task] = w]
      /\ req' = [req EXCEPT ![r] = n]
      /\ flagged' = flagged \/ flagged' = flagged \ {q.task}
  BY DEF WriteScore
<1>2. q.task \in Tasks /\ q \in Row(q)
  BY <1>1, AtType DEF Fits
<1>3. tasks[q.task] \in TaskRow
  BY <1>2 DEF Tasks, TypeInv, TypeOK, RowsOK
<1>4. w \in TaskRow /\ w.case = tasks[q.task].case
  BY <1>2, <1>3, ScoreType DEF TaskRow
<1>5. Sound(n, Tasks, Cases) /\ Calm(q, n)
  <2>1. CASE q.op \in {"open", "backfill"}
    <3>1. n = [q EXCEPT !.at = "floor", !.links = {}, !.seen = None]
      BY <2>1 DEF Resume, AfterScore
    <3>2. /\ n \in Row(n) /\ n.at = "floor" /\ n.op = q.op /\ n.case = q.case
          /\ n.task = q.task /\ n.sig = q.sig /\ n.arg = q.arg
          /\ n.play = q.play /\ n.todo = q.todo
      BY <1>2, <3>1, ZenonT(60) DEF Row, Point
    <3> HIDE DEF n
    <3> QED BY <1>1, <2>1, <3>2, AtType
       DEF Sound, Fits, Point, Calm, KeyCalm, TaskCalm, Makes, EnsurePoint
  <2>2. CASE q.op = "resolve"
    BY <1>1, <2>2, AtType, SoundView
    DEF AfterScore, Cases, Sound, Calm, KeyCalm, TaskCalm, Forth, Makes
  <2>3. CASE q.op \notin {"open", "backfill", "resolve"}
    BY <1>1, <2>3, SoundEnd DEF AfterScore, Calm, KeyCalm, TaskCalm, Forth, Makes
  <2> QED BY <2>1, <2>2, <2>3
<1> HIDE DEF w, n
<1> QED BY <1>1, <1>2, <1>4, <1>5, QuietWrite

LEMMA KeepFloorQuiet ==
  ASSUME TypeInv, NEW r \in Request, KeepFloor(r), UNCHANGED deskVars
  PROVE TypeInv' /\ Quiet
<1> DEFINE q == req[r]
           m == Max({tasks[q.task].score, ScoreFloor(tasks[q.task].priority)})
           w == [tasks[q.task] EXCEPT !.score = m]
           n == [q EXCEPT !.at = "link"]
<1>1. /\ q.at = "floor" /\ tasks' = [tasks EXCEPT ![q.task] = w]
      /\ req' = [req EXCEPT ![r] = n] /\ flagged' = flagged
  BY DEF KeepFloor
<1>2. q.task \in Tasks
  BY <1>1, AtType DEF Fits
<1>3. tasks[q.task] \in TaskRow
  BY <1>2 DEF Tasks, TypeInv, TypeOK, RowsOK
<1>4. m \in 0..100
  BY <1>3, FloorType, MaxPair DEF TaskRow
<1>5. w \in TaskRow /\ w.case = tasks[q.task].case
  <2> HIDE DEF m
  <2> QED BY <1>3, <1>4 DEF TaskRow
<1>6. Fits("link", q, Tasks, Cases)
  BY <1>1, AtType DEF Fits, Point, EnsurePoint
<1>7. Sound(n, Tasks, Cases) /\ Calm(q, n)
  BY <1>1, <1>6, AtType, SoundAt DEF Calm, KeyCalm, TaskCalm, Makes, EnsurePoint, Fits
<1> HIDE DEF w, n
<1> QED BY <1>1, <1>2, <1>5, <1>7, QuietWrite

LEMMA UpdateTaskQuiet ==
  ASSUME TypeInv, NEW r \in Request, UpdateTask(r), UNCHANGED deskVars
  PROVE TypeInv' /\ Quiet
<1> DEFINE q == req[r]
           st == Patched(q.arg, q.seen)
           w == [tasks[q.task] EXCEPT !.status = st]
           n == [q EXCEPT !.at = "read"]
<1>1. /\ q.at = "update" /\ req' = [req EXCEPT ![r] = n]
      /\ IF st = None THEN UNCHANGED <<tasks, flagged>>
         ELSE /\ tasks' = [tasks EXCEPT ![q.task] = w]
              /\ flagged' \in {flagged, flagged \cup {q.task}}
  BY DEF UpdateTask, Disturb
<1>2. q.task \in Tasks
  BY <1>1, AtType DEF Fits
<1>3. tasks[q.task] \in TaskRow
  BY <1>2 DEF Tasks, TypeInv, TypeOK, RowsOK
<1>4. Fits("read", q, Tasks, Cases)
  BY <1>1, AtType DEF Fits, Point, EnsurePoint
<1>5. Sound(n, Tasks, Cases) /\ Calm(q, n)
  BY <1>1, <1>4, AtType, SoundAt DEF Calm, KeyCalm, TaskCalm, Makes, EnsurePoint, Fits
<1>6. CASE st = None
  <2> HIDE DEF n
  <2> QED BY <1>1, <1>5, <1>6, QuietRead
<1>7. CASE st # None
  <2>1. st \in Status
    BY <1>7 DEF Patched, Status
  <2>2. w \in TaskRow /\ w.case = tasks[q.task].case
    <3> HIDE DEF st
    <3> QED BY <1>3, <2>1 DEF TaskRow
  <2> HIDE DEF w, n
  <2> QED BY <1>1, <1>2, <1>5, <1>7, <2>2, QuietWrite
<1> QED BY <1>6, <1>7

LEMMA TaskStepQuiet ==
  ASSUME TypeInv, NEW r \in Request, TaskStep(r), UNCHANGED deskVars
  PROVE TypeInv' /\ Quiet
  BY LinkCvesQuiet, ReadLinksQuiet, ReadStatusQuiet, WriteScoreQuiet, KeepFloorQuiet,
     UpdateTaskQuiet DEF TaskStep

-----------------------------------------------------------------------------
(* The steps of the desk, playbooks first. *)

(* A step that writes the row of one case. *)
LEMMA QuietCase ==
  ASSUME TypeInv, UNCHANGED <<tasks, flagged, rest>>,
         NEW c \in Cases, NEW w \in CaseRow,
         w.key = cases[c].key, w.task = cases[c].task, w.status \in {cases[c].status, "resolved"},
         cases' = [cases EXCEPT ![c] = w],
         NEW r \in Request, req[r].at # "idle", NEW n, Sound(n, Tasks, Cases),
         Calm(req[r], n), req' = [req EXCEPT ![r] = n]
  PROVE TypeInv' /\ Quiet
<1>1. /\ UNCHANGED <<backfilled, waived, scope>> /\ FlagsKept
      /\ triage' \in [Signal -> TriageStatus \cup {None}]
  BY DEF rest, FlagsKept, TypeInv, TypeOK
<1>2. RowsOK' /\ CalmRows /\ Tasks' = Tasks /\ Cases' = Cases
  BY CaseChange DEF Tasks
<1> QED BY <1>1, <1>2, QuietMove

LEMMA CaseType ==
  ASSUME TypeInv, NEW c \in Cases
  PROVE cases[c] \in CaseRow /\ c \in CaseId
  BY DEF Cases, TypeInv, TypeOK, RowsOK

LEMMA BookType ==
  ASSUME TypeInv, NEW b \in scope.books, NEW p \in Playbook \cup {None}
  PROVE Fresh(b) \in Playbook /\ Merge(p, Fresh(b)) \in Playbook
<1>1. b \in [ai : BOOLEAN, steps : SUBSET Step]
  BY DEF TypeInv, Inputs
<1>2. Fresh(b) \in Playbook
  BY <1>1 DEF Fresh, Playbook
<1>3. CASE p = None BY <1>2, <1>3 DEF Merge
<1>4. CASE p # None
  <2> DEFINE f == Fresh(b)
  <2>1. f \in Playbook /\ p \in Playbook
    BY <1>2, <1>4
  <2> HIDE DEF f
  <2>2. Merge(p, f) \in Playbook
    BY <1>4, <2>1 DEF Merge, Playbook
  <2> QED BY <1>2, <2>2 DEF f
<1> QED BY <1>3, <1>4

LEMMA SoundAfterView ==
  ASSUME NEW p, NEW T, NEW C, Sound(p, T, C), C \subseteq CaseId, p.play \in Playbook,
         p.at \in {"look", "lookSave", "view", "viewSave"}
  PROVE Sound(Resume(p, AfterView(p)), T, C) /\ ~Forth(Resume(p, AfterView(p)))
<1>1. CASE AfterView(p) = "end"
  BY <1>1, SoundEnd
<1>2. CASE AfterView(p) # "end"
  <2> DEFINE x == AfterView(p)
  <2>1. /\ x \in {"close", "mark", "evidence", "rewrite"}
        /\ Fits(x, p, T, C)
    BY <1>2 DEF AfterView, Sound, Fits, Point, EnsurePoint
  <2> HIDE DEF x
  <2>2. Resume(p, x) = [p EXCEPT !.at = x]
    BY <2>1 DEF Resume
  <2>3. Sound(Resume(p, x), T, C) /\ ~Forth(Resume(p, x))
    BY <2>1, <2>2, SoundAt DEF Forth, Makes, EnsurePoint
  <2> QED BY <2>3 DEF x
<1> QED BY <1>1, <1>2

LEMMA ReadCaseQuiet ==
  ASSUME TypeInv, NEW r \in Request, ReadCase(r)
  PROVE TypeInv' /\ Quiet
<1> DEFINE q == req[r]
           t == IF q.op = "resolve" /\ q.at = "look" THEN cases[q.case].task ELSE q.task
           p == [q EXCEPT !.play = cases[q.case].play, !.task = t]
           x == IF q.at = "look" THEN "lookSave" ELSE "viewSave"
           n == IF p.play # None /\ p.play.ai THEN Resume(p, AfterView(p))
                ELSE [p EXCEPT !.at = x]
<1>1. q.at \in {"look", "view"} /\ UNCHANGED <<tasks, flagged, deskVars>>
  BY DEF ReadCase
<1>2. req' = [req EXCEPT ![r] = n]
  BY DEF ReadCase
<1>3. q.case \in Cases /\ q \in Row(q)
  BY <1>1, AtType DEF Fits
<1>4. cases[q.case].play \in Playbook \cup {None} /\ t \in Tasks \cup {None}
  BY <1>1, <1>3, AtType, CaseType DEF CaseRow, TypeInv, TypeOK, RowsOK, Sound
<1>5. /\ p \in Row(p) /\ p.at = q.at /\ p.op = q.op /\ p.case = q.case /\ p.task = t
      /\ p.sig = q.sig /\ p.arg = q.arg /\ p.seen = q.seen
      /\ p.play = cases[q.case].play /\ p.todo = q.todo
  <2>1. t \in TaskId \cup {None}
    BY <1>4 DEF Tasks
  <2> HIDE DEF t
  <2> QED BY <1>3, <1>4, <2>1 DEF Row
<1> HIDE DEF p, t
<1>6. Sound(p, Tasks, Cases) /\ ~Makes(q)
  BY <1>1, <1>4, <1>5, AtType DEF Sound, Fits, EnsurePoint, Makes
<1>7. Sound(n, Tasks, Cases) /\ ~Forth(n)
  <2>1. CASE p.play # None /\ p.play.ai
    <3>1. p.play \in Playbook
      BY <1>4, <1>5, <2>1
    <3> QED BY <1>1, <1>5, <1>6, <2>1, <3>1, SoundAfterView DEF Cases
  <2>2. CASE ~(p.play # None /\ p.play.ai)
    <3>1. Fits(x, p, Tasks, Cases) /\ x \in {"lookSave", "viewSave"}
      BY <1>1, <1>5, <1>6 DEF Sound, Fits, Point, EnsurePoint
    <3> HIDE DEF x
    <3> QED BY <1>6, <2>2, <3>1, SoundAt DEF Forth, Makes, EnsurePoint
  <2> QED BY <2>1, <2>2
<1> HIDE DEF n
<1>8. Calm(q, n)
  BY <1>6, <1>7 DEF Calm, KeyCalm, TaskCalm, Forth
<1> QED BY <1>1, <1>2, <1>7, <1>8, QuietRead

LEMMA SavePlaybookQuiet ==
  ASSUME TypeInv, NEW r \in Request, SavePlaybook(r)
  PROVE TypeInv' /\ Quiet
<1> DEFINE q == req[r]
<1>1. q.at \in {"lookSave", "viewSave"} /\ UNCHANGED <<tasks, flagged, rest>>
  BY DEF SavePlaybook
<1>2. PICK b \in scope.books :
        /\ cases' = [cases EXCEPT ![q.case] =
                       [cases[q.case] EXCEPT !.play = Merge(q.play, Fresh(b))]]
        /\ req' = [req EXCEPT ![r] = LET p == [q EXCEPT !.play = Merge(q.play, Fresh(b))]
                                   IN Resume(p, AfterView(p))]
  <2>1. PICK b \in scope.books :
        LET p == [q EXCEPT !.play = Merge(q.play, Fresh(b))] IN
        /\ cases' = [cases EXCEPT ![q.case].play = p.play]
        /\ req' = [req EXCEPT ![r] = Resume(p, AfterView(p))]
    BY DEF SavePlaybook
  <2>2. [q EXCEPT !.play = Merge(q.play, Fresh(b))].play = Merge(q.play, Fresh(b))
    BY AtType DEF Row
  <2> QED BY <2>1, <2>2
<1> DEFINE m == Merge(q.play, Fresh(b))
           p == [q EXCEPT !.play = m]
           n == Resume(p, AfterView(p))
           w == [cases[q.case] EXCEPT !.play = m]
<1>3. q.case \in Cases /\ q \in Row(q)
  BY <1>1, AtType DEF Fits
<1>4. m \in Playbook
  BY <1>3, BookType DEF Row
<1> HIDE DEF m
<1>5. /\ p \in Row(p) /\ p.at = q.at /\ p.op = q.op /\ p.case = q.case /\ p.task = q.task
      /\ p.sig = q.sig /\ p.arg = q.arg /\ p.seen = q.seen /\ p.play = m /\ p.todo = q.todo
  BY <1>3, <1>4 DEF Row
<1> HIDE DEF p
<1>6. Sound(p, Tasks, Cases) /\ ~Makes(q)
  BY <1>1, <1>5, AtType DEF Sound, Fits, EnsurePoint, Makes
<1>7. Sound(n, Tasks, Cases) /\ ~Forth(n)
  BY <1>1, <1>4, <1>5, <1>6, SoundAfterView DEF Cases
<1>8. w \in CaseRow /\ w.key = cases[q.case].key /\ w.task = cases[q.case].task
      /\ w.status = cases[q.case].status
  BY <1>3, <1>4, CaseType DEF CaseRow
<1>9. cases' = [cases EXCEPT ![q.case] = w] /\ req' = [req EXCEPT ![r] = n]
  BY <1>2 DEF p, m
<1> HIDE DEF n, w
<1>10. Calm(q, n)
  BY <1>6, <1>7 DEF Calm, KeyCalm, TaskCalm, Forth
<1> QED BY <1>1, <1>3, <1>7, <1>8, <1>9, <1>10, QuietCase

LEMMA NewPlaybookQuiet ==
  ASSUME TypeInv, NEW r \in Request, FirstPlaybook(r) \/ Rewrite(r)
  PROVE TypeInv' /\ Quiet
<1> DEFINE q == req[r]
           n == Resume(q, "view")
<1>1. /\ q.at \in {"playbook", "rewrite"} /\ UNCHANGED <<tasks, flagged, rest>>
      /\ req' = [req EXCEPT ![r] = n]
  BY DEF FirstPlaybook, Rewrite
<1>2. q.case \in Cases /\ q \in Row(q)
  BY <1>1, AtType DEF Fits
<1>3. PICK m \in Playbook : cases' = [cases EXCEPT ![q.case].play = m]
  <2>1. \E b \in scope.books : \/ cases' = [cases EXCEPT ![q.case].play = Fresh(b)]
                               \/ cases' = [cases EXCEPT ![q.case].play = Merge(q.play, Fresh(b))]
    BY DEF FirstPlaybook, Rewrite
  <2>2. q.play \in Playbook \cup {None}
    BY <1>2 DEF Row
  <2> QED BY <2>1, <2>2, BookType
<1> DEFINE w == [cases[q.case] EXCEPT !.play = m]
<1>4. w \in CaseRow /\ w.key = cases[q.case].key /\ w.task = cases[q.case].task
      /\ w.status = cases[q.case].status
  BY <1>2, CaseType DEF CaseRow
<1>5. Sound(n, Tasks, Cases) /\ ~Forth(n) /\ ~Makes(q)
  BY <1>1, <1>2, SoundView DEF Cases, Makes, EnsurePoint
<1> HIDE DEF n
<1>6. Calm(q, n)
  BY <1>5 DEF Calm, KeyCalm, TaskCalm, Forth
<1>7. cases' = [cases EXCEPT ![q.case] = w]
  BY <1>3
<1> HIDE DEF w
<1> QED BY <1>1, <1>2, <1>4, <1>5, <1>6, <1>7, QuietCase

LEMMA ReadForEvidenceQuiet ==
  ASSUME TypeInv, NEW r \in Request, ReadForEvidence(r)
  PROVE TypeInv' /\ Quiet
<1> DEFINE q == req[r]
           play == cases[q.case].play
           p == [q EXCEPT !.at = "mark", !.play = play, !.arg = [step |-> Evidence, done |-> TRUE]]
           n == IF play # None /\ Evidence \in play.steps \ play.done THEN p
                ELSE Resume(q, "view")
<1>1. /\ q.at = "evidence" /\ UNCHANGED <<tasks, flagged, deskVars>>
      /\ req' = [req EXCEPT ![r] = n]
  BY DEF ReadForEvidence
<1>2. q.case \in Cases /\ q \in Row(q) /\ q.op = "evidence"
  BY <1>1, AtType DEF Fits
<1>3. ~Makes(q)
  BY <1>1 DEF Makes, EnsurePoint
<1>4. Sound(n, Tasks, Cases) /\ ~Forth(n)
  <2>1. CASE n = Resume(q, "view")
    BY <1>2, <2>1, SoundView DEF Cases
  <2>2. CASE n = p /\ play # None
    <3>1. play \in Playbook /\ [step |-> Evidence, done |-> TRUE] \in MarkArg
      BY <1>2, <2>2, CaseType, DeskAssumption DEF CaseRow, MarkArg
    <3>2. /\ p \in Row(p) /\ p.at = "mark" /\ p.op = q.op /\ p.case = q.case
          /\ p.task = q.task /\ p.arg \in MarkArg /\ p.play \in Playbook
      BY <1>2, <3>1, ZenonT(60) DEF Row, Point
    <3> HIDE DEF p
    <3>3. Sound(p, Tasks, Cases) /\ ~Forth(p)
      BY <1>2, <3>2, AtType DEF Sound, Fits, Point, EnsurePoint, Forth, Makes
    <3> QED BY <2>2, <3>3
  <2> QED BY <2>1, <2>2
<1> HIDE DEF n
<1>5. Calm(q, n)
  BY <1>3, <1>4 DEF Calm, KeyCalm, TaskCalm, Forth
<1> QED BY <1>1, <1>4, <1>5, QuietRead

LEMMA MarkStepQuiet ==
  ASSUME TypeInv, NEW r \in Request, MarkStep(r)
  PROVE TypeInv' /\ Quiet
<1> DEFINE q == req[r]
           n == Resume(q, "view")
           marked == IF q.arg.done THEN q.play.done \cup {q.arg.step}
                     ELSE q.play.done \ {q.arg.step}
           m == [q.play EXCEPT !.done = marked]
           w == [cases[q.case] EXCEPT !.play = m]
<1>1. /\ q.at = "mark" /\ UNCHANGED <<tasks, flagged, rest>>
      /\ req' = [req EXCEPT ![r] = n]
      /\ cases' = [cases EXCEPT ![q.case] = w]
  BY DEF MarkStep
<1>2. q.case \in Cases /\ q.arg \in MarkArg /\ q.play \in Playbook
  BY <1>1, AtType DEF Fits
<1>3. marked \subseteq Step
  BY <1>2 DEF MarkArg, Playbook
<1>4. m \in Playbook
  <2> HIDE DEF marked
  <2> QED BY <1>2, <1>3 DEF Playbook
<1>5. w \in CaseRow /\ w.key = cases[q.case].key /\ w.task = cases[q.case].task
      /\ w.status = cases[q.case].status
  <2> HIDE DEF m
  <2> QED BY <1>2, <1>4, CaseType DEF CaseRow
<1>6. Sound(n, Tasks, Cases) /\ ~Forth(n) /\ ~Makes(q)
  BY <1>1, <1>2, SoundView DEF Cases, Makes, EnsurePoint
<1> HIDE DEF n, w
<1>7. Calm(q, n)
  BY <1>6 DEF Calm, KeyCalm, TaskCalm, Forth
<1> QED BY <1>1, <1>2, <1>5, <1>6, <1>7, QuietCase

-----------------------------------------------------------------------------
(* Opening, filling and closing. *)

LEMMA AttachRefQuiet ==
  ASSUME TypeInv, NEW r \in Request, AttachRef(r) \/ InsertRef(r)
  PROVE TypeInv' /\ Quiet
<1> DEFINE q == req[r]
           x == IF q.arg.want THEN "ensure" ELSE IF q.at = "ref" THEN "playbook" ELSE "view"
           n == Resume(q, x)
           w == [cases[q.case] EXCEPT !.refs = @ \cup {q.sig}]
<1>1. /\ q.at \in {"attach", "ref"} /\ UNCHANGED <<tasks, flagged, rest>>
      /\ req' = [req EXCEPT ![r] = n] /\ cases' = [cases EXCEPT ![q.case] = w]
  BY DEF AttachRef, InsertRef
<1>2. /\ q.case \in Cases /\ q.op = "open" /\ q.sig \in Signal /\ q.task = None
      /\ q.arg \in OpenArg
  BY <1>1, AtType DEF Fits
<1>3. w \in CaseRow /\ w.key = cases[q.case].key /\ w.task = cases[q.case].task
      /\ w.status = cases[q.case].status
  BY <1>2, CaseType DEF CaseRow
<1>4. Sound(n, Tasks, Cases) /\ ~Forth(n) /\ ~Makes(q)
  <2>1. CASE x = "ensure"
    <3>1. Fits("ensure", q, Tasks, Cases)
      BY <1>2 DEF Fits, Point, EnsurePoint
    <3>2. n = [q EXCEPT !.at = "ensure"]
      BY <2>1 DEF Resume
    <3> HIDE DEF n
    <3>3. Sound(n, Tasks, Cases) /\ n.at = "ensure"
      BY <3>1, <3>2, AtType, SoundAt
    <3> QED BY <1>1, <3>3 DEF Forth, Makes, EnsurePoint
  <2>2. CASE x = "playbook"
    BY <1>1, <1>2, <2>2, SoundPlaybook DEF Cases, Makes, EnsurePoint
  <2>3. CASE x = "view"
    BY <1>1, <1>2, <2>3, SoundView DEF Cases, Makes, EnsurePoint
  <2>4. x \in {"ensure", "playbook", "view"}
    OBVIOUS
  <2> HIDE DEF x, n
  <2> QED BY <2>1, <2>2, <2>3, <2>4
<1> HIDE DEF n, w
<1>5. Calm(q, n)
  BY <1>4 DEF Calm, KeyCalm, TaskCalm, Forth
<1> QED BY <1>1, <1>2, <1>3, <1>4, <1>5, QuietCase

LEMMA BackfillRowQuiet ==
  ASSUME TypeInv, NEW r \in Request, BackfillRow(r)
  PROVE TypeInv' /\ Quiet
<1> DEFINE q == req[r]
<1>1. q.at = "row" /\ UNCHANGED <<tasks, flagged, deskVars>>
  BY DEF BackfillRow
<1>2. q \in Row(q) /\ q.op = "backfill" /\ q.todo \subseteq Cases /\ ~Makes(q)
  BY <1>1, AtType DEF Sound, Fits, Makes, EnsurePoint
<1>3. CASE q.todo = {}
  <2>1. req' = [req EXCEPT ![r] = Blank]
    BY <1>3 DEF BackfillRow
  <2>2. Calm(q, Blank)
    BY <1>2 DEF Calm, KeyCalm, TaskCalm, Makes, Blank
  <2> QED BY <1>1, <2>1, <2>2, SoundBlank, QuietRead
<1>4. CASE q.todo # {}
  <2>1. PICK c \in q.todo :
          req' = [req EXCEPT ![r] = [q EXCEPT !.at = "ensure", !.case = c,
                                              !.sig = cases[c].primary,
                                              !.links = BackfillCves(c),
                                              !.todo = q.todo \ {c}]]
    BY <1>4 DEF BackfillRow
  <2>2. c \in Cases /\ c \in CaseId /\ cases[c].primary \in Signal /\ cases[c].refs \subseteq Signal
    BY <1>2, <2>1, CaseType DEF CaseRow
  <2>3. BackfillCves(c) \subseteq CVE
    <3>1. UNION {CveOf[s] : s \in {x \in cases[c].refs : Source[x] = "cve"}} \subseteq CVE
      BY <2>2, DeskAssumption
    <3>2. CveOf[cases[c].primary] \subseteq CVE /\ Source[cases[c].primary] \in {"cve", "bdu", "tg"}
      BY <2>2, DeskAssumption
    <3> QED BY <3>1, <3>2 DEF BackfillCves
  <2> DEFINE n == [q EXCEPT !.at = "ensure", !.case = c, !.sig = cases[c].primary,
                            !.links = BackfillCves(c), !.todo = q.todo \ {c}]
  <2>4. n \in Row(n) /\ n.at = "ensure" /\ n.op = q.op /\ n.case = c /\ n.task = q.task
        /\ n.sig \in Signal /\ n.todo = q.todo \ {c}
    BY <1>2, <2>2, <2>3 DEF Row, Point
  <2>5. q.task = None
    BY <1>1, AtType DEF Fits
  <2> HIDE DEF n
  <2>6. Sound(n, Tasks, Cases) /\ Calm(q, n)
    BY <1>2, <2>2, <2>4, <2>5 DEF Sound, Fits, Point, EnsurePoint, Calm, KeyCalm, TaskCalm, Makes
  <2>7. req' = [req EXCEPT ![r] = n]
    BY <2>1 DEF n
  <2> QED BY <1>1, <2>6, <2>7, QuietRead
<1> QED BY <1>3, <1>4

LEMMA CloseCaseQuiet ==
  ASSUME TypeInv, NEW r \in Request, CloseCase(r)
  PROVE TypeInv' /\ Quiet
<1> DEFINE q == req[r]
           w == [cases[q.case] EXCEPT !.status = "resolved"]
           n == [q EXCEPT !.at = "refs"]
<1>1. /\ q.at = "close" /\ UNCHANGED <<tasks, flagged, rest>>
      /\ req' = [req EXCEPT ![r] = n] /\ cases' = [cases EXCEPT ![q.case] = w]
  BY DEF CloseCase
<1>2. q.op = "resolve" /\ q.case \in Cases
  BY <1>1, AtType DEF Sound, Fits
<1>3. w \in CaseRow /\ w.key = cases[q.case].key /\ w.task = cases[q.case].task
      /\ w.status = "resolved"
  BY <1>2, CaseType DEF CaseRow, CaseStatus
<1>4. Fits("refs", q, Tasks, Cases)
  BY <1>2 DEF Fits, Point, EnsurePoint
<1>5. Sound(n, Tasks, Cases) /\ Calm(q, n)
  BY <1>1, <1>4, AtType, SoundAt DEF Calm, KeyCalm, TaskCalm, Makes, EnsurePoint
<1> HIDE DEF n, w
<1> QED BY <1>1, <1>2, <1>3, <1>5, QuietCase

LEMMA ReadRefsQuiet ==
  ASSUME TypeInv, NEW r \in Request, ReadRefs(r)
  PROVE TypeInv' /\ Quiet
<1> DEFINE q == req[r]
           n == [q EXCEPT !.at = "settle", !.todo = RefsOf(q.case)]
<1>1. /\ q.at = "refs" /\ UNCHANGED <<tasks, flagged, deskVars>>
      /\ req' = [req EXCEPT ![r] = n]
  BY DEF ReadRefs
<1>2. q.op = "resolve" /\ q.case \in Cases /\ q \in Row(q)
  BY <1>1, AtType DEF Sound, Fits
<1>3. RefsOf(q.case) \subseteq Signal
  BY <1>2, CaseType DEF CaseRow, RefsOf
<1>4. /\ n \in Row(n) /\ n.at = "settle" /\ n.op = q.op /\ n.case = q.case
      /\ n.task = q.task /\ n.arg = q.arg /\ n.todo \subseteq Signal
  BY <1>2, <1>3 DEF Row, Point
<1> HIDE DEF n
<1>5. Sound(n, Tasks, Cases) /\ Calm(q, n)
  BY <1>2, <1>4, AtType DEF Sound, Fits, Point, EnsurePoint, Calm, KeyCalm, TaskCalm, Makes
<1> QED BY <1>1, <1>5, QuietRead

LEMMA SettleRefQuiet ==
  ASSUME TypeInv, NEW r \in Request, SettleRef(r)
  PROVE TypeInv' /\ Quiet
<1> DEFINE q == req[r]
<1>1. PICK s \in q.todo : triage' = [triage EXCEPT ![s] = "done"]
                          /\ req' = [req EXCEPT ![r] = [q EXCEPT !.todo = q.todo \ {s}]]
  BY DEF SettleRef
<1> DEFINE n == [q EXCEPT !.todo = q.todo \ {s}]
<1>2. q.at = "settle" /\ UNCHANGED <<tasks, flagged, cases, backfilled, waived, scope>>
  BY DEF SettleRef
<1>3. q \in Row(q) /\ q.op = "resolve" /\ q.todo \subseteq Signal
  BY <1>2, AtType DEF Fits
<1>4. /\ n \in Row(n) /\ n.at = "settle" /\ n.op = q.op /\ n.case = q.case
      /\ n.task = q.task /\ n.arg = q.arg /\ n.todo \subseteq Signal
  BY <1>2, <1>3 DEF Row, Point
<1> HIDE DEF n
<1>5. Sound(n, Tasks, Cases) /\ Calm(q, n)
  BY <1>2, <1>3, <1>4, AtType DEF Sound, Fits, Point, EnsurePoint, Calm, KeyCalm, TaskCalm, Makes
<1>6. triage' \in [Signal -> TriageStatus \cup {None}] /\ FlagsKept
  BY <1>1, <1>2, <1>3 DEF TypeInv, TypeOK, TriageStatus, FlagsKept
<1>7. RowsOK' /\ CalmRows /\ Tasks' = Tasks /\ Cases' = Cases
  BY <1>2, NoRow DEF Tasks, Cases
<1>8. req' = [req EXCEPT ![r] = n]
  BY <1>1 DEF n
<1> QED BY <1>2, <1>5, <1>6, <1>7, <1>8, QuietMove

LEMMA SettleTaskQuiet ==
  ASSUME TypeInv, NEW r \in Request, SettleTask(r)
  PROVE TypeInv' /\ Quiet
<1> DEFINE q == req[r]
           n == Resume(q, IF q.task = None THEN "view" ELSE "patch")
<1>1. /\ q.at = "settle" /\ UNCHANGED <<tasks, flagged, deskVars>>
      /\ req' = [req EXCEPT ![r] = n]
  BY DEF SettleTask
<1>2. q.op = "resolve" /\ q.arg = "closed" /\ q.case \in Cases /\ q.task \in Tasks \cup {None}
  BY <1>1, AtType DEF Sound, Fits
<1>3. Sound(n, Tasks, Cases) /\ ~Forth(n) /\ ~Makes(q)
  <2>1. CASE q.task = None
    BY <1>1, <1>2, <2>1, SoundView DEF Cases, Makes, EnsurePoint
  <2>2. CASE q.task # None
    <3>1. Fits("patch", q, Tasks, Cases) /\ n = [q EXCEPT !.at = "patch"]
      BY <1>2, <2>2 DEF Fits, Point, EnsurePoint, Patches, Status, Resume
    <3> HIDE DEF n
    <3>2. Sound(n, Tasks, Cases) /\ n.at = "patch"
      BY <3>1, AtType, SoundAt
    <3> QED BY <1>1, <3>2 DEF Forth, Makes, EnsurePoint
  <2> QED BY <2>1, <2>2
<1> HIDE DEF n
<1>4. Calm(q, n)
  BY <1>3 DEF Calm, KeyCalm, TaskCalm, Forth
<1> QED BY <1>1, <1>3, <1>4, QuietRead

-----------------------------------------------------------------------------
(* Arrivals. *)

LEMMA QuietBegin ==
  ASSUME TypeInv, RowsOK', CalmRows, UNCHANGED <<triage, backfilled, waived, scope>>,
         flagged' \subseteq flagged \cup TaskId, FlagsKept,
         NEW r \in User, NEW op, NEW q, Begin(r, op, q),
         \A a : LET p == [q EXCEPT !.op = op, !.alone = a]
               IN Sound(p, Tasks', Cases') /\ ~Forth(p)
  PROVE TypeInv' /\ Quiet
<1>1. Tasks \subseteq Tasks' /\ Cases \subseteq Cases'
  BY DEF CalmRows, CalmTasks, SameLinks
<1>2. r \in Request /\ r # Boot /\ Boot \in Request
  BY DeskAssumption DEF User
<1>3. /\ ReqOK' /\ \E a : req'[r] = [q EXCEPT !.op = op, !.alone = a]
      /\ \A s \in Request \ {r} : req'[s] = [req[s] EXCEPT !.alone = FALSE]
      /\ \A s \in Request \ {r} : Calm(req[s], req'[s])
  BY <1>1, <1>2, Begins
<1>4. ~Forth(req'[r])
  BY <1>3
<1>5. ~Makes(req[r])
  BY DEF Begin, Idle, Makes
<1>6. CalmReqs
  BY <1>3, <1>4, <1>5 DEF CalmReqs, Calm, KeyCalm, TaskCalm, Forth
<1>7. ~backfilled' => req'[Boot].op = "idle" /\ req'[Boot].at = "idle"
  <2>1. req'[Boot] = [req[Boot] EXCEPT !.alone = FALSE] /\ req[Boot] \in Row(req[Boot])
    BY <1>2, <1>3, AtType
  <2>2. req'[Boot].op = req[Boot].op /\ req'[Boot].at = req[Boot].at
    BY <2>1 DEF Row
  <2> QED BY <2>2 DEF TypeInv
<1>8. /\ triage' \in [Signal -> TriageStatus \cup {None}]
      /\ flagged' \subseteq TaskId \cup CaseId \cup Signal \cup CVE /\ waived' \subseteq CaseId
  BY DEF TypeInv, TypeOK
<1> QED BY <1>3, <1>6, <1>7, <1>8, TypeNext DEF Quiet

LEMMA FreeTaskNew ==
  ASSUME TypeInv, Tasks # TaskId, NEW w \in TaskRow, tasks' = [tasks EXCEPT ![FreeTask] = w]
  PROVE /\ FreeTask \in TaskId \ Tasks /\ Tasks' = Tasks \cup {FreeTask}
        /\ \A t \in TaskId : tasks'[t] = IF t = FreeTask THEN w ELSE tasks[t]
<1>1. \E t \in TaskId : t \notin Tasks
  BY DEF Tasks
<1>2. FreeTask \in TaskId \ Tasks
  BY <1>1 DEF FreeTask
<1>3. \A t \in TaskId : tasks'[t] = IF t = FreeTask THEN w ELSE tasks[t]
  BY <1>2 DEF TypeInv, TypeOK, RowsOK
<1>4. w # None
  BY IdentityAssumption
<1> QED BY <1>2, <1>3, <1>4 DEF Tasks

LEMMA NewTaskType ==
  ASSUME NEW c \in CaseId \cup {None}, NEW p \in Priorities
  PROVE NewTask(c, p) \in TaskRow /\ NewTask(c, p).case = c
  BY FloorType DEF NewTask, TaskRow, Status

LEMMA CreateTaskQuiet ==
  ASSUME TypeInv, NEW r \in User, NEW L \in SUBSET CVE, CreateTask(r, L), UNCHANGED deskVars
  PROVE TypeInv' /\ Quiet
<1> DEFINE w == NewTask(None, "p3")
           q == [Blank EXCEPT !.at = "links", !.task = FreeTask, !.links = L]
<1>1. /\ Tasks # TaskId /\ tasks' = [tasks EXCEPT ![FreeTask] = w]
      /\ flagged' = flagged /\ Begin(r, "create", q)
      /\ UNCHANGED <<cases, triage, backfilled, waived, scope>>
  BY DEF CreateTask, deskVars, rest
<1>2. w \in TaskRow /\ w.case = None
  BY NewTaskType DEF Priorities
<1> HIDE DEF w
<1>3. /\ FreeTask \in TaskId \ Tasks /\ Tasks' = Tasks \cup {FreeTask}
      /\ \A t \in TaskId : tasks'[t] = IF t = FreeTask THEN w ELSE tasks[t]
  BY <1>1, <1>2, FreeTaskNew
<1>4. Cases' = Cases /\ tasks' \in [TaskId -> TaskRow \cup {None}]
  BY <1>1, <1>2 DEF Cases, TypeInv, TypeOK, RowsOK
<1>5. RowsOK'
  BY <1>1, <1>2, <1>3, <1>4 DEF TypeInv, TypeOK, RowsOK
<1>6. CalmRows
  BY <1>1, <1>2, <1>3, <1>4 DEF CalmRows, CalmTasks, SameKeys, SameLinks, Active, Tasks
<1>7. ASSUME NEW a PROVE LET p == [q EXCEPT !.op = "create", !.alone = a]
                         IN Sound(p, Tasks', Cases') /\ ~Forth(p)
  <2> DEFINE p == [q EXCEPT !.op = "create", !.alone = a]
  <2>1. /\ p.op = "create" /\ p.at = "links" /\ p.task = FreeTask /\ p.case = None
        /\ p \in Row(p)
    BY <1>3, TaskAssumption DEF Row, Blank, Point
  <2> HIDE DEF p
  <2>2. Sound(p, Tasks', Cases') /\ ~Forth(p)
    BY <1>3, <2>1 DEF Sound, Fits, Point, EnsurePoint, Forth, Makes
  <2> QED BY <2>2 DEF p
<1>8. FlagsKept
  BY <1>1 DEF FlagsKept
<1> HIDE DEF q
<1> QED BY <1>1, <1>5, <1>6, <1>7, <1>8, QuietBegin

(* A request about a task that is there. *)
LEMMA SoundTasker ==
  ASSUME TypeInv, NEW p, p \in Row(p), p.task \in Tasks, p.case = None,
         p.op \in {"patch", "addCves", "removeCve"}, p.at \in {"patch", "links", "read"},
         p.at = "patch" => p.op = "patch" /\ p.arg \in Patches
  PROVE Sound(p, Tasks, Cases) /\ ~Forth(p)
  BY DEF Sound, Fits, Point, EnsurePoint, Forth, Makes

LEMMA BeginPatchQuiet ==
  ASSUME TypeInv, NEW r \in User, NEW t \in Tasks, NEW p \in Patches, BeginPatch(r, t, p),
         UNCHANGED deskVars
  PROVE TypeInv' /\ Quiet
<1> DEFINE q == [Blank EXCEPT !.at = "patch", !.task = t, !.arg = p]
<1>1. /\ UNCHANGED <<tasks, flagged, cases, triage, backfilled, waived, scope>>
      /\ Begin(r, "patch", q)
  BY DEF BeginPatch, deskVars, rest
<1>2. RowsOK' /\ CalmRows /\ Tasks' = Tasks /\ Cases' = Cases /\ FlagsKept
  BY <1>1, NoRow DEF Tasks, Cases, FlagsKept
<1>3. ASSUME NEW a PROVE LET n == [q EXCEPT !.op = "patch", !.alone = a]
                         IN Sound(n, Tasks, Cases) /\ ~Forth(n)
  <2> DEFINE n == [q EXCEPT !.op = "patch", !.alone = a]
  <2>1. /\ n \in Row(n) /\ n.op = "patch" /\ n.at = "patch" /\ n.task = t /\ n.case = None /\ n.arg = p
    BY TaskAssumption DEF Row, Blank, Point, Tasks
  <2> HIDE DEF n
  <2>2. Sound(n, Tasks, Cases) /\ ~Forth(n)
    BY <2>1, SoundTasker
  <2> QED BY <2>2 DEF n
<1> HIDE DEF q
<1> QED BY <1>1, <1>2, <1>3, QuietBegin

LEMMA AddCvesQuiet ==
  ASSUME TypeInv, NEW r \in User, NEW t \in Tasks, NEW L \in SUBSET CVE, AddCves(r, t, L),
         UNCHANGED deskVars
  PROVE TypeInv' /\ Quiet
<1> DEFINE q == [Blank EXCEPT !.at = "links", !.task = t, !.links = L]
<1>1. /\ UNCHANGED <<tasks, flagged, cases, triage, backfilled, waived, scope>>
      /\ Begin(r, "addCves", q)
  BY DEF AddCves, deskVars, rest
<1>2. RowsOK' /\ CalmRows /\ Tasks' = Tasks /\ Cases' = Cases /\ FlagsKept
  BY <1>1, NoRow DEF Tasks, Cases, FlagsKept
<1>3. ASSUME NEW a PROVE LET n == [q EXCEPT !.op = "addCves", !.alone = a]
                         IN Sound(n, Tasks, Cases) /\ ~Forth(n)
  <2> DEFINE n == [q EXCEPT !.op = "addCves", !.alone = a]
  <2>1. /\ n \in Row(n) /\ n.op = "addCves" /\ n.at = "links" /\ n.task = t /\ n.case = None
    BY TaskAssumption DEF Row, Blank, Point, Tasks
  <2> HIDE DEF n
  <2>2. Sound(n, Tasks, Cases) /\ ~Forth(n)
    BY <2>1, SoundTasker
  <2> QED BY <2>2 DEF n
<1> HIDE DEF q
<1> QED BY <1>1, <1>2, <1>3, QuietBegin

LEMMA RemoveCveQuiet ==
  ASSUME TypeInv, NEW r \in User, NEW t \in Tasks, NEW c \in CVE, RemoveCve(r, t, c),
         UNCHANGED deskVars
  PROVE TypeInv' /\ Quiet
<1> DEFINE q == [Blank EXCEPT !.at = "read", !.task = t]
           w == [tasks[t] EXCEPT !.links = @ \ {c}]
<1>1. /\ UNCHANGED <<cases, triage, backfilled, waived, scope>>
      /\ Begin(r, "removeCve", q) /\ tasks' = [tasks EXCEPT ![t] = w]
      /\ flagged' = flagged \/ flagged' = flagged \cup {t}
  BY DEF RemoveCve, Disturb, deskVars, rest
<1>2. tasks[t] \in TaskRow /\ t \in TaskId
  BY DEF Tasks, TypeInv, TypeOK, RowsOK
<1>3. w \in TaskRow /\ w.case = tasks[t].case
  BY <1>2 DEF TaskRow
<1> HIDE DEF w
<1>4. RowsOK' /\ CalmRows /\ Tasks' = Tasks /\ Cases' = Cases /\ FlagsKept
  BY <1>1, <1>3, TaskChange DEF FlagsKept, CalmRows, SameKeys
<1>5. ASSUME NEW a PROVE LET n == [q EXCEPT !.op = "removeCve", !.alone = a]
                         IN Sound(n, Tasks, Cases) /\ ~Forth(n)
  <2> DEFINE n == [q EXCEPT !.op = "removeCve", !.alone = a]
  <2>1. /\ n \in Row(n) /\ n.op = "removeCve" /\ n.at = "read" /\ n.task = t /\ n.case = None
    BY TaskAssumption DEF Row, Blank, Point, Tasks
  <2> HIDE DEF n
  <2>2. Sound(n, Tasks, Cases) /\ ~Forth(n)
    BY <2>1, SoundTasker
  <2> QED BY <2>2 DEF n
<1> HIDE DEF q
<1> QED BY <1>1, <1>2, <1>4, <1>5, QuietBegin

LEMMA TaskArrivalQuiet ==
  ASSUME TypeInv, NEW r \in User, TaskArrival(r, scope.patches), UNCHANGED deskVars
  PROVE TypeInv' /\ Quiet
<1>1. scope.patches \subseteq Patches
  BY DEF TypeInv, Inputs
<1> QED BY <1>1, CreateTaskQuiet, BeginPatchQuiet, AddCvesQuiet, RemoveCveQuiet DEF TaskArrival

(* A request that begins with a case it looks at. *)
LEMMA ViewCaseQuiet ==
  ASSUME TypeInv, NEW r \in User, NEW c \in Cases,
         NEW op \in {"get", "resolve", "step", "evidence", "regenerate"}, NEW arg,
         op = "resolve" => arg = "closed", op = "step" => arg \in MarkArg,
         ViewCase(r, op, c, arg)
  PROVE TypeInv' /\ Quiet
<1> DEFINE x == IF op = "get" THEN "view" ELSE "look"
           q == [Blank EXCEPT !.at = x, !.case = c, !.arg = arg]
<1>1. /\ UNCHANGED <<tasks, flagged, cases, triage, backfilled, waived, scope>>
      /\ Begin(r, op, q)
  BY DEF ViewCase, deskVars, rest
<1>2. RowsOK' /\ CalmRows /\ Tasks' = Tasks /\ Cases' = Cases /\ FlagsKept
  BY <1>1, NoRow DEF Tasks, Cases, FlagsKept
<1>3. ASSUME NEW a PROVE LET n == [q EXCEPT !.op = op, !.alone = a]
                         IN Sound(n, Tasks, Cases) /\ ~Forth(n)
  <2> DEFINE n == [q EXCEPT !.op = op, !.alone = a]
  <2>1. x \in {"view", "look"} /\ (x = "view" <=> op = "get") /\ op \in Ops
    BY DeskAssumption
  <2> HIDE DEF x
  <2>2. /\ n.op = op /\ n.at = x /\ n.task = None /\ n.case = c /\ n.arg = arg
        /\ n \in Row(n)
    BY <2>1 DEF Row, Blank, Point, Cases
  <2> HIDE DEF n
  <2>3. Sound(n, Tasks, Cases) /\ ~Forth(n)
    BY <2>1, <2>2 DEF Sound, Fits, Point, EnsurePoint, Forth, Makes
  <2> QED BY <2>3 DEF n
<1> HIDE DEF q
<1> QED BY <1>1, <1>2, <1>3, QuietBegin

LEMMA BackfillType ==
  ASSUME TypeInv, NEW n, NEW a,
         n = [Backfill EXCEPT !.op = "backfill"]
         \/ n = [Backfill EXCEPT !.op = "backfill", !.alone = a]
  PROVE Sound(n, Tasks, Cases) /\ ~Forth(n)
<1> DEFINE S == {c \in CaseId : LacksTask(c)}
<1>1. S \subseteq Cases /\ S \subseteq CaseId
  BY DEF LacksTask, Active, Cases
<1>2. "backfill" \in Ops
  BY DeskAssumption
<1>3. /\ n.op = "backfill" /\ n.at = "row" /\ n.task = None /\ n.case = None
      /\ n.todo = S /\ n \in Row(n)
  <2> HIDE DEF S
  <2>1. Backfill = [Blank EXCEPT !.at = "row", !.todo = S]
    BY DEF Backfill, S
  <2> QED BY <1>1, <1>2, <2>1, ZenonT(60) DEF Row, Blank, Point
<1> HIDE DEF S
<1> QED BY <1>1, <1>3 DEF Sound, Fits, Point, EnsurePoint, Forth, Makes

LEMMA AskBackfillQuiet ==
  ASSUME TypeInv, NEW r \in User, AskBackfill(r)
  PROVE TypeInv' /\ Quiet
<1>1. /\ UNCHANGED <<tasks, flagged, cases, triage, backfilled, waived, scope>>
      /\ Begin(r, "backfill", Backfill)
  BY DEF AskBackfill, deskVars, rest
<1>2. RowsOK' /\ CalmRows /\ Tasks' = Tasks /\ Cases' = Cases /\ FlagsKept
  BY <1>1, NoRow DEF Tasks, Cases, FlagsKept
<1> QED BY <1>1, <1>2, BackfillType, QuietBegin

LEMMA BootBackfillQuiet ==
  ASSUME TypeInv, BootBackfill
  PROVE TypeInv' /\ Quiet
<1> DEFINE n == [Backfill EXCEPT !.op = "backfill"]
<1>1. /\ ~backfilled /\ backfilled' = TRUE
      /\ UNCHANGED <<tasks, flagged, cases, triage, waived, scope>>
      /\ req' = [r \in Request |-> IF r = Boot THEN n ELSE [req[r] EXCEPT !.alone = FALSE]]
  BY DEF BootBackfill
<1>2. RowsOK' /\ CalmRows /\ Tasks' = Tasks /\ Cases' = Cases /\ FlagsKept
  BY <1>1, NoRow DEF Tasks, Cases, FlagsKept
<1>3. Sound(n, Tasks, Cases) /\ ~Forth(n)
  BY BackfillType
<1> HIDE DEF n
<1>4. Calm(req[Boot], n)
  BY <1>1, <1>3 DEF TypeInv, Calm, KeyCalm, TaskCalm, Forth, Makes
<1>5. \A r \in Request : req[r] \in Row(req[r])
  BY AtType
<1>6. \A r \in Request \ {Boot} : req'[r] = [req[r] EXCEPT !.alone = FALSE]
  BY <1>1
<1>7. \A r \in Request \ {Boot} : Calm(req[r], req'[r])
  BY <1>5, <1>6, ZenonT(60) DEF Row, Calm, KeyCalm, TaskCalm, Makes
<1>8. req'[Boot] = n
  BY <1>1, DeskAssumption
<1>9. CalmReqs
  BY <1>4, <1>7, <1>8 DEF CalmReqs
<1>10. \A r \in Request : Sound(req'[r], Tasks', Cases')
  <2>1. ASSUME NEW r \in Request \ {Boot} PROVE Sound(req'[r], Tasks, Cases)
    <3>1. Sound(req[r], Tasks, Cases)
      BY AtType
    <3>2. Sound([req[r] EXCEPT !.alone = FALSE], Tasks, Cases)
      BY <3>1, SoundAlone
    <3> QED BY <1>6, <3>2
  <2> QED BY <1>2, <1>3, <1>8, <2>1
<1>11. ReqOK'
  <2>1. req' = [r \in Request |-> req'[r]]
    BY <1>1
  <2> QED BY <1>10, <2>1 DEF ReqOK
<1>12. TypeInv'
  BY <1>1, <1>2, <1>11, TypeNext DEF TypeInv, TypeOK
<1> QED BY <1>2, <1>9, <1>12 DEF Quiet

LEMMA TriageQuiet ==
  ASSUME TypeInv, NEW s \in Signal, NEW st \in TriageStatus, Triage(s, st)
  PROVE TypeInv' /\ Quiet
<1>1. /\ UNCHANGED <<tasks, flagged, cases, backfilled, waived, scope>>
      /\ triage' = [triage EXCEPT ![s] = st]
      /\ req' = [r \in Request |-> [req[r] EXCEPT !.alone = FALSE]]
  BY DEF Triage
<1>2. RowsOK' /\ CalmRows /\ Tasks' = Tasks /\ Cases' = Cases /\ FlagsKept
  BY <1>1, NoRow DEF Tasks, Cases, FlagsKept
<1>3. \A r \in Request : req[r] \in Row(req[r])
  BY AtType
<1>4. CalmReqs
  BY <1>1, <1>3 DEF CalmReqs, Row, Calm, KeyCalm, TaskCalm, Makes
<1>5. \A r \in Request : Sound(req'[r], Tasks', Cases')
  BY <1>1, <1>2, AtType, SoundAlone
<1>6. req' = [r \in Request |-> req'[r]]
  BY <1>1
<1>7. ReqOK'
  BY <1>5, <1>6 DEF ReqOK
<1>8. ~backfilled' => req'[Boot].op = "idle" /\ req'[Boot].at = "idle"
  BY <1>1, <1>3, DeskAssumption DEF TypeInv, Row
<1>9. triage' \in [Signal -> TriageStatus \cup {None}]
  BY <1>1 DEF TypeInv, TypeOK
<1> QED BY <1>1, <1>2, <1>4, <1>7, <1>8, <1>9, TypeNext DEF Quiet, TypeInv, TypeOK

-----------------------------------------------------------------------------
(* Quiet steps change nothing that Keyed and Tasked are about. *)

LEMMA KeyType ==
  ASSUME TypeInv
  PROVE /\ \A s \in Signal : DedupKey(s) \notin TaskId
        /\ \A c \in Cases : cases[c].key \notin TaskId
        /\ \A c \in CaseId : c \notin TaskId
<1>1. ASSUME NEW s \in Signal PROVE DedupKey(s) \in Signal \cup CVE
  <2>1. CveOf[s] \subseteq CVE
    BY DeskAssumption
  <2>2. CveOf[s] # {} => (CHOOSE c \in CveOf[s] : TRUE) \in CveOf[s]
    OBVIOUS
  <2> QED BY <2>1, <2>2 DEF DedupKey
<1>2. \A c \in Cases : cases[c].key \in Signal \cup CVE
  BY CaseType DEF CaseRow
<1> QED BY <1>1, <1>2, IdentityAssumption

LEMMA QuietKeyed ==
  ASSUME TypeInv, TypeInv', Keyed, SameKeys, FlagsKept,
         \A r \in Request : KeyCalm(req[r], req'[r])
  PROVE Keyed'
<1>1. \A r \in Request : req'[r].at = "insert" =>
        req[r].at = "insert" /\ Key(r)' = Key(r) /\ Key(r) \notin TaskId
  BY AtType, KeyType DEF KeyCalm, Key, Fits
<1>2. ASSUME NEW c \in CaseId, Active(c)'
      PROVE c \in Cases /\ Active(c) /\ cases'[c].key = cases[c].key
  <2>1. c \in Cases'
    BY <1>2 DEF Active
  <2> QED BY <1>2, <2>1 DEF SameKeys, Active
<1>3. \A k : k \in flagged /\ k \notin TaskId => k \in flagged'
  BY DEF FlagsKept
<1>4. \A r, u \in Request :
        r # u /\ req'[r].at = "insert" /\ req'[u].at = "insert" /\ Key(r)' = Key(u)'
          => Key(r)' \in flagged'
  BY <1>1, <1>3 DEF Keyed
<1>5. \A r \in Request, c \in CaseId :
        req'[r].at = "insert" /\ Merges(c, Key(r))' => Key(r)' \in flagged'
  BY <1>1, <1>2, <1>3 DEF Keyed, Merges
<1>6. OneCasePerKey'
  BY <1>2, <1>3, KeyType DEF Keyed, OneCasePerKey, Active
<1> QED BY <1>4, <1>5, <1>6 DEF Keyed

LEMMA QuietTasked ==
  ASSUME TypeInv, TypeInv', Tasked, CalmTasks, SameLinks, FlagsKept,
         \A r \in Request : TaskCalm(req[r], req'[r])
  PROVE Tasked'
<1>1. \A r \in Request :
        /\ Making(r)' <=> Making(r)
        /\ Making(r)' => /\ req'[r].case = req[r].case /\ req'[r].task = req[r].task
                         /\ req'[r].at = "insertTask" <=> req[r].at = "insertTask"
  <2> SUFFICES ASSUME NEW r \in Request
               PROVE /\ Making(r)' <=> Making(r)
                     /\ Making(r)' => /\ req'[r].case = req[r].case /\ req'[r].task = req[r].task
                                      /\ req'[r].at = "insertTask" <=> req[r].at = "insertTask"
    OBVIOUS
  <2>1. TaskCalm(req[r], req'[r])
    OBVIOUS
  <2> QED BY <2>1 DEF TaskCalm, Making, Makes
<1>2. \A r \in Request : Making(r) =>
        /\ req[r].case \in Cases
        /\ req[r].at # "insertTask" => req[r].task \in Tasks
  BY AtType DEF Making, Makes, Fits, EnsurePoint
<1>3. \A c \in Cases : c \in flagged => c \in flagged'
  BY KeyType DEF FlagsKept, Cases
<1>4. \A t \in Tasks : t \in Tasks' /\ tasks'[t].case = tasks[t].case
  BY DEF CalmTasks
<1>5. \A t \in Tasks' : tasks'[t].case # None => t \in Tasks
  BY DEF CalmTasks
<1>6. None \notin Cases
  BY IdentityAssumption DEF Cases
<1>7. \A r \in Request : Making(r)' /\ req'[r].at # "insertTask"
                          => tasks'[req'[r].task].case = req'[r].case
  BY <1>1, <1>2, <1>4 DEF Tasked
<1>8. ASSUME NEW r \in Request, Making(r)', req'[r].case \notin flagged'
      PROVE /\ cases'[req'[r].case].task = None
            /\ \A u \in Request \ {r} : ~(Making(u)' /\ req'[u].case = req'[r].case)
            /\ \A t \in Tasks' : tasks'[t].case = req'[r].case
                                  => req'[r].task = t /\ req'[r].at # "insertTask"
  <2>1. Making(r) /\ req[r].case \notin flagged /\ req[r].case \in Cases
    BY <1>1, <1>2, <1>3, <1>8
  <2>2. cases'[req'[r].case].task = None
    BY <1>1, <1>8, <2>1 DEF Tasked, SameLinks
  <2>3. \A u \in Request \ {r} : ~(Making(u)' /\ req'[u].case = req'[r].case)
    BY <1>1, <1>8, <2>1 DEF Tasked
  <2>4. \A t \in Tasks' : tasks'[t].case = req'[r].case
                          => req'[r].task = t /\ req'[r].at # "insertTask"
    BY <1>1, <1>4, <1>5, <1>6, <1>8, <2>1 DEF Tasked
  <2> QED BY <2>2, <2>3, <2>4
<1>9. ASSUME NEW t \in Tasks', tasks'[t].case # None, tasks'[t].case \notin flagged'
      PROVE \/ cases'[tasks'[t].case].task = t
            \/ \E r \in Request : Ensuring(r)' /\ req'[r].task = t
  <2>1. t \in Tasks /\ tasks'[t].case = tasks[t].case /\ t # None
    BY <1>4, <1>5, <1>9, IdentityAssumption DEF Tasks
  <2>2. tasks[t].case \in Cases /\ tasks[t].case \notin flagged
    BY <1>3, <1>9, <2>1 DEF TypeInv, TypeOK, RowsOK
  <2>3. CASE cases[tasks[t].case].task = t
    BY <2>1, <2>2, <2>3 DEF SameLinks
  <2>4. ASSUME NEW r \in Request, Ensuring(r), req[r].task = t
        PROVE Ensuring(r)' /\ req'[r].task = t
    <3>1. Making(r)
      BY <2>1, <2>4, AtType DEF Ensuring, Making, Makes, Fits
    <3> QED BY <1>1, <2>4, <3>1 DEF Ensuring, Making, Makes
  <2> QED BY <1>9, <2>1, <2>2, <2>3, <2>4 DEF Tasked, OneTaskPerCase
<1>10. OneTaskPerCase'
  BY <1>9 DEF OneTaskPerCase
<1> QED BY <1>7, <1>8, <1>10 DEF Tasked

LEMMA QuietInv ==
  ASSUME Inv, TypeInv', Quiet
  PROVE Inv'
<1>1. \A r \in Request : KeyCalm(req[r], req'[r]) /\ TaskCalm(req[r], req'[r])
  BY DEF Quiet, CalmReqs, Calm
<1>2. Keyed'
  BY <1>1, QuietKeyed DEF Inv, Quiet, CalmRows
<1>3. Tasked'
  BY <1>1, QuietTasked DEF Inv, Quiet, CalmRows
<1> QED BY <1>2, <1>3 DEF Inv

-----------------------------------------------------------------------------
(* The steps that make or open a case. *)

LEMMA SoundOpen ==
  ASSUME TypeInv, NEW p, p \in Row(p), p.op = "open", p.sig \in Signal, p.task = None,
         p.arg \in OpenArg, p.at \in {"attach", "insert"}, p.case \in Cases \cup {None},
         p.at = "attach" => p.case \in Cases
  PROVE Sound(p, Tasks, Cases) /\ ~Makes(p)
  BY DEF Sound, Fits, Point, EnsurePoint, Makes

LEMMA OpenCaseInv ==
  ASSUME Inv, NEW r \in User, NEW s \in Signal, NEW want \in BOOLEAN, OpenCase(r, s, want)
  PROVE Inv'
<1> DEFINE k == DedupKey(s)
           q == [Blank EXCEPT !.sig = s, !.links = CveOf[s]]
<1>1. TypeInv /\ Keyed /\ Tasked /\ r \in Request /\ r # Boot
  BY DEF Inv, User
<1>2. UNCHANGED <<tasks, cases, triage, backfilled, waived, scope>>
  BY DEF OpenCase, deskVars, rest
<1>3. RowsOK' /\ CalmRows /\ Tasks' = Tasks /\ Cases' = Cases
  BY <1>1, <1>2, NoRow DEF Tasks, Cases
<1>4. "open" \in Ops /\ CveOf[s] \subseteq CVE
  BY DeskAssumption
<1>5. ASSUME NEW c \in CaseId, Merges(c, k),
             Begin(r, "open", [q EXCEPT !.at = "attach", !.case = c,
                                        !.arg = [want |-> want, new |-> FALSE]]),
             UNCHANGED flagged
      PROVE Inv'
  <2> DEFINE m == [q EXCEPT !.at = "attach", !.case = c, !.arg = [want |-> want, new |-> FALSE]]
  <2>1. ASSUME NEW a PROVE LET p == [m EXCEPT !.op = "open", !.alone = a]
                           IN Sound(p, Tasks, Cases) /\ ~Forth(p)
    <3> DEFINE p == [m EXCEPT !.op = "open", !.alone = a]
    <3>1. c \in Cases /\ c \in CaseId
      BY <1>5 DEF Merges, Active
    <3>2. /\ p.op = "open" /\ p.at = "attach" /\ p.case = c /\ p.sig = s /\ p.task = None
          /\ p.arg \in OpenArg /\ p \in Row(p)
      BY <1>4, <3>1 DEF Row, Blank, Point, OpenArg
    <3> HIDE DEF p
    <3>3. Sound(p, Tasks, Cases) /\ ~Forth(p)
      BY <1>1, <3>1, <3>2, SoundOpen DEF Forth
    <3> QED BY <3>3 DEF p
  <2> HIDE DEF m
  <2>2. FlagsKept
    BY <1>5 DEF FlagsKept
  <2>3. Begin(r, "open", m)
    BY <1>5 DEF m
  <2>4. TypeInv' /\ Quiet
    BY <1>1, <1>2, <1>3, <1>5, <2>1, <2>2, <2>3, QuietBegin
  <2> QED BY <2>4, QuietInv
<1>6. ASSUME Begin(r, "open", [q EXCEPT !.at = "insert", !.arg = [want |-> want, new |-> TRUE]]),
             \A c \in CaseId : ~Merges(c, k),
             flagged' = IF \E u \in Request : req[u].at = "insert" /\ DedupKey(req[u].sig) = k
                        THEN flagged \cup {k} ELSE flagged
      PROVE Inv'
  <2> DEFINE m == [q EXCEPT !.at = "insert", !.arg = [want |-> want, new |-> TRUE]]
  <2>1. ASSUME NEW a PROVE LET p == [m EXCEPT !.op = "open", !.alone = a]
                           IN Sound(p, Tasks, Cases) /\ ~Makes(p) /\ p.sig = s /\ p.at = "insert"
    <3> DEFINE p == [m EXCEPT !.op = "open", !.alone = a]
    <3>1. /\ p.op = "open" /\ p.at = "insert" /\ p.case = None /\ p.sig = s /\ p.task = None
          /\ p.arg \in OpenArg /\ p \in Row(p)
      BY <1>4 DEF Row, Blank, Point, OpenArg
    <3> HIDE DEF p
    <3>2. Sound(p, Tasks, Cases) /\ ~Makes(p)
      BY <1>1, <3>1, SoundOpen
    <3> QED BY <3>1, <3>2 DEF p
  <2> HIDE DEF m
  <2>2. /\ ReqOK' /\ \E a : req'[r] = [m EXCEPT !.op = "open", !.alone = a]
        /\ \A u \in Request \ {r} : req'[u] = [req[u] EXCEPT !.alone = FALSE]
        /\ \A u \in Request \ {r} : Calm(req[u], req'[u])
    <3>1. Begin(r, "open", m)
      BY <1>6 DEF m
    <3>2. \A a : Sound([m EXCEPT !.op = "open", !.alone = a], Tasks', Cases')
      BY <1>3, <2>1
    <3> QED BY <1>1, <1>3, <3>1, <3>2, Begins
  <2>3. ~Makes(req'[r]) /\ req'[r].sig = s /\ req'[r].at = "insert"
    BY <2>1, <2>2
  <2>4. ~Makes(req[r])
    BY <1>6 DEF Begin, Idle, Makes
  <2>5. ~backfilled' => req'[Boot].op = "idle" /\ req'[Boot].at = "idle"
    <3>1. req'[Boot] = [req[Boot] EXCEPT !.alone = FALSE] /\ req[Boot] \in Row(req[Boot])
      BY <1>1, <2>2, AtType, DeskAssumption
    <3>2. req'[Boot].op = req[Boot].op /\ req'[Boot].at = req[Boot].at
      BY <3>1 DEF Row
    <3> QED BY <1>1, <1>2, <3>2 DEF TypeInv
  <2>6. k \notin TaskId /\ k \in Signal \cup CVE
    <3>1. CveOf[s] # {} => (CHOOSE c \in CveOf[s] : TRUE) \in CveOf[s]
      OBVIOUS
    <3> QED BY <1>1, <1>4, <3>1, KeyType DEF DedupKey
  <2>7. TypeInv'
    <3>1. /\ triage' \in [Signal -> TriageStatus \cup {None}] /\ waived' \subseteq CaseId
          /\ flagged' \subseteq TaskId \cup CaseId \cup Signal \cup CVE
      BY <1>1, <1>2, <1>6, <2>6 DEF TypeInv, TypeOK
    <3> QED BY <1>1, <1>2, <1>3, <2>2, <2>5, <3>1, TypeNext
  <2>8. FlagsKept
    BY <1>6 DEF FlagsKept
  <2>9. Tasked'
    <3>1. \A u \in Request : TaskCalm(req[u], req'[u])
      BY <2>2, <2>3, <2>4 DEF Calm, TaskCalm
    <3> QED BY <1>1, <1>3, <2>7, <2>8, <3>1, QuietTasked DEF CalmRows
  <2>10. \A u \in Request \ {r} : req'[u].at = "insert" => req[u].at = "insert" /\ Key(u)' = Key(u)
    BY <2>2 DEF Calm, KeyCalm, Key
  <2>11. Key(r)' = k
    BY <2>3 DEF Key
  <2>12. \A c \in CaseId : \A j : Merges(c, j)' <=> Merges(c, j)
    BY <1>2, <1>3 DEF Merges, Active
  <2>13. flagged \subseteq flagged'
    BY <1>6
  <2>14. \A u \in Request : req[u].at = "insert" /\ Key(u) = k => k \in flagged'
    BY <1>6 DEF Key
  <2>15. \A u, v \in Request :
           u # v /\ req'[u].at = "insert" /\ req'[v].at = "insert" /\ Key(u)' = Key(v)'
             => Key(u)' \in flagged'
    BY <1>1, <2>10, <2>11, <2>13, <2>14 DEF Keyed
  <2>16. \A u \in Request, c \in CaseId :
           req'[u].at = "insert" /\ Merges(c, Key(u))' => Key(u)' \in flagged'
    <3> SUFFICES ASSUME NEW u \in Request, NEW c \in CaseId, req'[u].at = "insert",
                        Merges(c, Key(u))'
                 PROVE Key(u)' \in flagged'
      OBVIOUS
    <3>1. CASE u = r
      BY <1>6, <2>11, <2>12, <3>1 DEF Merges, Active, Cases
    <3>2. CASE u # r
      BY <1>1, <1>2, <2>10, <2>13, <3>2 DEF Keyed, Merges, Active, Cases
    <3> QED BY <3>1, <3>2
  <2>17. OneCasePerKey'
    BY <1>1, <1>2, <2>13 DEF Keyed, OneCasePerKey, Active, Cases
  <2> QED BY <2>7, <2>9, <2>15, <2>16, <2>17 DEF Inv, Keyed
<1>7. CASE \E c \in CaseId : Merges(c, k)
  BY <1>5, <1>7 DEF OpenCase
<1>8. CASE \A c \in CaseId : ~Merges(c, k)
  <2>1. {c \in CaseId : Merges(c, k)} = {}
    BY <1>8
  <2> QED BY <1>6, <1>8, <2>1 DEF OpenCase
<1> QED BY <1>7, <1>8

LEMMA InsertCaseInv ==
  ASSUME Inv, NEW r \in Request, InsertCase(r)
  PROVE Inv'
<1> DEFINE q == req[r]
           f == FreeCase
           w == [status |-> "in_progress", key |-> DedupKey(q.sig), primary |-> q.sig,
                 refs |-> {}, task |-> None, play |-> None]
           n == [q EXCEPT !.at = "ref", !.case = f]
<1>1. TypeInv /\ Keyed /\ Tasked
  BY DEF Inv
<1>2. /\ q.at = "insert" /\ Cases # CaseId
      /\ cases' = [cases EXCEPT ![f] = w] /\ req' = [req EXCEPT ![r] = n]
      /\ waived' \in {waived, waived \cup {f}}
      /\ UNCHANGED <<tasks, flagged, triage, backfilled, scope>>
  BY DEF InsertCase
<1>3. /\ q \in Row(q) /\ q.op = "open" /\ q.sig \in Signal /\ q.task = None
      /\ q.arg \in OpenArg
  BY <1>1, <1>2, AtType DEF Fits
<1>4. f \in CaseId \ Cases
  <2>1. \E c \in CaseId : c \notin Cases
    BY <1>2 DEF Cases
  <2> QED BY <2>1 DEF FreeCase
<1> HIDE DEF f
<1>5. w \in CaseRow /\ w # None
  <2>1. DedupKey(q.sig) \in Signal \cup CVE
    <3>1. CveOf[q.sig] \subseteq CVE
      BY <1>3, DeskAssumption
    <3>2. CveOf[q.sig] # {} => (CHOOSE c \in CveOf[q.sig] : TRUE) \in CveOf[q.sig]
      OBVIOUS
    <3> QED BY <1>3, <3>1, <3>2 DEF DedupKey
  <2>2. w \in CaseRow
    BY <1>3, <2>1 DEF CaseRow, CaseStatus
  <2> QED BY <2>2, IdentityAssumption
<1>6. w.key = Key(r) /\ w.task = None
  BY DEF Key
<1> HIDE DEF w
<1>7. \A c \in CaseId : cases'[c] = IF c = f THEN w ELSE cases[c]
  BY <1>1, <1>2, <1>4 DEF TypeInv, TypeOK, RowsOK
<1>8. Cases' = Cases \cup {f} /\ Tasks' = Tasks
  BY <1>2, <1>4, <1>5, <1>7 DEF Cases, Tasks
<1>9. RowsOK'
  BY <1>1, <1>2, <1>4, <1>5, <1>6, <1>7, <1>8 DEF TypeInv, TypeOK, RowsOK
<1>10. /\ n \in Row(n) /\ n.op = "open" /\ n.at = "ref" /\ n.case = f /\ n.sig = q.sig
       /\ n.task = None /\ n.arg \in OpenArg
  <2>1. q \in Row(q) /\ f \in CaseId /\ "ref" \in Point
    BY <1>3, <1>4 DEF Point
  <2>2. n \in Row(n) /\ n.op = q.op /\ n.at = "ref" /\ n.case = f /\ n.sig = q.sig
        /\ n.task = q.task /\ n.arg = q.arg
    BY <2>1 DEF Row
  <2> QED BY <1>3, <2>2
<1> HIDE DEF n
<1>11. Sound(n, Tasks', Cases') /\ Calm(q, n)
  <2>1. Fits("ref", n, Tasks', Cases')
    BY <1>3, <1>8, <1>10 DEF Fits, Point, EnsurePoint
  <2>2. Sound(n, Tasks', Cases')
    BY <1>8, <1>10, <2>1 DEF Sound
  <2>3. Calm(q, n)
    BY <1>2, <1>3, <1>10 DEF Calm, KeyCalm, TaskCalm, Makes, EnsurePoint
  <2> QED BY <2>2, <2>3
<1>12. /\ ReqOK' /\ req'[r] = n /\ CalmReqs
       /\ \A s \in Request \ {r} : req'[s] = req[s]
  BY <1>1, <1>2, <1>8, <1>11, Moves
<1>13. TypeInv'
  <2>1. ~backfilled' => r # Boot
    BY <1>1, <1>2 DEF TypeInv
  <2>2. ~backfilled' => req'[Boot].op = "idle" /\ req'[Boot].at = "idle"
    BY <1>1, <1>2, <1>12, <2>1, DeskAssumption DEF TypeInv
  <2>3. /\ triage' \in [Signal -> TriageStatus \cup {None}] /\ waived' \subseteq CaseId
        /\ flagged' \subseteq TaskId \cup CaseId \cup Signal \cup CVE
    BY <1>1, <1>2, <1>4 DEF TypeInv, TypeOK
  <2> QED BY <1>1, <1>2, <1>9, <1>12, <2>2, <2>3, TypeNext
<1>14. Tasked'
  <2>1. CalmTasks /\ SameLinks /\ FlagsKept
    BY <1>2, <1>4, <1>7, <1>8 DEF CalmTasks, SameLinks, FlagsKept, Cases, Tasks
  <2>2. \A u \in Request : TaskCalm(req[u], req'[u])
    BY <1>12 DEF CalmReqs, Calm
  <2> QED BY <1>1, <1>13, <2>1, <2>2, QuietTasked
<1>15. \A u \in Request : req'[u].at = "insert" => u # r /\ req[u].at = "insert" /\ Key(u)' = Key(u)
  BY <1>10, <1>12 DEF Key
<1>16. \A c \in CaseId : \A j : Merges(c, j)' => (Merges(c, j) \/ (c = f /\ j = Key(r)))
  BY <1>6, <1>7, <1>8 DEF Merges, Active
<1>17. \A u, v \in Request :
         u # v /\ req'[u].at = "insert" /\ req'[v].at = "insert" /\ Key(u)' = Key(v)'
           => Key(u)' \in flagged'
  BY <1>1, <1>2, <1>15 DEF Keyed
<1>18. \A u \in Request, c \in CaseId :
         req'[u].at = "insert" /\ Merges(c, Key(u))' => Key(u)' \in flagged'
  <2> SUFFICES ASSUME NEW u \in Request, NEW c \in CaseId, req'[u].at = "insert",
                      Merges(c, Key(u))'
               PROVE Key(u) \in flagged
    BY <1>2, <1>15
  <2>1. Merges(c, Key(u)) \/ (c = f /\ Key(u) = Key(r))
    <3>1. c \in Cases' /\ cases'[c].status \in {"open", "in_progress"} /\ cases'[c].key = Key(u)
      BY <1>15 DEF Merges, Active
    <3> QED BY <1>6, <1>7, <1>8, <3>1 DEF Merges, Active
  <2> QED BY <1>1, <1>2, <1>15, <2>1 DEF Keyed
<1>19. OneCasePerKey'
  <2> SUFFICES ASSUME NEW c \in CaseId, NEW d \in CaseId, Active(c)', Active(d)',
                      cases'[c].key = cases'[d].key, c # d
               PROVE cases'[c].key \in flagged'
    BY DEF OneCasePerKey
  <2>1. /\ c # f => Active(c) /\ cases'[c].key = cases[c].key
        /\ d # f => Active(d) /\ cases'[d].key = cases[d].key
    BY <1>7, <1>8 DEF Active
  <2>2. CASE c # f /\ d # f
    BY <1>1, <1>2, <2>1, <2>2 DEF Keyed, OneCasePerKey
  <2>3. ASSUME NEW e \in {c, d}, e # f, cases'[e].key = Key(r) PROVE Key(r) \in flagged
    BY <1>1, <1>2, <2>1, <2>3 DEF Keyed, Merges
  <2> QED BY <1>2, <1>6, <1>7, <2>2, <2>3
<1> QED BY <1>13, <1>14, <1>17, <1>18, <1>19 DEF Inv, Keyed

LEMMA SetStatusInv ==
  ASSUME Inv, NEW r \in User, NEW c \in Cases, NEW st \in CaseStatus, SetStatus(r, c, st)
  PROVE Inv'
<1> DEFINE q == [Blank EXCEPT !.at = "view", !.case = c]
           w == [cases[c] EXCEPT !.status = st]
           k == cases[c].key
           reopens == ~Active(c) /\ st \in {"open", "in_progress"}
           beside == \/ \E d \in CaseId : Merges(d, k)
                     \/ \E u \in Request : req[u].at = "insert" /\ DedupKey(req[u].sig) = k
<1>1. TypeInv /\ Keyed /\ Tasked /\ r \in Request /\ r # Boot
  BY DEF Inv, User
<1>2. /\ Begin(r, "status", q) /\ cases' = [cases EXCEPT ![c] = w]
      /\ flagged' = IF reopens /\ beside THEN flagged \cup {k} ELSE flagged
      /\ waived' \in {waived, waived \cup {c}}
      /\ UNCHANGED <<tasks, triage, backfilled, scope>>
  BY DEF SetStatus
<1>3. cases[c] \in CaseRow /\ c \in CaseId
  BY <1>1, CaseType
<1>4. /\ w \in CaseRow /\ w # None /\ w.key = k /\ w.task = cases[c].task /\ w.status = st
      /\ k \in Signal \cup CVE
  BY <1>3, IdentityAssumption DEF CaseRow
<1> HIDE DEF w
<1>5. \A d \in CaseId : cases'[d] = IF d = c THEN w ELSE cases[d]
  BY <1>1, <1>2 DEF TypeInv, TypeOK, RowsOK
<1>6. Cases' = Cases /\ Tasks' = Tasks
  BY <1>2, <1>4, <1>5 DEF Cases, Tasks
<1>7. RowsOK'
  BY <1>1, <1>2, <1>3, <1>4, <1>5, <1>6 DEF TypeInv, TypeOK, RowsOK
<1>8. ASSUME NEW a PROVE LET p == [q EXCEPT !.op = "status", !.alone = a]
                         IN Sound(p, Tasks, Cases) /\ ~Forth(p)
  <2> DEFINE p == [q EXCEPT !.op = "status", !.alone = a]
  <2>1. /\ p.op = "status" /\ p.at = "view" /\ p.task = None /\ p.case = c
        /\ p \in Row(p)
    BY <1>3, DeskAssumption, ZenonT(60) DEF Row, Blank, Point
  <2> HIDE DEF p
  <2>2. Sound(p, Tasks, Cases) /\ ~Forth(p)
    BY <2>1 DEF Sound, Fits, Point, EnsurePoint, Forth, Makes
  <2> QED BY <2>2 DEF p
<1> HIDE DEF q
<1>9. /\ ReqOK' /\ \E a : req'[r] = [q EXCEPT !.op = "status", !.alone = a]
      /\ \A s \in Request \ {r} : req'[s] = [req[s] EXCEPT !.alone = FALSE]
      /\ \A s \in Request \ {r} : Calm(req[s], req'[s])
  <2>1. \A a : Sound([q EXCEPT !.op = "status", !.alone = a], Tasks', Cases')
    BY <1>6, <1>8
  <2> QED BY <1>1, <1>2, <1>6, <2>1, Begins
<1>10. \A s \in Request : KeyCalm(req[s], req'[s]) /\ TaskCalm(req[s], req'[s])
  <2>1. ~Makes(req[r])
    BY <1>2 DEF Begin, Idle, Makes
  <2>2. ~Forth(req'[r])
    BY <1>8, <1>9
  <2> QED BY <1>9, <2>1, <2>2 DEF Calm, KeyCalm, TaskCalm, Forth
<1>11. TypeInv'
  <2>1. req'[Boot] = [req[Boot] EXCEPT !.alone = FALSE] /\ req[Boot] \in Row(req[Boot])
    BY <1>1, <1>9, AtType, DeskAssumption
  <2>2. req'[Boot].op = req[Boot].op /\ req'[Boot].at = req[Boot].at
    BY <2>1 DEF Row
  <2>3. ~backfilled' => req'[Boot].op = "idle" /\ req'[Boot].at = "idle"
    BY <1>1, <1>2, <2>2 DEF TypeInv
  <2>4. /\ triage' \in [Signal -> TriageStatus \cup {None}] /\ waived' \subseteq CaseId
        /\ flagged' \subseteq TaskId \cup CaseId \cup Signal \cup CVE
    BY <1>1, <1>2, <1>3, <1>4 DEF TypeInv, TypeOK
  <2> QED BY <1>1, <1>2, <1>7, <1>9, <2>3, <2>4, TypeNext
<1>12. flagged \subseteq flagged'
  BY <1>2
<1>13. Tasked'
  <2>1. CalmTasks /\ SameLinks /\ FlagsKept
    BY <1>2, <1>4, <1>5, <1>6, <1>12 DEF CalmTasks, SameLinks, FlagsKept, Cases, Tasks
  <2> QED BY <1>1, <1>10, <1>11, <2>1, QuietTasked
<1>14. \A u \in Request : req'[u].at = "insert" => req[u].at = "insert" /\ Key(u)' = Key(u)
  BY <1>10 DEF KeyCalm, Key
<1>15. ASSUME NEW d \in CaseId, Active(d)'
       PROVE d \in Cases /\ cases'[d].key = cases[d].key /\ (Active(d) \/ (d = c /\ reopens))
  BY <1>4, <1>5, <1>6, <1>15 DEF Active
<1>16. reopens /\ beside => k \in flagged'
  BY <1>2
<1> HIDE DEF reopens
<1>17. \A u, v \in Request :
         u # v /\ req'[u].at = "insert" /\ req'[v].at = "insert" /\ Key(u)' = Key(v)'
           => Key(u)' \in flagged'
  BY <1>1, <1>12, <1>14 DEF Keyed
<1>18. \A u \in Request, d \in CaseId :
         req'[u].at = "insert" /\ Merges(d, Key(u))' => Key(u)' \in flagged'
  <2> SUFFICES ASSUME NEW u \in Request, NEW d \in CaseId, req'[u].at = "insert",
                      Merges(d, Key(u))'
               PROVE Key(u) \in flagged'
    BY <1>14
  <2>1. Active(d)' /\ cases'[d].key = Key(u)
    BY <1>14 DEF Merges
  <2>2. CASE Active(d)
    BY <1>1, <1>12, <1>14, <1>15, <2>1, <2>2 DEF Keyed, Merges
  <2>3. CASE d = c /\ reopens
    BY <1>14, <1>15, <1>16, <2>1, <2>3 DEF Key
  <2> QED BY <1>15, <2>1, <2>2, <2>3
<1>19. OneCasePerKey'
  <2> SUFFICES ASSUME NEW a \in CaseId, NEW b \in CaseId, Active(a)', Active(b)',
                      cases'[a].key = cases'[b].key, a # b
               PROVE cases'[a].key \in flagged'
    BY DEF OneCasePerKey
  <2>1. CASE Active(a) /\ Active(b)
    BY <1>1, <1>12, <1>15, <2>1 DEF Keyed, OneCasePerKey
  <2>2. CASE reopens /\ (a = c \/ b = c) /\ (Active(a) \/ Active(b))
    BY <1>15, <1>16, <2>2 DEF Merges
  <2> QED BY <1>15, <2>1, <2>2
<1> QED BY <1>11, <1>13, <1>17, <1>18, <1>19 DEF Inv, Keyed

-----------------------------------------------------------------------------
(* The steps that make a task, or stop making one. *)

(* A request that makes a task has a case, and a task once it is made. *)
LEMMA MakingType ==
  ASSUME TypeInv, NEW r \in Request, Making(r)
  PROVE /\ req[r].case \in Cases /\ req[r].case \notin TaskId
        /\ req[r].at = "insertTask" => req[r].task = None
        /\ req[r].at # "insertTask" => req[r].task \in Tasks
  BY AtType, KeyType DEF Making, Makes, Fits, EnsurePoint, Cases

(* Tasks point to one another's requests as OneTaskPerCase says. *)
LEMMA EnsuringMakes ==
  ASSUME TypeInv, NEW r \in Request, NEW t \in Tasks, Ensuring(r), req[r].task = t
  PROVE Making(r) /\ req[r].at # "insertTask"
<1>1. t # None
  BY IdentityAssumption DEF Tasks
<1> QED BY <1>1, AtType DEF Ensuring, Making, Makes, Fits

LEMMA ToRow ==
  ASSUME TypeInv, NEW r \in Request, Ensuring(r)
  PROVE Sound(Resume(req[r], AfterEnsure(req[r])), Tasks, Cases)
        /\ ~Forth(Resume(req[r], AfterEnsure(req[r])))
<1> DEFINE q == req[r]
<1>1. /\ q.op \in {"open", "backfill"} /\ q.case \in Cases /\ Cases \subseteq CaseId
      /\ q.op = "backfill" => q.todo \subseteq Cases
      /\ q.op = "open" => q.arg \in OpenArg
  BY AtType DEF Ensuring, Fits, Sound, Cases
<1> HIDE DEF q
<1>2. CASE q.op = "backfill"
  BY <1>1, <1>2, SoundRow DEF AfterEnsure, q
<1>3. CASE q.op = "open" /\ q.arg.new
  BY <1>1, <1>3, SoundPlaybook DEF AfterEnsure, q
<1>4. CASE q.op = "open" /\ ~q.arg.new
  BY <1>1, <1>4, SoundView DEF AfterEnsure, q
<1> QED BY <1>1, <1>2, <1>3, <1>4

LEMMA EnsureTaskInv ==
  ASSUME Inv, NEW r \in Request, EnsureTask(r)
  PROVE Inv'
<1> DEFINE q == req[r]
           c == q.case
           n == [q EXCEPT !.at = "insertTask"]
<1>1. TypeInv /\ Keyed /\ Tasked /\ q.at = "ensure"
  BY DEF Inv, EnsureTask
<1>2. /\ q.op \in {"open", "backfill"} /\ c \in Cases /\ q.task = None /\ Ensuring(r)
      /\ ~Makes(q) /\ c \notin TaskId
  BY <1>1, AtType, KeyType DEF Fits, EnsurePoint, Ensuring, Makes, Cases
<1>3. CASE cases[c].task # None
  <2> DEFINE m == Resume(q, AfterEnsure(q))
  <2>1. req' = [req EXCEPT ![r] = m] /\ UNCHANGED <<tasks, flagged, deskVars>>
    BY <1>3 DEF EnsureTask
  <2>2. Sound(m, Tasks, Cases) /\ ~Forth(m)
    BY <1>1, <1>2, ToRow
  <2> HIDE DEF m
  <2>3. Calm(q, m)
    BY <1>2, <2>2 DEF Forth, Calm, KeyCalm, TaskCalm
  <2>4. TypeInv' /\ Quiet
    BY <1>1, <2>1, <2>2, <2>3, QuietRead
  <2> QED BY <2>4, QuietInv
<1>4. CASE cases[c].task = None
  <2>1. /\ req' = [req EXCEPT ![r] = n] /\ UNCHANGED <<tasks, cases, triage, backfilled, waived, scope>>
        /\ flagged' = IF \E u \in Request \ {r} : /\ Ensuring(u) /\ req[u].at # "ensure"
                                                  /\ req[u].case = c
                      THEN flagged \cup {c} ELSE flagged
    BY <1>4 DEF EnsureTask, deskVars, rest
  <2>2. RowsOK' /\ CalmRows /\ Tasks' = Tasks /\ Cases' = Cases
    BY <1>1, <2>1, NoRow DEF Tasks, Cases
  <2>3. Sound(n, Tasks, Cases) /\ n.at = "insertTask" /\ n.op = q.op /\ n.case = c /\ n.task = None
    <3>1. Fits("insertTask", q, Tasks, Cases)
      BY <1>1, AtType DEF Fits, Point, EnsurePoint
    <3> QED BY <1>1, <1>2, <3>1, AtType, SoundAt
  <2> HIDE DEF n
  <2>4. /\ ReqOK' /\ req'[r] = n /\ \A s \in Request \ {r} : req'[s] = req[s]
    BY <1>1, <2>1, <2>2, <2>3, Moves
  <2>5. \A s \in Request : KeyCalm(req[s], req'[s])
    BY <2>3, <2>4 DEF KeyCalm
  <2>6. FlagsKept /\ flagged \subseteq flagged'
    BY <2>1 DEF FlagsKept
  <2>7. TypeInv'
    <3>1. ~backfilled' => r # Boot
      BY <1>1, <2>1 DEF TypeInv
    <3>2. ~backfilled' => req'[Boot].op = "idle" /\ req'[Boot].at = "idle"
      BY <1>1, <2>1, <2>4, <3>1, DeskAssumption DEF TypeInv
    <3>3. /\ triage' \in [Signal -> TriageStatus \cup {None}] /\ waived' \subseteq CaseId
          /\ flagged' \subseteq TaskId \cup CaseId \cup Signal \cup CVE
      BY <1>1, <1>2, <2>1 DEF TypeInv, TypeOK, Cases
    <3> QED BY <1>1, <2>1, <2>2, <2>4, <3>2, <3>3, TypeNext
  <2>8. Keyed'
    BY <1>1, <2>2, <2>5, <2>6, <2>7, QuietKeyed DEF CalmRows
  <2>9. Making(r)' /\ \A u \in Request \ {r} : Making(u)' <=> Making(u)
    BY <1>2, <2>3, <2>4 DEF Making, Makes, EnsurePoint
  <2>10. ASSUME NEW u \in Request \ {r}, Making(u), req[u].case = c PROVE c \in flagged'
    BY <2>1, <2>10 DEF Ensuring, Making, Makes
  <2>11. ASSUME NEW t \in Tasks, tasks[t].case = c PROVE c \in flagged'
    <3>1. c # None /\ t # None
      BY <1>2, IdentityAssumption DEF Cases, Tasks
    <3>2. CASE c \in flagged
      BY <2>6, <3>2
    <3>3. ASSUME NEW u \in Request, Ensuring(u), req[u].task = t PROVE c \in flagged'
      <4>1. Making(u) /\ req[u].at # "insertTask"
        BY <1>1, <3>3, EnsuringMakes
      <4>2. req[u].case = c /\ u # r
        BY <1>1, <1>2, <2>11, <3>1, <3>3, <4>1 DEF Tasked
      <4> QED BY <2>10, <4>1, <4>2
    <3> QED BY <1>1, <1>4, <2>11, <3>1, <3>2, <3>3 DEF Tasked, OneTaskPerCase
  <2>12. \A u \in Request : Making(u)' /\ req'[u].at # "insertTask"
                            => tasks'[req'[u].task].case = req'[u].case
    BY <1>1, <2>1, <2>3, <2>4, <2>9 DEF Tasked
  <2>13. ASSUME NEW u \in Request, Making(u)', req'[u].case \notin flagged'
         PROVE /\ cases'[req'[u].case].task = None
               /\ \A v \in Request \ {u} : ~(Making(v)' /\ req'[v].case = req'[u].case)
               /\ \A t \in Tasks' : tasks'[t].case = req'[u].case
                                     => req'[u].task = t /\ req'[u].at # "insertTask"
    <3>1. CASE u = r
      <4>1. req'[u].case = c /\ c \notin flagged'
        BY <2>3, <2>4, <2>13, <3>1
      <4>2. \A v \in Request \ {r} : ~(Making(v)' /\ req'[v].case = c)
        BY <2>4, <2>9, <2>10, <4>1
      <4>3. \A t \in Tasks' : tasks'[t].case # c
        BY <2>1, <2>2, <2>11, <4>1
      <4> QED BY <1>4, <2>1, <3>1, <4>1, <4>2, <4>3
    <3>2. CASE u # r
      <4>1. Making(u) /\ req'[u] = req[u] /\ req[u].case \notin flagged
        BY <2>4, <2>6, <2>9, <2>13, <3>2
      <4>2. req[u].case # c
        BY <2>10, <2>13, <3>2, <4>1
      <4>3. \A v \in Request \ {u} : ~(Making(v)' /\ req'[v].case = req[u].case)
        BY <1>1, <2>3, <2>4, <2>9, <4>1, <4>2 DEF Tasked
      <4> QED BY <1>1, <2>1, <2>2, <4>1, <4>3 DEF Tasked
    <3> QED BY <3>1, <3>2
  <2>14. OneTaskPerCase'
    <3> SUFFICES ASSUME NEW t \in Tasks, tasks[t].case # None, tasks[t].case \notin flagged',
                        cases[tasks[t].case].task # t
                 PROVE \E u \in Request : Ensuring(u)' /\ req'[u].task = t
      BY <2>1, <2>2 DEF OneTaskPerCase
    <3>1. PICK u \in Request : Ensuring(u) /\ req[u].task = t
      BY <1>1, <2>6 DEF Tasked, OneTaskPerCase
    <3>2. u # r
      BY <1>2, <3>1, IdentityAssumption DEF Tasks
    <3>3. req'[u] = req[u]
      BY <2>4, <3>2
    <3> QED BY <3>1, <3>3 DEF Ensuring
  <2> QED BY <2>7, <2>8, <2>12, <2>13, <2>14 DEF Inv, Tasked
<1> QED BY <1>3, <1>4

(* A request that goes on to the links of its task keeps its type. *)
LEMMA Placed ==
  ASSUME NEW q, q \in Row(q), NEW f \in TaskId
  PROVE LET n == [q EXCEPT !.at = "links", !.task = f]
        IN  /\ n \in Row(n) /\ n.op = q.op /\ n.at = "links" /\ n.case = q.case /\ n.task = f
            /\ n.arg = q.arg /\ n.todo = q.todo
  BY ZenonT(60) DEF Row, Point

LEMMA InsertTaskInv ==
  ASSUME Inv, NEW r \in Request, InsertTask(r)
  PROVE Inv'
<1> DEFINE q == req[r]
           c == q.case
           f == FreeTask
           w == NewTask(c, Priority[q.sig])
           n == [q EXCEPT !.at = "links", !.task = f]
<1>1. TypeInv /\ Keyed /\ Tasked
  BY DEF Inv
<1>2. /\ q.at = "insertTask" /\ Tasks # TaskId /\ tasks' = [tasks EXCEPT ![f] = w]
      /\ req' = [req EXCEPT ![r] = n]
      /\ UNCHANGED <<flagged, cases, triage, backfilled, waived, scope>>
  BY DEF InsertTask, deskVars, rest
<1>3. /\ q \in Row(q) /\ q.op \in {"open", "backfill"} /\ c \in Cases /\ c \in CaseId
      /\ q.task = None /\ q.sig \in Signal /\ Makes(q)
      /\ q.op = "open" => q.arg \in OpenArg
      /\ q.op = "backfill" => q.todo \subseteq Cases
  BY <1>1, <1>2, AtType DEF Sound, Fits, EnsurePoint, Makes, Cases
<1>4. w \in TaskRow /\ w.case = c
  BY <1>3, NewTaskType, DeskAssumption
<1> HIDE DEF w
<1>5. /\ f \in TaskId \ Tasks /\ Tasks' = Tasks \cup {f}
      /\ \A t \in TaskId : tasks'[t] = IF t = f THEN w ELSE tasks[t]
  BY <1>1, <1>2, <1>4, FreeTaskNew
<1> HIDE DEF f
<1>6. Cases' = Cases /\ c # None /\ f # None
  BY <1>2, <1>3, <1>5, IdentityAssumption DEF Cases
<1>7. RowsOK'
  <2>1. tasks' \in [TaskId -> TaskRow \cup {None}]
    BY <1>1, <1>2, <1>4 DEF TypeInv, TypeOK, RowsOK
  <2> QED BY <1>1, <1>2, <1>3, <1>4, <1>5, <1>6, <2>1 DEF TypeInv, TypeOK, RowsOK
<1>8. /\ n \in Row(n) /\ n.op = q.op /\ n.at = "links" /\ n.case = c /\ n.task = f
      /\ n.arg = q.arg /\ n.todo = q.todo
  BY <1>3, <1>5, Placed
<1> HIDE DEF n
<1>9. Sound(n, Tasks', Cases') /\ Makes(n)
  <2>1. Fits("links", n, Tasks', Cases')
    BY <1>3, <1>5, <1>6, <1>8 DEF Fits, Point, EnsurePoint
  <2> QED BY <1>3, <1>5, <1>6, <1>8, <2>1 DEF Sound, Makes, EnsurePoint
<1>10. ReqOK' /\ req'[r] = n /\ \A s \in Request \ {r} : req'[s] = req[s]
  BY <1>1, <1>2, <1>5, <1>6, <1>9, Moves
<1>11. TypeInv'
  <2>1. ~backfilled' => r # Boot
    BY <1>1, <1>2 DEF TypeInv
  <2>2. ~backfilled' => req'[Boot].op = "idle" /\ req'[Boot].at = "idle"
    BY <1>1, <1>2, <1>10, <2>1, DeskAssumption DEF TypeInv
  <2>3. /\ triage' \in [Signal -> TriageStatus \cup {None}] /\ waived' \subseteq CaseId
        /\ flagged' \subseteq TaskId \cup CaseId \cup Signal \cup CVE
    BY <1>1, <1>2 DEF TypeInv, TypeOK
  <2> QED BY <1>1, <1>2, <1>7, <1>10, <2>2, <2>3, TypeNext
<1>12. Keyed'
  <2>1. SameKeys /\ FlagsKept
    BY <1>2, <1>6 DEF SameKeys, FlagsKept, Active
  <2>2. \A s \in Request : KeyCalm(req[s], req'[s])
    BY <1>8, <1>10 DEF KeyCalm
  <2> QED BY <1>1, <1>11, <2>1, <2>2, QuietKeyed
<1>13. Making(r) /\ Making(r)' /\ \A u \in Request \ {r} : Making(u)' <=> Making(u)
  BY <1>3, <1>9, <1>10 DEF Making, Makes
<1>14. \A u \in Request : Making(u)' /\ req'[u].at # "insertTask"
                          => tasks'[req'[u].task].case = req'[u].case
  <2> SUFFICES ASSUME NEW u \in Request, Making(u)', req'[u].at # "insertTask"
               PROVE tasks'[req'[u].task].case = req'[u].case
    OBVIOUS
  <2>1. CASE u = r
    BY <1>4, <1>5, <1>8, <1>10, <2>1
  <2>2. CASE u # r
    <3>1. Making(u) /\ req'[u] = req[u] /\ req[u].task \in Tasks
      BY <1>1, <1>10, <1>13, <2>2, MakingType
    <3> QED BY <1>1, <1>5, <3>1 DEF Tasked, Tasks
  <2> QED BY <2>1, <2>2
<1>15. ASSUME NEW u \in Request, Making(u)', req'[u].case \notin flagged'
       PROVE /\ cases'[req'[u].case].task = None
             /\ \A v \in Request \ {u} : ~(Making(v)' /\ req'[v].case = req'[u].case)
             /\ \A t \in Tasks' : tasks'[t].case = req'[u].case
                                   => req'[u].task = t /\ req'[u].at # "insertTask"
  <2>1. Making(u) /\ req'[u].case = req[u].case /\ req[u].case \notin flagged
    BY <1>2, <1>8, <1>10, <1>13, <1>15
  <2>2. \A v \in Request \ {u} : ~(Making(v)' /\ req'[v].case = req'[u].case)
    BY <1>1, <1>8, <1>10, <1>13, <2>1 DEF Tasked
  <2>3. cases'[req'[u].case].task = None
    BY <1>1, <1>2, <2>1 DEF Tasked
  <2>4. \A t \in Tasks' : tasks'[t].case = req'[u].case
                          => req'[u].task = t /\ req'[u].at # "insertTask"
    <3>1. CASE u = r
      BY <1>1, <1>2, <1>5, <1>8, <1>10, <2>1, <3>1 DEF Tasked, Tasks
    <3>2. CASE u # r
      <4>1. req[u].case # c /\ req'[u] = req[u]
        BY <1>1, <1>10, <1>13, <2>1, <3>2 DEF Tasked
      <4> QED BY <1>1, <1>4, <1>5, <2>1, <4>1 DEF Tasked, Tasks
    <3> QED BY <3>1, <3>2
  <2> QED BY <2>2, <2>3, <2>4
<1>16. OneTaskPerCase'
  <2> SUFFICES ASSUME NEW t \in Tasks', tasks'[t].case # None, tasks'[t].case \notin flagged,
                      cases[tasks'[t].case].task # t
               PROVE \E u \in Request : Ensuring(u)' /\ req'[u].task = t
    BY <1>2 DEF OneTaskPerCase
  <2>1. CASE t = f
    BY <1>8, <1>9, <1>10, <2>1 DEF Ensuring, Makes
  <2>2. CASE t # f
    <3>1. t \in Tasks /\ tasks'[t] = tasks[t]
      BY <1>5, <2>2 DEF Tasks
    <3>2. PICK u \in Request : Ensuring(u) /\ req[u].task = t
      BY <1>1, <3>1 DEF Tasked, OneTaskPerCase
    <3>3. u # r
      BY <1>3, <3>1, <3>2, IdentityAssumption DEF Tasks
    <3> QED BY <1>10, <3>2, <3>3 DEF Ensuring
  <2> QED BY <2>1, <2>2
<1> QED BY <1>11, <1>12, <1>14, <1>15, <1>16 DEF Inv, Tasked

(* A request that stops making a task: told the case of it, or cut short,  *)
(* which flags the case.                                                   *)
LEMMA Stops ==
  ASSUME Inv, TypeInv', NEW r \in Request, ~Makes(req'[r]),
         \A s \in Request \ {r} : req'[s] = req[s],
         UNCHANGED tasks, Cases' = Cases, flagged \subseteq flagged',
         \A c \in Cases : \/ cases'[c].task = cases[c].task
                          \/ Making(r) /\ c = req[r].case,
         Making(r) => \/ req[r].task = None /\ cases' = cases
                      \/ req[r].case \in flagged'
                      \/ cases'[req[r].case].task = req[r].task
  PROVE Tasked'
<1>1. TypeInv /\ Tasked
  BY DEF Inv
<1>2. ~Making(r)' /\ \A u \in Request \ {r} : Making(u)' <=> Making(u)
  BY DEF Making, Makes
<1>3. \A u \in Request : Making(u)' /\ req'[u].at # "insertTask"
                          => tasks'[req'[u].task].case = req'[u].case
  BY <1>1, <1>2 DEF Tasked
<1>4. ASSUME NEW u \in Request, Making(u)', req'[u].case \notin flagged'
      PROVE /\ cases'[req'[u].case].task = None
            /\ \A v \in Request \ {u} : ~(Making(v)' /\ req'[v].case = req'[u].case)
            /\ \A t \in Tasks' : tasks'[t].case = req'[u].case
                                  => req'[u].task = t /\ req'[u].at # "insertTask"
  <2>1. u # r /\ Making(u) /\ req'[u] = req[u] /\ req[u].case \notin flagged
    BY <1>2, <1>4
  <2>2. req[u].case \in Cases /\ ~(Making(r) /\ req[r].case = req[u].case)
    BY <1>1, <2>1, MakingType DEF Tasked
  <2>3. cases'[req[u].case].task = None
    BY <1>1, <2>1, <2>2 DEF Tasked
  <2>4. \A v \in Request \ {u} : ~(Making(v)' /\ req'[v].case = req'[u].case)
    BY <1>1, <1>2, <2>1 DEF Tasked
  <2>5. \A t \in Tasks' : tasks'[t].case = req'[u].case
                          => req'[u].task = t /\ req'[u].at # "insertTask"
    BY <1>1, <2>1 DEF Tasked, Tasks
  <2> QED BY <2>1, <2>3, <2>4, <2>5
<1>5. OneTaskPerCase'
  <2> SUFFICES ASSUME NEW t \in Tasks, tasks[t].case # None, tasks[t].case \notin flagged',
                      cases'[tasks[t].case].task # t
               PROVE \E u \in Request : Ensuring(u)' /\ req'[u].task = t
    BY DEF OneTaskPerCase, Tasks
  <2>1. tasks[t].case \in Cases /\ t # None
    BY <1>1, IdentityAssumption DEF TypeInv, TypeOK, RowsOK, Tasks
  <2>2. ASSUME NEW u \in Request, Ensuring(u), req[u].task = t
        PROVE Ensuring(u)' /\ req'[u].task = t
    <3>1. Making(u) /\ tasks[t].case = req[u].case
      BY <1>1, <2>2, EnsuringMakes DEF Tasked
    <3>2. u # r
      BY <2>1, <2>2, <3>1
    <3> QED BY <2>2, <3>2 DEF Ensuring
  <2>3. CASE cases[tasks[t].case].task # t
    BY <1>1, <2>2, <2>3 DEF Tasked, OneTaskPerCase
  <2>4. CASE cases[tasks[t].case].task = t
    <3>1. Making(r) /\ tasks[t].case = req[r].case
      BY <2>1, <2>4
    <3> QED BY <1>1, <2>1, <2>4, <3>1 DEF Tasked
  <2> QED BY <2>3, <2>4
<1> QED BY <1>3, <1>4, <1>5 DEF Tasked

LEMMA LinkTaskInv ==
  ASSUME Inv, NEW r \in Request, LinkTask(r)
  PROVE Inv'
<1> DEFINE q == req[r]
           c == q.case
           n == Resume(q, AfterEnsure(q))
           w == [cases[c] EXCEPT !.task = q.task]
<1>1. TypeInv /\ Keyed /\ Tasked
  BY DEF Inv
<1>2. /\ q.at = "link" /\ cases' = [cases EXCEPT ![c] = w] /\ req' = [req EXCEPT ![r] = n]
      /\ waived' = waived \ {c} /\ UNCHANGED <<tasks, flagged, triage, backfilled, scope>>
  BY DEF LinkTask
<1>3. /\ q.op \in {"open", "backfill"} /\ c \in Cases /\ c \in CaseId /\ q.task \in Tasks
      /\ Ensuring(r) /\ Making(r)
  BY <1>1, <1>2, AtType DEF Fits, EnsurePoint, Making, Makes, Ensuring, Cases
<1>4. /\ w \in CaseRow /\ w # None /\ w.key = cases[c].key /\ w.status = cases[c].status
      /\ w.task = q.task
  <2>1. cases[c] \in CaseRow /\ q.task \in TaskId
    BY <1>1, <1>3, CaseType DEF Tasks
  <2> QED BY <2>1, IdentityAssumption DEF CaseRow
<1> HIDE DEF w
<1>5. \A d \in CaseId : cases'[d] = IF d = c THEN w ELSE cases[d]
  BY <1>1, <1>2 DEF TypeInv, TypeOK, RowsOK
<1>6. Cases' = Cases /\ Tasks' = Tasks
  BY <1>2, <1>3, <1>4, <1>5 DEF Cases, Tasks
<1>7. RowsOK'
  BY <1>1, <1>2, <1>3, <1>4, <1>5, <1>6 DEF TypeInv, TypeOK, RowsOK
<1>8. Sound(n, Tasks, Cases) /\ ~Forth(n)
  BY <1>1, <1>3, ToRow
<1> HIDE DEF n
<1>9. ReqOK' /\ req'[r] = n /\ \A s \in Request \ {r} : req'[s] = req[s]
  BY <1>1, <1>2, <1>6, <1>8, Moves
<1>10. TypeInv'
  <2>1. ~backfilled' => r # Boot
    BY <1>1, <1>2 DEF TypeInv
  <2>2. ~backfilled' => req'[Boot].op = "idle" /\ req'[Boot].at = "idle"
    BY <1>1, <1>2, <1>9, <2>1, DeskAssumption DEF TypeInv
  <2>3. /\ triage' \in [Signal -> TriageStatus \cup {None}] /\ waived' \subseteq CaseId
        /\ flagged' \subseteq TaskId \cup CaseId \cup Signal \cup CVE
    BY <1>1, <1>2 DEF TypeInv, TypeOK
  <2> QED BY <1>1, <1>2, <1>7, <1>9, <2>2, <2>3, TypeNext
<1>11. Keyed'
  <2>1. SameKeys /\ FlagsKept
    BY <1>2, <1>4, <1>5, <1>6 DEF SameKeys, FlagsKept, Active, Cases
  <2>2. \A s \in Request : KeyCalm(req[s], req'[s])
    BY <1>8, <1>9 DEF KeyCalm, Forth
  <2> QED BY <1>1, <1>10, <2>1, <2>2, QuietKeyed
<1>12. Tasked'
  <2>1. \A d \in Cases : cases'[d].task = cases[d].task \/ d = c
    BY <1>5 DEF Cases
  <2>2. cases'[c].task = q.task /\ ~Makes(req'[r])
    BY <1>3, <1>4, <1>5, <1>8, <1>9 DEF Forth
  <2> QED BY <1>2, <1>3, <1>6, <1>9, <1>10, <2>1, <2>2, Stops
<1> QED BY <1>10, <1>11, <1>12 DEF Inv

LEMMA HalfDoneType ==
  ASSUME TypeInv, NEW r \in Request
  PROVE HalfDone(r) \subseteq TaskId \cup CaseId
<1>1. Unscored(r) => req[r].task \in TaskId
  BY AtType DEF Unscored, Fits, Tasks
<1>2. Ensuring(r) => req[r].case \in CaseId
  BY AtType DEF Ensuring, Fits, Cases
<1> QED BY <1>1, <1>2 DEF HalfDone

LEMMA FailInv ==
  ASSUME Inv, NEW r \in Request, Fail(r)
  PROVE Inv'
<1> DEFINE q == req[r]
<1>1. TypeInv /\ Keyed /\ Tasked
  BY DEF Inv
<1>2. /\ ~Idle(r) /\ flagged' = flagged \cup HalfDone(r)
      /\ UNCHANGED <<tasks, cases, triage, backfilled, scope>>
  BY DEF Fail
<1>3. PICK n : /\ req' = [req EXCEPT ![r] = n]
               /\ Sound(n, Tasks, Cases) /\ ~Forth(n)
  <2>1. CASE Ensuring(r)
    <3>1. req' = [req EXCEPT ![r] = Resume(q, AfterEnsure(q))]
      BY <2>1 DEF Fail, Ensuring, EnsurePoint
    <3> QED BY <1>1, <2>1, <3>1, ToRow
  <2>2. CASE ~Ensuring(r) /\ q.at = "playbook"
    <3>1. req' = [req EXCEPT ![r] = Resume(q, "view")]
      BY <2>2 DEF Fail
    <3>2. q.case \in Cases
      BY <1>1, <2>2, AtType DEF Fits
    <3> QED BY <3>1, <3>2, SoundView DEF Cases
  <2>3. CASE ~Ensuring(r) /\ q.at # "playbook"
    <3>1. req' = [req EXCEPT ![r] = Blank]
      BY <2>3 DEF Fail
    <3>2. ~Forth(Blank)
      BY DEF Forth, Makes, Blank
    <3> QED BY <3>1, <3>2, SoundBlank
  <2> QED BY <2>1, <2>2, <2>3
<1>4. RowsOK' /\ CalmRows /\ Tasks' = Tasks /\ Cases' = Cases
  BY <1>1, <1>2, NoRow DEF Tasks, Cases
<1>5. ReqOK' /\ req'[r] = n /\ \A s \in Request \ {r} : req'[s] = req[s]
  BY <1>1, <1>3, <1>4, Moves
<1>6. waived' \subseteq CaseId
  <2>1. Ensuring(r) \/ q.at = "ref" => q.case \in CaseId
    BY <1>1, AtType DEF Ensuring, Fits, Cases
  <2>2. waived \subseteq CaseId
    BY <1>1 DEF TypeInv, TypeOK
  <2> QED BY <2>1, <2>2 DEF Fail
<1>7. TypeInv'
  <2>1. ~backfilled' => r # Boot
    BY <1>1, <1>2 DEF TypeInv, Idle
  <2>2. ~backfilled' => req'[Boot].op = "idle" /\ req'[Boot].at = "idle"
    BY <1>1, <1>2, <1>5, <2>1, DeskAssumption DEF TypeInv
  <2>3. /\ triage' \in [Signal -> TriageStatus \cup {None}]
        /\ flagged' \subseteq TaskId \cup CaseId \cup Signal \cup CVE
    BY <1>1, <1>2, HalfDoneType DEF TypeInv, TypeOK
  <2> QED BY <1>1, <1>2, <1>4, <1>5, <1>6, <2>2, <2>3, TypeNext
<1>8. Keyed'
  <2>1. FlagsKept
    BY <1>2 DEF FlagsKept
  <2>2. \A s \in Request : KeyCalm(req[s], req'[s])
    BY <1>3, <1>5 DEF KeyCalm, Forth
  <2> QED BY <1>1, <1>4, <1>7, <2>1, <2>2, QuietKeyed DEF CalmRows
<1>9. Tasked'
  <2>1. Making(r) => req[r].task = None \/ req[r].case \in flagged'
    BY <1>2 DEF Making, Makes, HalfDone, Ensuring
  <2>2. ~Makes(req'[r])
    BY <1>3, <1>5 DEF Forth
  <2> QED BY <1>2, <1>4, <1>5, <1>7, <2>1, <2>2, Stops
<1> QED BY <1>7, <1>8, <1>9 DEF Inv

(* A backfill that skips a row has one less to go through. *)
LEMMA FailRowInv ==
  ASSUME Inv, NEW r \in Request, FailRow(r)
  PROVE Inv'
<1> DEFINE q == req[r]
<1>1. /\ TypeInv /\ q.at = "row"
      /\ UNCHANGED <<tasks, flagged, cases, triage, backfilled, scope>>
  BY DEF Inv, FailRow
<1>2. PICK c \in q.todo : /\ req' = [req EXCEPT ![r] = [q EXCEPT !.todo = q.todo \ {c}]]
                          /\ waived' = waived \cup {c}
  BY DEF FailRow
<1>3. q \in Row(q) /\ Sound(q, Tasks, Cases) /\ q.op = "backfill" /\ q.todo \subseteq Cases /\ ~Makes(q)
  BY <1>1, AtType DEF Sound, Fits, Makes, EnsurePoint
<1> DEFINE n == [q EXCEPT !.todo = q.todo \ {c}]
<1>4. /\ n \in Row(n) /\ n.at = q.at /\ n.op = q.op /\ n.case = q.case /\ n.task = q.task
      /\ n.sig = q.sig /\ n.arg = q.arg /\ n.todo = q.todo \ {c}
  BY <1>3 DEF Row
<1>5. req' = [req EXCEPT ![r] = n]
  BY <1>2
<1> HIDE DEF n
<1>6. Sound(n, Tasks, Cases) /\ Calm(q, n)
  BY <1>1, <1>3, <1>4 DEF Sound, Fits, Point, EnsurePoint, Calm, KeyCalm, TaskCalm, Makes
<1>7. RowsOK' /\ CalmRows /\ Tasks' = Tasks /\ Cases' = Cases /\ FlagsKept
  BY <1>1, NoRow DEF Tasks, Cases, FlagsKept
<1>8. ReqOK' /\ req'[r] = n /\ (\A s \in Request \ {r} : req'[s] = req[s]) /\ CalmReqs
  BY <1>1, <1>5, <1>6, <1>7, Moves
<1>9. TypeInv'
  <2>1. ~backfilled' => r # Boot
    BY <1>1, <1>3 DEF TypeInv
  <2>2. ~backfilled' => req'[Boot].op = "idle" /\ req'[Boot].at = "idle"
    BY <1>1, <1>8, <2>1, DeskAssumption DEF TypeInv
  <2>3. /\ triage' \in [Signal -> TriageStatus \cup {None}] /\ waived' \subseteq CaseId
        /\ flagged' \subseteq TaskId \cup CaseId \cup Signal \cup CVE
    BY <1>1, <1>2, <1>3 DEF TypeInv, TypeOK, Cases
  <2> QED BY <1>1, <1>7, <1>8, <2>2, <2>3, TypeNext
<1> QED BY <1>7, <1>8, <1>9, QuietInv DEF Quiet

LEMMA FailScanInv == Inv /\ FailScan => Inv'
<1> SUFFICES ASSUME Inv, FailScan PROVE Inv'
  OBVIOUS
<1>1. /\ TypeInv /\ UNCHANGED <<tasks, req, flagged, cases, triage, scope>>
      /\ backfilled' = TRUE /\ waived' = waived \cup Backfill.todo
  BY DEF Inv, FailScan
<1>2. RowsOK' /\ CalmRows /\ Tasks' = Tasks /\ Cases' = Cases /\ FlagsKept
  BY <1>1, NoRow DEF Tasks, Cases, FlagsKept
<1>3. ReqOK' /\ CalmReqs
  BY <1>1, <1>2 DEF TypeInv, ReqOK, CalmReqs, Calm, KeyCalm, TaskCalm
<1>4. Backfill.todo \subseteq CaseId
  BY DEF Backfill, Blank
<1>5. /\ triage' \in [Signal -> TriageStatus \cup {None}] /\ waived' \subseteq CaseId
      /\ flagged' \subseteq TaskId \cup CaseId \cup Signal \cup CVE
  BY <1>1, <1>4 DEF TypeInv, TypeOK
<1>6. TypeInv'
  BY <1>1, <1>2, <1>3, <1>5, TypeNext
<1> QED BY <1>2, <1>3, <1>6, QuietInv DEF Quiet

LEMMA CrashInv == Inv /\ Crash => Inv'
<1> SUFFICES ASSUME Inv, Crash PROVE Inv'
  OBVIOUS
<1>1. TypeInv /\ Keyed /\ Tasked
  BY DEF Inv
<1>2. /\ req' = [r \in Request |-> Blank] /\ waived' = {}
      /\ flagged' = flagged \cup UNION {HalfDone(r) : r \in Request}
      /\ UNCHANGED <<tasks, cases, triage, scope>>
  BY DEF Crash
<1>3. RowsOK' /\ CalmRows /\ Tasks' = Tasks /\ Cases' = Cases
  BY <1>1, <1>2, NoRow DEF Tasks, Cases
<1>4. \A r \in Request : req'[r] = Blank
  BY <1>2
<1>5. ReqOK'
  BY <1>2, <1>4, SoundBlank DEF ReqOK
<1>6. TypeInv'
  <2>1. req'[Boot].op = "idle" /\ req'[Boot].at = "idle"
    BY <1>4, DeskAssumption DEF Blank
  <2>2. UNION {HalfDone(r) : r \in Request} \subseteq TaskId \cup CaseId
    BY <1>1, HalfDoneType
  <2>3. /\ triage' \in [Signal -> TriageStatus \cup {None}] /\ waived' \subseteq CaseId
        /\ flagged' \subseteq TaskId \cup CaseId \cup Signal \cup CVE
    BY <1>1, <1>2, <2>2 DEF TypeInv, TypeOK
  <2> QED BY <1>1, <1>2, <1>3, <1>5, <2>1, <2>3, TypeNext
<1>7. Keyed'
  <2>1. FlagsKept
    BY <1>2 DEF FlagsKept
  <2>2. \A s \in Request : KeyCalm(req[s], req'[s])
    BY <1>4 DEF KeyCalm, Blank
  <2> QED BY <1>1, <1>3, <1>6, <2>1, <2>2, QuietKeyed DEF CalmRows
<1>8. \A r \in Request : ~Making(r)'
  BY <1>4 DEF Making, Makes, Blank
<1>9. OneTaskPerCase'
  <2> SUFFICES ASSUME NEW t \in Tasks, tasks[t].case # None, tasks[t].case \notin flagged',
                      cases[tasks[t].case].task # t
               PROVE FALSE
    BY <1>2, <1>3 DEF OneTaskPerCase
  <2>1. PICK u \in Request : Ensuring(u) /\ req[u].task = t
    BY <1>1, <1>2 DEF Tasked, OneTaskPerCase
  <2>2. tasks[t].case = req[u].case /\ t # None
    BY <1>1, <2>1, EnsuringMakes, IdentityAssumption DEF Tasked, Tasks
  <2>3. req[u].case \in HalfDone(u)
    BY <2>1, <2>2 DEF HalfDone
  <2> QED BY <1>2, <2>2, <2>3
<1> QED BY <1>6, <1>7, <1>8, <1>9 DEF Inv, Tasked

-----------------------------------------------------------------------------
(* The invariant. *)

LEMMA InitInv == Init => Inv
<1> SUFFICES ASSUME Init PROVE Inv
  OBVIOUS
<1>1. PICK o \in Workload : left = o.ops /\ faults = o.faults /\ backfilled = o.fired
                            /\ scope = o.inputs
  BY DEF Init
<1>2. /\ tasks = [t \in TaskId |-> None] /\ req = [r \in Request |-> Blank] /\ flagged = {}
      /\ cases = [c \in CaseId |-> None] /\ triage = [s \in Signal |-> None] /\ waived = {}
  BY DEF Init, TaskInit
<1>3. Tasks = {} /\ Cases = {}
  BY <1>2 DEF Tasks, Cases
<1>4. \A r \in Request : req[r] = Blank
  BY <1>2
<1>5. scope \in Inputs
  BY <1>1, DeskAssumption
<1>6. RowsOK
  BY <1>2, <1>3 DEF RowsOK
<1>7. ReqOK
  BY <1>2, <1>4, SoundBlank DEF ReqOK
<1>8. TypeOK
  BY <1>2, <1>6, <1>7 DEF TypeOK, ReqOK, Sound, Row
<1>9. TypeInv
  BY <1>4, <1>5, <1>7, <1>8, DeskAssumption DEF TypeInv, Blank
<1>10. \A r \in Request : req[r].at # "insert" /\ ~Making(r)
  BY <1>4 DEF Blank, Making, Makes
<1>11. Keyed
  BY <1>3, <1>10 DEF Keyed, OneCasePerKey, Active
<1>12. Tasked
  BY <1>3, <1>10 DEF Tasked, OneTaskPerCase
<1> QED BY <1>9, <1>11, <1>12 DEF Inv

LEMMA RequestStepInv ==
  ASSUME Inv, NEW r \in Request, RequestStep(r)
  PROVE Inv'
<1>1. TypeInv
  BY DEF Inv
<1>2. CASE \/ InsertCase(r) \/ EnsureTask(r) \/ InsertTask(r) \/ LinkTask(r)
  BY <1>2, InsertCaseInv, EnsureTaskInv, InsertTaskInv, LinkTaskInv
<1>3. CASE TaskStep(r) /\ UNCHANGED deskVars
  BY <1>1, <1>3, TaskStepQuiet, QuietInv
<1>4. CASE ReadCase(r) \/ SavePlaybook(r) \/ FirstPlaybook(r) \/ Rewrite(r)
           \/ ReadForEvidence(r) \/ MarkStep(r)
  BY <1>1, <1>4, ReadCaseQuiet, SavePlaybookQuiet, NewPlaybookQuiet, ReadForEvidenceQuiet,
     MarkStepQuiet, QuietInv
<1>5. CASE AttachRef(r) \/ InsertRef(r) \/ BackfillRow(r) \/ CloseCase(r) \/ ReadRefs(r)
           \/ SettleRef(r) \/ SettleTask(r)
  BY <1>1, <1>5, AttachRefQuiet, BackfillRowQuiet, CloseCaseQuiet, ReadRefsQuiet,
     SettleRefQuiet, SettleTaskQuiet, QuietInv
<1> QED BY <1>2, <1>3, <1>4, <1>5 DEF RequestStep

LEMMA ArrivalInv ==
  ASSUME Inv, NEW r \in User, Arrival(r)
  PROVE Inv'
<1>1. /\ TypeInv /\ scope.signals \subseteq Signal /\ scope.wants \subseteq BOOLEAN
      /\ scope.statuses \subseteq CaseStatus
  BY DEF Inv, TypeInv, Inputs
<1>2. CASE TaskArrival(r, scope.patches) /\ UNCHANGED deskVars
  BY <1>1, <1>2, TaskArrivalQuiet, QuietInv
<1>3. CASE \E s \in scope.signals, want \in scope.wants : OpenCase(r, s, want)
  BY <1>1, <1>3, OpenCaseInv
<1>4. CASE AskBackfill(r)
  BY <1>1, <1>4, AskBackfillQuiet, QuietInv
<1>5. CASE \E c \in Cases, st \in scope.statuses : SetStatus(r, c, st)
  BY <1>1, <1>5, SetStatusInv
<1>6. ASSUME NEW c \in Cases,
             \/ ViewCase(r, "resolve", c, "closed")
             \/ ViewCase(r, "evidence", c, None)
             \/ ViewCase(r, "regenerate", c, None)
             \/ ViewCase(r, "get", c, None)
             \/ \E st \in Markable, done \in BOOLEAN :
                  ViewCase(r, "step", c, [step |-> st, done |-> done])
      PROVE Inv'
  <2>1. \A st \in Markable, done \in BOOLEAN : [step |-> st, done |-> done] \in MarkArg
    BY DeskAssumption DEF MarkArg
  <2>2. TypeInv' /\ Quiet
    BY <1>1, <1>6, <2>1, ViewCaseQuiet
  <2> QED BY <2>2, QuietInv
<1> QED BY <1>2, <1>3, <1>4, <1>5, <1>6 DEF Arrival

LEMMA StutterInv == Inv /\ UNCHANGED vars => Inv'
  BY DEF Inv, vars, taskVars, deskVars, rest, TypeInv, TypeOK, RowsOK, ReqOK, Tasks, Cases,
         Keyed, Tasked, Key, Merges, Active, OneCasePerKey, OneTaskPerCase, Making, Ensuring

LEMMA NextInv == Inv /\ [Next]_vars => Inv'
<1> SUFFICES ASSUME Inv, [Next]_vars PROVE Inv'
  OBVIOUS
<1>1. TypeInv /\ scope.signals \subseteq Signal /\ scope.marks \subseteq TriageStatus
  BY DEF Inv, TypeInv, Inputs
<1>2. CASE \E r \in Request : RequestStep(r) \/ Fail(r) \/ FailRow(r)
  BY <1>2, RequestStepInv, FailInv, FailRowInv
<1>3. CASE \E r \in User : Arrival(r)
  BY <1>3, ArrivalInv
<1>4. CASE BootBackfill
  BY <1>1, <1>4, BootBackfillQuiet, QuietInv
<1>5. CASE \E s \in scope.signals, st \in scope.marks : Triage(s, st)
  BY <1>1, <1>5, TriageQuiet, QuietInv
<1>6. CASE Crash \/ FailScan
  BY <1>6, CrashInv, FailScanInv
<1>7. CASE UNCHANGED vars
  BY <1>7, StutterInv
<1> QED BY <1>2, <1>3, <1>4, <1>5, <1>6, <1>7 DEF Next

LEMMA AlwaysInv == Spec => []Inv
  BY InitInv, NextInv, PTL DEF Spec

-----------------------------------------------------------------------------
(* Theorems. *)

(* Rows and requests keep their types, and refer to rows that are there:   *)
(* no step of the desk or of the task service goes on with a case or a     *)
(* task that does not exist.                                               *)
THEOREM DeskTypeCorrect == Spec => []TypeOK
<1>1. Inv => TypeOK
  BY DEF Inv, TypeInv
<1> QED BY <1>1, AlwaysInv, PTL

(* createFromRef merges by the dedup key: two open cases with one key have *)
(* been opened at once, or by hand.                                        *)
THEOREM OneCase == Spec => []OneCasePerKey
<1>1. Inv => OneCasePerKey
  BY DEF Inv, Keyed
<1> QED BY <1>1, AlwaysInv, PTL

(* ensureTaskForCase makes one task for a case, and the case knows it,     *)
(* unless two requests made it at once or one was cut short.               *)
THEOREM OneTask == Spec => []OneTaskPerCase
<1>1. Inv => OneTaskPerCase
  BY DEF Inv, Tasked
<1> QED BY <1>1, AlwaysInv, PTL

-----------------------------------------------------------------------------
(* What steps do to the status of a task, and to the playbook of a case.   *)

StatusKept == \A t \in Tasks : tasks'[t].status = tasks[t].status
PlayKept == \A c \in Cases : cases'[c].play = cases[c].play

LEMMA TaskStatus ==
  ASSUME TypeInv, NEW r \in Request, TaskStep(r), ~UpdateTask(r)
  PROVE StatusKept
<1>1. \A t \in Tasks : t \in TaskId /\ tasks[t] \in TaskRow
  BY DEF Tasks, TypeInv, TypeOK, RowsOK
<1>2. CASE ReadLinks(r) \/ ReadStatus(r) \/ SelectTask(r)
  BY <1>2 DEF ReadLinks, ReadStatus, SelectTask, StatusKept
<1>3. ASSUME NEW t, NEW w, tasks' = [tasks EXCEPT ![t] = w], w.status = tasks[t].status
      PROVE StatusKept
  BY <1>3 DEF StatusKept, Tasks, TypeInv, TypeOK, RowsOK
<1>4. req[r].at \in {"links", "score", "floor"} => req[r].task \in Tasks
  BY AtType DEF Fits
<1>5. CASE LinkCves(r)
  <2> DEFINE w == [tasks[req[r].task] EXCEPT !.links = @ \cup req[r].links]
  <2>1. tasks' = [tasks EXCEPT ![req[r].task] = w] /\ req[r].task \in Tasks
    BY <1>4, <1>5 DEF LinkCves
  <2>2. w.status = tasks[req[r].task].status
    BY <1>1, <2>1 DEF TaskRow
  <2> HIDE DEF w
  <2> QED BY <1>3, <2>1, <2>2
<1>6. CASE WriteScore(r)
  <2> DEFINE w == [tasks[req[r].task] EXCEPT !.score = FinalScore(req[r].links, req[r].seen)]
  <2>1. tasks' = [tasks EXCEPT ![req[r].task] = w] /\ req[r].task \in Tasks
    BY <1>4, <1>6 DEF WriteScore
  <2>2. w.status = tasks[req[r].task].status
    BY <1>1, <2>1 DEF TaskRow
  <2> HIDE DEF w
  <2> QED BY <1>3, <2>1, <2>2
<1>7. CASE KeepFloor(r)
  <2> DEFINE old == tasks[req[r].task]
             w == [old EXCEPT !.score = Max({@, ScoreFloor(old.priority)})]
  <2>1. tasks' = [tasks EXCEPT ![req[r].task] = w] /\ req[r].task \in Tasks
    BY <1>4, <1>7 DEF KeepFloor
  <2>2. w.status = tasks[req[r].task].status
    BY <1>1, <2>1 DEF TaskRow
  <2> HIDE DEF w
  <2> QED BY <1>3, <2>1, <2>2
<1> QED BY <1>2, <1>5, <1>6, <1>7 DEF TaskStep

LEMMA NewTaskStatus ==
  ASSUME TypeInv, Tasks # TaskId, NEW w, tasks' = [tasks EXCEPT ![FreeTask] = w]
  PROVE StatusKept
<1>1. \E t \in TaskId : t \notin Tasks
  BY DEF Tasks
<1>2. FreeTask \notin Tasks
  BY <1>1, ZenonT(60) DEF FreeTask
<1> QED BY <1>2 DEF StatusKept, Tasks, TypeInv, TypeOK, RowsOK

LEMMA ArrivalStatus ==
  ASSUME TypeInv, NEW r \in User, Arrival(r)
  PROVE StatusKept
<1>1. CASE \E L \in SUBSET CVE : CreateTask(r, L)
  BY <1>1, NewTaskStatus DEF CreateTask
<1>2. ASSUME NEW t \in Tasks, NEW c \in CVE, RemoveCve(r, t, c) PROVE StatusKept
  <2> DEFINE w == [tasks[t] EXCEPT !.links = @ \ {c}]
  <2>1. tasks' = [tasks EXCEPT ![t] = w] /\ tasks[t] \in TaskRow
    BY <1>2 DEF RemoveCve, Tasks, TypeInv, TypeOK, RowsOK
  <2>2. w.status = tasks[t].status
    BY <2>1 DEF TaskRow
  <2> HIDE DEF w
  <2> QED BY <2>1, <2>2 DEF StatusKept, Tasks, TypeInv, TypeOK, RowsOK
<1>3. CASE UNCHANGED tasks
  BY <1>3 DEF StatusKept
<1> QED BY <1>1, <1>2, <1>3 DEF Arrival, TaskArrival, BeginPatch, AddCves, OpenCase, AskBackfill,
                               SetStatus, ViewCase

LEMMA StepStatus ==
  ASSUME TypeInv, [Next]_vars, \A r \in Request : ~UpdateTask(r)
  PROVE StatusKept
<1>1. CASE UNCHANGED tasks
  BY <1>1 DEF StatusKept
<1>2. ASSUME NEW r \in Request, RequestStep(r) PROVE StatusKept
  <2>1. CASE TaskStep(r)
    BY <2>1, TaskStatus
  <2>2. CASE InsertTask(r)
    BY <2>2, NewTaskStatus DEF InsertTask
  <2>3. CASE ~TaskStep(r) /\ ~InsertTask(r)
    BY <1>1, <1>2, <2>3 DEF RequestStep, ReadCase, SavePlaybook, FirstPlaybook, Rewrite,
       ReadForEvidence, MarkStep, AttachRef, InsertCase, InsertRef, EnsureTask, LinkTask,
       BackfillRow, CloseCase, ReadRefs, SettleRef, SettleTask
  <2> QED BY <2>1, <2>2, <2>3
<1>3. ASSUME NEW r \in User, Arrival(r) PROVE StatusKept
  BY <1>3, ArrivalStatus
<1>4. CASE \/ \E r \in Request : Fail(r) \/ FailRow(r)
           \/ BootBackfill \/ FailScan \/ Crash \/ UNCHANGED vars
           \/ \E s \in scope.signals, st \in scope.marks : Triage(s, st)
  BY <1>1, <1>4 DEF Fail, FailRow, FailScan, BootBackfill, Crash, vars, taskVars, Triage
<1> QED BY <1>2, <1>3, <1>4 DEF Next

(* Only the UPDATE of PATCH writes the status of a task, and what it       *)
(* writes over a closed one was asked for, or decided when it was new.     *)
THEOREM NeverReopened == Spec => NoSilentReopen
<1> DEFINE A == \A t \in Tasks : tasks[t].status = "closed" /\ tasks'[t].status # "closed" =>
                  \E r \in Request : /\ req[r].at = "update" /\ req[r].task = t
                                     /\ \/ req[r].arg = tasks'[t].status
                                        \/ req[r].arg = "assign" /\ req[r].seen = "new"
<1>1. ASSUME TypeInv, [Next]_vars PROVE A
  <2>1. CASE \A r \in Request : ~UpdateTask(r)
    BY <1>1, <2>1, StepStatus DEF StatusKept
  <2>2. ASSUME NEW r \in Request, UpdateTask(r) PROVE A
    <3> DEFINE q == req[r]
               st == Patched(q.arg, q.seen)
               w == [tasks[q.task] EXCEPT !.status = st]
    <3>1. /\ q.at = "update" /\ q.task \in Tasks
          /\ tasks' = tasks \/ (st # None /\ tasks' = [tasks EXCEPT ![q.task] = w])
      BY <1>1, <2>2, AtType DEF UpdateTask, Fits
    <3>2. tasks[q.task] \in TaskRow
      BY <1>1, <3>1 DEF Tasks, TypeInv, TypeOK, RowsOK
    <3>3. w.status = st
      <4> HIDE DEF st
      <4> QED BY <3>2 DEF TaskRow
    <3>4. CASE tasks' = tasks
      BY <3>4
    <3>5. CASE st # None /\ tasks' = [tasks EXCEPT ![q.task] = w]
      <4>1. st = q.arg \/ (q.arg = "assign" /\ q.seen = "new")
        BY <3>5 DEF Patched
      <4> HIDE DEF st, w
      <4>2. \A t \in Tasks : tasks'[t].status = IF t = q.task THEN st ELSE tasks[t].status
        BY <1>1, <3>3, <3>5 DEF Tasks, TypeInv, TypeOK, RowsOK
      <4> QED BY <3>1, <4>1, <4>2
    <3> QED BY <3>1, <3>4, <3>5
  <2> QED BY <2>1, <2>2
<1>2. Inv /\ [Next]_vars => [A]_tasks
  BY <1>1 DEF Inv
<1> HIDE DEF A
<1>3. Spec => [][A]_tasks
  BY <1>2, AlwaysInv, PTL DEF Spec
<1> QED BY <1>3 DEF NoSilentReopen, A

(* Only four steps write the playbook of a case that is there.             *)
LEMMA OtherPlay ==
  ASSUME TypeInv, NEW c \in Cases, NEW d \in Cases, NEW w,
         cases' = [cases EXCEPT ![d] = w], w.play = cases[d].play
  PROVE cases'[c].play = cases[c].play
  BY DEF Cases, TypeInv, TypeOK, RowsOK

LEMMA NewCasePlay ==
  ASSUME TypeInv, NEW c \in Cases, NEW r \in Request, InsertCase(r)
  PROVE cases'[c].play = cases[c].play
<1>1. \E d \in CaseId : d \notin Cases
  BY DEF InsertCase, Cases
<1>2. FreeCase \notin Cases
  BY <1>1 DEF FreeCase
<1> QED BY <1>2 DEF InsertCase, Cases, TypeInv, TypeOK, RowsOK

LEMMA RowPlay ==
  ASSUME TypeInv, NEW c \in Cases, NEW r \in Request,
         AttachRef(r) \/ InsertRef(r) \/ LinkTask(r) \/ CloseCase(r)
  PROVE cases'[c].play = cases[c].play
<1> DEFINE d == req[r].case
<1>1. d \in Cases
  BY AtType DEF AttachRef, InsertRef, LinkTask, CloseCase, Sound, Fits, EnsurePoint
<1>2. cases[d] \in CaseRow
  BY <1>1, CaseType
<1>3. ASSUME NEW w, cases' = [cases EXCEPT ![d] = w], w.play = cases[d].play
      PROVE cases'[c].play = cases[c].play
  BY <1>1, <1>3, OtherPlay
<1>4. CASE AttachRef(r) \/ InsertRef(r)
  <2>1. [cases[d] EXCEPT !.refs = @ \cup {req[r].sig}].play = cases[d].play
    BY <1>2 DEF CaseRow
  <2> QED BY <1>3, <1>4, <2>1 DEF AttachRef, InsertRef
<1>5. CASE LinkTask(r)
  <2>1. [cases[d] EXCEPT !.task = req[r].task].play = cases[d].play
    BY <1>2 DEF CaseRow
  <2> QED BY <1>3, <1>5, <2>1 DEF LinkTask
<1>6. CASE CloseCase(r)
  <2>1. [cases[d] EXCEPT !.status = "resolved"].play = cases[d].play
    BY <1>2 DEF CaseRow
  <2> QED BY <1>3, <1>6, <2>1 DEF CloseCase
<1> QED BY <1>4, <1>5, <1>6

LEMMA StepPlay ==
  ASSUME TypeInv, [Next]_vars, NEW c \in Cases, cases'[c].play # cases[c].play
  PROVE \E r \in Request : SavePlaybook(r) \/ FirstPlaybook(r) \/ Rewrite(r) \/ MarkStep(r)
<1>1. cases' # cases
  BY Zenon
<1>2. ASSUME NEW r \in Request, RequestStep(r)
      PROVE SavePlaybook(r) \/ FirstPlaybook(r) \/ Rewrite(r) \/ MarkStep(r)
  <2>1. ~InsertCase(r) /\ ~(AttachRef(r) \/ InsertRef(r) \/ LinkTask(r) \/ CloseCase(r))
    BY NewCasePlay, RowPlay, Zenon
  <2> QED BY <1>1, <1>2, <2>1 DEF RequestStep, ReadCase, ReadForEvidence, EnsureTask, InsertTask,
             BackfillRow, ReadRefs, SettleRef, SettleTask, deskVars
<1>3. ASSUME NEW r \in User, Arrival(r) PROVE FALSE
  <2>1. ASSUME NEW d \in Cases, NEW st, SetStatus(r, d, st) PROVE FALSE
    <3>1. cases[d] \in CaseRow
      BY CaseType
    <3>2. [cases[d] EXCEPT !.status = st].play = cases[d].play
      BY <3>1 DEF CaseRow
    <3> QED BY <2>1, <3>2, OtherPlay DEF SetStatus
  <2> QED BY <1>1, <1>3, <2>1 DEF Arrival, OpenCase, AskBackfill, ViewCase, deskVars
<1>4. CASE \/ \E r \in Request : Fail(r) \/ FailRow(r)
           \/ BootBackfill \/ FailScan \/ Crash \/ UNCHANGED vars
           \/ \E s \in scope.signals, st \in scope.marks : Triage(s, st)
  BY <1>1, <1>4 DEF Fail, FailRow, FailScan, BootBackfill, Crash, vars, deskVars, Triage
<1> QED BY <1>2, <1>3, <1>4 DEF Next

(* A view that makes the playbook anew keeps the marks of the one it read, *)
(* and a mark changes one step of it: what an analyst marked goes only     *)
(* when it is taken back, or under an outdated copy.                       *)
THEOREM MarksKept == Spec => MarksSurvive
<1>1. ASSUME TypeInv, [Next]_vars PROVE MarksStay
  <2> SUFFICES ASSUME NEW c \in Cases, cases[c].play # None,
                      NEW st \in cases[c].play.done \cap cases'[c].play.steps,
                      st \notin cases'[c].play.done
               PROVE \E r \in Request :
                       /\ req[r].case = c /\ req'[r] # req[r]
                       /\ \/ req[r].at = "mark" /\ req[r].arg = [step |-> st, done |-> FALSE]
                          \/ req[r].play # cases[c].play
    BY DEF MarksStay
  <2>1. cases[c].play \in Playbook /\ c \in CaseId
    BY <1>1, CaseType DEF CaseRow
  <2>2. PICK r \in Request : SavePlaybook(r) \/ FirstPlaybook(r) \/ Rewrite(r) \/ MarkStep(r)
    BY <1>1, StepPlay
  <2> DEFINE q == req[r]
             old == cases[c].play
             marked == IF q.arg.done THEN q.play.done \cup {q.arg.step}
                       ELSE q.play.done \ {q.arg.step}
             Remade(m) == \E b \in scope.books : m = Merge(q.play, Fresh(b))
             Marked(m) == q.at = "mark" /\ m = [q.play EXCEPT !.done = marked]
  <2>3. /\ q.at \in {"lookSave", "viewSave", "playbook", "rewrite", "mark"}
        /\ q.case \in Cases /\ q \in Row(q)
        /\ q.at = "mark" => q.arg \in MarkArg /\ q.play \in Playbook
        /\ q.at = "playbook" => q.play = None
    BY <1>1, <2>2, AtType DEF SavePlaybook, FirstPlaybook, Rewrite, MarkStep, Fits
  <2>4. PICK m : /\ cases' = [cases EXCEPT ![q.case] = [cases[q.case] EXCEPT !.play = m]]
                 /\ q.play = None \/ Remade(m) \/ Marked(m)
    <3>1. CASE FirstPlaybook(r)
      BY <2>3, <3>1 DEF FirstPlaybook
    <3>2. CASE Rewrite(r)
      BY <3>2 DEF Rewrite
    <3>3. CASE MarkStep(r)
      BY <3>3 DEF MarkStep
    <3>4. CASE SavePlaybook(r)
      <4>1. PICK b \in scope.books :
              cases' = [cases EXCEPT ![q.case].play
                          = [q EXCEPT !.play = Merge(q.play, Fresh(b))].play]
        BY <3>4 DEF SavePlaybook
      <4>2. [q EXCEPT !.play = Merge(q.play, Fresh(b))].play = Merge(q.play, Fresh(b))
        BY <2>3 DEF Row
      <4> QED BY <4>1, <4>2
    <3> QED BY <2>2, <3>1, <3>2, <3>3, <3>4
  <2>5. q.case = c /\ cases'[c].play = m
    <3>1. cases[q.case] \in CaseRow
      BY <1>1, <2>3, CaseType
    <3>2. [cases[q.case] EXCEPT !.play = m].play = m
      BY <3>1 DEF CaseRow
    <3>3. CASE q.case # c
      <4>1. cases'[c] = cases[c]
        BY <1>1, <2>1, <2>4, <3>3 DEF TypeInv, TypeOK, RowsOK
      <4> QED BY <4>1
    <3> QED BY <1>1, <2>1, <2>4, <3>2, <3>3 DEF TypeInv, TypeOK, RowsOK
  <2>6. req'[r] # q
    <3>1. ASSUME NEW n, req' = [req EXCEPT ![r] = n], n.at # q.at PROVE req'[r] # q
      BY <1>1, <3>1 DEF TypeInv, ReqOK
    <3>2. CASE FirstPlaybook(r) \/ Rewrite(r) \/ MarkStep(r)
      <4>1. req' = [req EXCEPT ![r] = Resume(q, "view")] /\ q.at # "view"
        BY <3>2 DEF FirstPlaybook, Rewrite, MarkStep
      <4>2. Resume(q, "view").at = "view"
        BY DEF Resume, Blank
      <4> QED BY <3>1, <4>1, <4>2
    <3>3. CASE SavePlaybook(r)
      <4>1. PICK b \in scope.books :
              req' = [req EXCEPT ![r] = LET p == [q EXCEPT !.play = Merge(q.play, Fresh(b))]
                                        IN Resume(p, AfterView(p))]
        BY <3>3 DEF SavePlaybook
      <4> DEFINE p == [q EXCEPT !.play = Merge(q.play, Fresh(b))]
                 x == AfterView(p)
                 n == Resume(p, x)
      <4>2. q.at \in {"lookSave", "viewSave"}
        BY <3>3 DEF SavePlaybook
      <4>3. p.at = q.at /\ p.op = q.op /\ [p EXCEPT !.at = x].at = x
        BY <2>3 DEF Row
      <4>4. q.at = "lookSave" => q.op \in {"resolve", "step", "evidence", "regenerate"}
        BY <1>1, AtType DEF Fits
      <4>5. x \in {"end", "close", "mark", "evidence", "rewrite"}
        <5> HIDE DEF p
        <5> QED BY <4>2, <4>3, <4>4 DEF AfterView
      <4>6. n.at \in {"idle", "close", "mark", "evidence", "rewrite"}
        <5> HIDE DEF p, x
        <5> QED BY <4>3, <4>5 DEF Resume, Blank
      <4>7. req' = [req EXCEPT ![r] = n]
        BY <4>1
      <4> HIDE DEF n
      <4> QED BY <3>1, <4>2, <4>6, <4>7
    <3> QED BY <2>2, <3>2, <3>3
  <2>7. q.play # old \/ (q.at = "mark" /\ q.arg = [step |-> st, done |-> FALSE])
    <3> SUFFICES ASSUME q.play = old
                 PROVE q.at = "mark" /\ q.arg = [step |-> st, done |-> FALSE]
      OBVIOUS
    <3>1. st \in m.steps /\ st \notin m.done /\ st \in q.play.done
      BY <2>5
    <3>2. ~Remade(m)
      <4> SUFFICES ASSUME NEW b \in scope.books, m = Merge(q.play, Fresh(b)) PROVE FALSE
        OBVIOUS
      <4> DEFINE f == Fresh(b)
      <4>1. f \in Playbook
        BY <1>1, <2>1, BookType
      <4> HIDE DEF f
      <4>2. m = [f EXCEPT !.done = q.play.done \cap f.steps]
        BY DEF Merge, f
      <4>3. m.done = q.play.done \cap f.steps /\ m.steps = f.steps
        BY <4>1, <4>2 DEF Playbook
      <4> QED BY <3>1, <4>3
    <3>3. q.at = "mark" /\ m = [q.play EXCEPT !.done = marked]
      BY <2>4, <3>2
    <3>4. m.done = marked
      <4> HIDE DEF marked
      <4> QED BY <2>1, <3>3 DEF Playbook
    <3>5. q.arg \in MarkArg /\ q.arg.step = st /\ ~q.arg.done
      BY <2>3, <3>1, <3>3, <3>4
    <3>6. q.arg = [step |-> st, done |-> FALSE]
      BY <3>5 DEF MarkArg
    <3> QED BY <3>3, <3>6
  <2> QED BY <2>5, <2>6, <2>7
<1>2. Inv /\ [Next]_vars => [MarksStay]_vars
  BY <1>1 DEF Inv
<1> QED BY <1>2, AlwaysInv, PTL DEF Spec, MarksSurvive
=============================================================================
