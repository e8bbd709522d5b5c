-------------------------- MODULE VocOutcomeProofs --------------------------
(***************************************************************************)
(* Proofs about VocDesk, after VocDeskProofs: the score of a task is that  *)
(* of its CVEs and its status, and a resolve that nothing overlapped       *)
(* settles its case, the signals and the task.                             *)
(***************************************************************************)
EXTENDS VocDeskProofs

-----------------------------------------------------------------------------
(* Where requests stand. *)

Rescore == {"links", "read", "status", "score"}
Scoring == Rescore \cup {"floor"}
Maker == {"open", "backfill"}
Closing == {"close", "refs", "settle", "patch", "update", "read", "status", "score"}

(* A resolve goes from the case to its signals and its task. *)
Local(q) == /\ q.op = "idle" <=> q.at = "idle"
            /\ q.op = "resolve" => q.at \in {"look", "lookSave"} \cup Closing
Located == \A r \in Request : Local(req[r])

(* The points of a request that has nothing to do with a score. *)
Apart(q) == q.at \notin Scoring

LEMMA Resumes ==
  ASSUME NEW q, q \in Row(q), NEW x
  PROVE /\ x = "end" => Resume(q, x) = Blank
        /\ x = "view" => /\ Resume(q, x).at = "view" /\ Resume(q, x).op = "get"
                         /\ Resume(q, x).task = None
        /\ x \in {"playbook", "row"} => /\ Resume(q, x).at = x /\ Resume(q, x).op = q.op
                                        /\ Resume(q, x).task = None
        /\ x \notin {"end", "view", "playbook", "row"} =>
             /\ Resume(q, x).at = x /\ Resume(q, x).op = q.op /\ Resume(q, x).task = q.task
             /\ Resume(q, x).case = q.case
        /\ x \notin {"end", "view", "playbook", "row", "floor"} =>
             Resume(q, x) = [q EXCEPT !.at = x]
<1>1. CASE x = "end"
  BY <1>1 DEF Resume
<1>2. CASE x = "view"
  BY <1>2 DEF Resume, Blank
<1>3. CASE x \in {"playbook", "row"}
  BY <1>3 DEF Resume, Blank
<1>4. CASE x = "floor"
  <2>1. Resume(q, x) = [q EXCEPT !.at = x, !.links = {}, !.seen = None]
    BY <1>4 DEF Resume
  <2> QED BY <1>4, <2>1 DEF Row
<1>5. CASE x \notin {"end", "view", "playbook", "row", "floor"}
  <2>1. Resume(q, x) = [q EXCEPT !.at = x]
    BY <1>5 DEF Resume
  <2> QED BY <1>5, <2>1 DEF Row
<1> QED BY <1>1, <1>2, <1>3, <1>4, <1>5

LEMMA BlankLocal == Local(Blank) /\ Apart(Blank) /\ Blank.task = None /\ Blank.at = "idle" /\ Blank.op = "idle"
  BY DEF Local, Apart, Blank, Scoring, Rescore

(* The steps of the desk itself that make no task. *)
DeskStep(r) ==
  \/ ReadCase(r) \/ SavePlaybook(r) \/ FirstPlaybook(r) \/ Rewrite(r)
  \/ ReadForEvidence(r) \/ MarkStep(r)
  \/ AttachRef(r) \/ InsertCase(r) \/ InsertRef(r)
  \/ EnsureTask(r) \/ LinkTask(r) \/ BackfillRow(r)
  \/ CloseCase(r) \/ ReadRefs(r) \/ SettleRef(r) \/ SettleTask(r)

Moved(r, n) == /\ req' = [req EXCEPT ![r] = n] /\ req[r].at # "idle"
               /\ Apart(req[r]) /\ Apart(n) /\ Local(n)
               /\ n.op = "resolve" => req[r].op = "resolve"
               /\ tasks' = tasks /\ flagged \subseteq flagged'

LEMMA AfterViewPoint ==
  ASSUME NEW q, q.at \in {"look", "lookSave"},
         q.op \in {"resolve", "step", "evidence", "regenerate"}
  PROVE /\ AfterView(q) \in {"close", "mark", "end", "evidence", "rewrite"}
        /\ q.op = "resolve" => AfterView(q) = "close"
        /\ q.op # "resolve" => AfterView(q) # "close"
  BY DEF AfterView

LEMMA ViewMoved ==
  ASSUME TypeInv, Located, NEW r \in Request, NEW q, q \in Row(q),
         q.op = req[r].op, q.at = req[r].at, q.at \in {"look", "lookSave", "view", "viewSave"}
  PROVE /\ Apart(Resume(q, AfterView(q))) /\ Local(Resume(q, AfterView(q)))
        /\ Resume(q, AfterView(q)).op = "resolve" => req[r].op = "resolve"
<1>1. Local(q)
  BY DEF Located, Local
<1>2. CASE q.at \in {"view", "viewSave"}
  <2>1. AfterView(q) = "end"
    BY <1>2 DEF AfterView
  <2> QED BY <2>1, Resumes, BlankLocal
<1>3. CASE q.at \in {"look", "lookSave"}
  <2>1. q.op \in {"resolve", "step", "evidence", "regenerate"}
    BY <1>3, AtType DEF Fits
  <2>2. PICK x : x = AfterView(q)
    OBVIOUS
  <2>3. /\ x \in {"close", "mark", "end", "evidence", "rewrite"}
        /\ q.op = "resolve" => x = "close"
    BY <1>3, <2>1, <2>2, AfterViewPoint
  <2>4. CASE x = "end"
    BY <2>2, <2>4, Resumes, BlankLocal
  <2>5. CASE x # "end"
    <3>1. Resume(q, x).at = x /\ Resume(q, x).op = q.op
      BY <2>3, <2>5, Resumes
    <3> QED BY <1>1, <2>1, <2>2, <2>3, <2>5, <3>1 DEF Local, Apart, Scoring, Rescore, Closing
  <2> QED BY <2>4, <2>5
<1> QED BY <1>2, <1>3

LEMMA CaseViewMoved ==
  ASSUME TypeInv, Located, NEW r \in Request, ReadCase(r) \/ SavePlaybook(r)
  PROVE \E n : Moved(r, n)
<1> DEFINE q == req[r]
<1>1. q \in Row(q) /\ Local(q) /\ q.at \in {"look", "view", "lookSave", "viewSave"}
  BY AtType DEF Located, ReadCase, SavePlaybook
<1>2. Apart(q) /\ q.at # "idle"
  BY <1>1 DEF Apart, Scoring, Rescore
<1>3. CASE ReadCase(r)
  <2> DEFINE read == [q EXCEPT !.play = cases[q.case].play,
                               !.task = IF q.op = "resolve" /\ q.at = "look"
                                        THEN cases[q.case].task ELSE @]
             n == IF read.play # None /\ read.play.ai
                  THEN Resume(read, AfterView(read))
                  ELSE [read EXCEPT !.at = IF q.at = "look" THEN "lookSave" ELSE "viewSave"]
  <2>1. req' = [req EXCEPT ![r] = n] /\ tasks' = tasks /\ flagged' = flagged
    BY <1>3 DEF ReadCase
  <2>2. read.op = q.op /\ read.at = q.at /\ read.at \in {"look", "view"} /\ read \in Row(read)
    <3>1. q.at \in {"look", "view"} /\ q.case \in Cases
      BY <1>3, AtType DEF ReadCase, Fits
    <3>2. cases[q.case].play \in Playbook \cup {None} /\ cases[q.case].task \in TaskId \cup {None}
      <4>1. cases[q.case] \in CaseRow
        BY <3>1, CaseType
      <4> QED BY <4>1 DEF CaseRow
    <3>3. PICK x \in Playbook \cup {None} : x = cases[q.case].play
      BY <3>2
    <3>4. PICK y \in TaskId \cup {None} :
            y = IF q.op = "resolve" /\ q.at = "look" THEN cases[q.case].task ELSE q.task
      BY <1>1, <3>2 DEF Row
    <3>5. read = [q EXCEPT !.play = x, !.task = y]
      BY <1>1, <3>3, <3>4 DEF Row
    <3> HIDE DEF read
    <3> QED BY <1>1, <3>1, <3>5 DEF Row
  <2> HIDE DEF read
  <2>3. CASE read.play # None /\ read.play.ai
    BY <1>2, <2>1, <2>2, <2>3, ViewMoved DEF Moved
  <2>4. CASE ~(read.play # None /\ read.play.ai)
    <3>1. n.at = (IF q.at = "look" THEN "lookSave" ELSE "viewSave") /\ n.op = q.op
      BY <2>2, <2>4 DEF Row
    <3> HIDE DEF n
    <3>2. Apart(n) /\ Local(n)
      BY <1>1, <2>2, <3>1 DEF Apart, Local, Scoring, Rescore, Closing
    <3> QED BY <1>2, <2>1, <3>1, <3>2 DEF Moved
  <2> QED BY <2>3, <2>4
<1>4. CASE SavePlaybook(r)
  <2>1. PICK b \in scope.books :
          LET saved == [q EXCEPT !.play = Merge(q.play, Fresh(b))]
          IN  req' = [req EXCEPT ![r] = Resume(saved, AfterView(saved))]
    BY <1>4 DEF SavePlaybook
  <2>2. Merge(q.play, Fresh(b)) \in Playbook
    BY <1>1, BookType DEF Row
  <2>3. PICK saved : saved = [q EXCEPT !.play = Merge(q.play, Fresh(b))]
    OBVIOUS
  <2>4. /\ saved.op = q.op /\ saved.at = q.at /\ saved \in Row(saved)
        /\ saved.at \in {"look", "lookSave", "view", "viewSave"}
    BY <1>1, <2>2, <2>3 DEF Row
  <2>5. req' = [req EXCEPT ![r] = Resume(saved, AfterView(saved))]
    BY <2>1, <2>3
  <2>6. tasks' = tasks /\ flagged' = flagged
    BY <1>4 DEF SavePlaybook
  <2> QED BY <1>2, <2>4, <2>5, <2>6, ViewMoved DEF Moved
<1> QED BY <1>3, <1>4

(* Steps that end in a view, or go on to the next point of their operation. *)
LEMMA ResumeMoved ==
  ASSUME TypeInv, Located, NEW r \in Request, NEW x,
         Apart(req[r]), req[r].at # "idle",
         req' = [req EXCEPT ![r] = Resume(req[r], x)], tasks' = tasks, flagged \subseteq flagged',
         x \notin Scoring \cup {"idle"}, x # "end",
         req[r].op = "resolve" => x = "view" \/ x \in {"look", "lookSave"} \cup Closing
  PROVE \E n : Moved(r, n)
<1>1. req[r] \in Row(req[r]) /\ Local(req[r])
  BY AtType DEF Located
<1>2. CASE x = "view"
  <2>1. Resume(req[r], x).at = "view" /\ Resume(req[r], x).op = "get"
    BY <1>1, <1>2, Resumes
  <2>2. Local(Resume(req[r], x)) /\ Apart(Resume(req[r], x))
    BY <2>1 DEF Local, Apart, Scoring, Rescore
  <2> QED BY <2>1, <2>2 DEF Moved
<1>3. CASE x # "view"
  <2>1. Resume(req[r], x).at = x /\ Resume(req[r], x).op = req[r].op
    BY <1>1, <1>3, Resumes DEF Scoring
  <2>2. Local(Resume(req[r], x)) /\ Apart(Resume(req[r], x))
    BY <1>1, <1>3, <2>1 DEF Local, Apart
  <2> QED BY <2>1, <2>2 DEF Moved
<1> QED BY <1>2, <1>3

LEMMA AtMoved ==
  ASSUME TypeInv, Located, NEW r \in Request, NEW n,
         Apart(req[r]), req[r].at # "idle",
         req' = [req EXCEPT ![r] = n], tasks' = tasks, flagged \subseteq flagged',
         n.op = req[r].op, n.at \notin Scoring \cup {"idle"},
         n.op = "resolve" => n.at \in {"look", "lookSave"} \cup Closing
  PROVE \E m : Moved(r, m)
<1>1. Local(req[r])
  BY DEF Located
<1>2. Apart(n) /\ Local(n)
  BY <1>1 DEF Local, Apart
<1> QED BY <1>2 DEF Moved

LEMMA DeskMoved ==
  ASSUME TypeInv, Located, NEW r \in Request, DeskStep(r)
  PROVE \E n : Moved(r, n)
<1> DEFINE q == req[r]
<1>1. q \in Row(q) /\ Local(q) /\ Fits(q.at, q, Tasks, Cases)
  BY AtType DEF Located
<1>2. CASE ReadCase(r) \/ SavePlaybook(r)
  BY <1>2, CaseViewMoved
<1>3. CASE FirstPlaybook(r) \/ Rewrite(r) \/ MarkStep(r)
  <2>1. /\ q.at \in {"playbook", "rewrite", "mark"} /\ req' = [req EXCEPT ![r] = Resume(q, "view")]
        /\ tasks' = tasks /\ flagged' = flagged
    BY <1>3 DEF FirstPlaybook, Rewrite, MarkStep
  <2> QED BY <2>1, ResumeMoved DEF Apart, Scoring, Rescore
<1>4. CASE ReadForEvidence(r)
  <2>1. q.at = "evidence" /\ q.op = "evidence" /\ tasks' = tasks /\ flagged' = flagged
    BY <1>1, <1>4 DEF ReadForEvidence, Fits
  <2>2. CASE req' = [req EXCEPT ![r] = Resume(q, "view")]
    BY <2>1, <2>2, ResumeMoved DEF Apart, Scoring, Rescore
  <2>3. CASE req' # [req EXCEPT ![r] = Resume(q, "view")]
    <3>1. PICK n : /\ n = [q EXCEPT !.at = "mark", !.play = cases[q.case].play,
                                    !.arg = [step |-> Evidence, done |-> TRUE]]
                   /\ req' = [req EXCEPT ![r] = n]
      BY <1>4, <2>3 DEF ReadForEvidence
    <3>2. n.op = q.op /\ n.at = "mark"
      BY <1>1, <3>1 DEF Row
    <3> QED BY <2>1, <3>1, <3>2, AtMoved DEF Apart, Scoring, Rescore
  <2> QED BY <2>2, <2>3
<1>5. CASE AttachRef(r) \/ InsertRef(r)
  <2>1. PICK x \in {"ensure", "view", "playbook"} :
          req' = [req EXCEPT ![r] = Resume(q, x)]
    BY <1>5 DEF AttachRef, InsertRef
  <2>2. q.at \in {"attach", "ref"} /\ q.op = "open" /\ tasks' = tasks /\ flagged' = flagged
    BY <1>1, <1>5 DEF AttachRef, InsertRef, Fits
  <2> QED BY <2>1, <2>2, ResumeMoved DEF Apart, Scoring, Rescore
<1>6. CASE InsertCase(r)
  <2>1. PICK n : n = [q EXCEPT !.at = "ref", !.case = FreeCase]
    OBVIOUS
  <2>2. q.at = "insert" /\ q.op = "open" /\ tasks' = tasks /\ flagged' = flagged
    BY <1>1, <1>6 DEF InsertCase, Fits
  <2>3. req' = [req EXCEPT ![r] = n]
    BY <1>6, <2>1 DEF InsertCase
  <2>4. n.op = q.op /\ n.at = "ref"
    BY <1>1, <2>1 DEF Row
  <2> QED BY <2>2, <2>3, <2>4, AtMoved DEF Apart, Scoring, Rescore
<1>7. AfterEnsure(q) \in {"row", "playbook", "view"}
  BY DEF AfterEnsure
<1>8. CASE EnsureTask(r)
  <2>1. q.at = "ensure" /\ q.op \in {"open", "backfill"} /\ tasks' = tasks /\ flagged \subseteq flagged'
    BY <1>1, <1>8 DEF EnsureTask, Fits
  <2>2. CASE req' = [req EXCEPT ![r] = Resume(q, AfterEnsure(q))]
    BY <1>7, <2>1, <2>2, ResumeMoved DEF Apart, Scoring, Rescore
  <2>3. CASE req' = [req EXCEPT ![r].at = "insertTask"]
    <3>1. PICK n : n = [q EXCEPT !.at = "insertTask"]
      OBVIOUS
    <3>2. n.op = q.op /\ n.at = "insertTask" /\ req' = [req EXCEPT ![r] = n]
      BY <1>1, <2>3, <3>1 DEF Row
    <3> QED BY <2>1, <3>2, AtMoved DEF Apart, Scoring, Rescore
  <2> QED BY <1>8, <2>2, <2>3 DEF EnsureTask
<1>9. CASE LinkTask(r)
  <2>1. /\ q.at = "link" /\ q.op \in {"open", "backfill"} /\ tasks' = tasks /\ flagged' = flagged
        /\ req' = [req EXCEPT ![r] = Resume(q, AfterEnsure(q))]
    BY <1>1, <1>9 DEF LinkTask, Fits
  <2> QED BY <1>7, <2>1, ResumeMoved DEF Apart, Scoring, Rescore
<1>10. CASE BackfillRow(r)
  <2>1. q.at = "row" /\ q.op = "backfill" /\ tasks' = tasks /\ flagged' = flagged
    BY <1>1, <1>10 DEF BackfillRow, Fits
  <2>2. CASE q.todo = {}
    <3>1. req' = [req EXCEPT ![r] = Blank]
      BY <1>10, <2>2 DEF BackfillRow
    <3> QED BY <2>1, <3>1, BlankLocal DEF Moved, Apart, Scoring, Rescore
  <2>3. CASE q.todo # {}
    <3>1. PICK c \in q.todo :
            req' = [req EXCEPT ![r] = [q EXCEPT !.at = "ensure", !.case = c,
                                                !.sig = cases[c].primary,
                                                !.links = BackfillCves(c), !.todo = @ \ {c}]]
      BY <1>10, <2>3 DEF BackfillRow
    <3>2. PICK n : n = [q EXCEPT !.at = "ensure", !.case = c, !.sig = cases[c].primary,
                                 !.links = BackfillCves(c), !.todo = @ \ {c}]
      OBVIOUS
    <3>3. n.op = q.op /\ n.at = "ensure" /\ req' = [req EXCEPT ![r] = n]
      BY <1>1, <3>1, <3>2 DEF Row
    <3> QED BY <2>1, <3>3, AtMoved DEF Apart, Scoring, Rescore
  <2> QED BY <2>2, <2>3
<1>11. CASE CloseCase(r)
  <2>1. PICK n : n = [q EXCEPT !.at = "refs"]
    OBVIOUS
  <2>2. /\ q.at = "close" /\ tasks' = tasks /\ flagged' = flagged
        /\ req' = [req EXCEPT ![r] = n] /\ n.op = q.op /\ n.at = "refs"
    BY <1>1, <1>11, <2>1 DEF CloseCase, Row
  <2> QED BY <2>2, AtMoved DEF Apart, Scoring, Rescore, Closing
<1>12. CASE ReadRefs(r)
  <2>1. PICK n : n = [q EXCEPT !.at = "settle", !.todo = RefsOf(q.case)]
    OBVIOUS
  <2>2. /\ q.at = "refs" /\ tasks' = tasks /\ flagged' = flagged
        /\ req' = [req EXCEPT ![r] = n] /\ n.op = q.op /\ n.at = "settle"
    BY <1>1, <1>12, <2>1 DEF ReadRefs, Row
  <2> QED BY <2>2, AtMoved DEF Apart, Scoring, Rescore, Closing
<1>13. CASE SettleRef(r)
  <2>1. PICK s \in q.todo : req' = [req EXCEPT ![r].todo = @ \ {s}]
    BY <1>13 DEF SettleRef
  <2>2. PICK n : n = [q EXCEPT !.todo = @ \ {s}]
    OBVIOUS
  <2>3. /\ q.at = "settle" /\ tasks' = tasks /\ flagged' = flagged
        /\ req' = [req EXCEPT ![r] = n] /\ n.op = q.op /\ n.at = "settle"
    BY <1>1, <1>13, <2>1, <2>2 DEF SettleRef, Row
  <2> QED BY <2>3, AtMoved DEF Apart, Scoring, Rescore, Closing
<1>14. CASE SettleTask(r)
  <2>1. PICK x \in {"view", "patch"} : req' = [req EXCEPT ![r] = Resume(q, x)]
    BY <1>14 DEF SettleTask
  <2>2. q.at = "settle" /\ tasks' = tasks /\ flagged' = flagged
    BY <1>14 DEF SettleTask
  <2> QED BY <2>1, <2>2, ResumeMoved DEF Apart, Scoring, Rescore, Closing
<1> QED BY <1>2, <1>3, <1>4, <1>5, <1>6, <1>8, <1>9, <1>10, <1>11, <1>12, <1>13, <1>14
        DEF DeskStep

-----------------------------------------------------------------------------
(* What the requests know of a task nobody has disturbed. *)

(* A recompute of the row has read what is there, and a task that is lifted *)
(* to its floor is an open one, of a case.                                  *)
Held(q, row) ==
  /\ q.at \in {"status", "score"} => q.links = row.links
  /\ q.at = "score" => q.seen = row.status
  /\ q.op \in Maker /\ q.at \in Scoring => row.case # None /\ row.status # "closed"

(* The score of a row is the one of its links and its status, or the floor. *)
Right(row) ==
  \/ row.score = FinalScore(row.links, row.status)
  \/ /\ row.case # None /\ row.status # "closed"
     /\ row.score = Max({FinalScore(row.links, row.status), ScoreFloor(row.priority)})

Rescores(q, t) == q.task = t /\ q.at \in Rescore
ScoredAt(t) == /\ \A r \in Request : req[r].task = t => Held(req[r], tasks[t])
               /\ (\A r \in Request : ~Rescores(req[r], t)) => Right(tasks[t])
Scored == \A t \in Tasks \ flagged : ScoredAt(t)

(* Of t, n knows no more than q did, and owes a score if q did. *)
Follows(q, n, t) ==
  /\ n.task = t /\ n.at \in {"status", "score"} =>
       q.task = t /\ q.at = n.at /\ q.links = n.links /\ q.seen = n.seen
  /\ n.task = t /\ n.op \in Maker /\ n.at \in Scoring =>
       q.task = t /\ q.op = n.op /\ q.at \in Scoring
  /\ Rescores(q, t) => Rescores(n, t)

LEMMA FrameAt ==
  ASSUME NEW t, ScoredAt(t), tasks'[t] = tasks[t],
         \A s \in Request : Follows(req[s], req'[s], t)
  PROVE ScoredAt(t)'
<1>1. ASSUME NEW s \in Request, req'[s].task = t PROVE Held(req'[s], tasks[t])
  <2>1. req[s].task = t => Held(req[s], tasks[t])
    BY DEF ScoredAt
  <2>2. Follows(req[s], req'[s], t)
    OBVIOUS
  <2> QED BY <1>1, <2>1, <2>2 DEF Held, Follows
<1>2. (\A s \in Request : ~Rescores(req'[s], t)) => Right(tasks[t])
  BY DEF ScoredAt, Follows
<1> QED BY <1>1, <1>2 DEF ScoredAt, Rescores

(* Steps that write no task. *)
LEMMA Frame ==
  ASSUME Scored, tasks' = tasks, flagged \subseteq flagged',
         \A s \in Request, t \in Tasks \ flagged' : Follows(req[s], req'[s], t)
  PROVE Scored'
<1> SUFFICES ASSUME NEW t \in Tasks' \ flagged' PROVE ScoredAt(t)'
  BY DEF Scored
<1>1. t \in Tasks \ flagged
  BY DEF Tasks
<1> QED BY <1>1, FrameAt DEF Scored

LEMMA MovedFollows ==
  ASSUME TypeInv, Located, NEW r \in Request, NEW n, Moved(r, n)
  PROVE /\ Located'
        /\ Scored => Scored'
<1>1. \A s \in Request : req'[s] = IF s = r THEN n ELSE req[s]
  BY DEF TypeInv, ReqOK, Moved
<1>2. Located'
  BY <1>1 DEF Located, Moved
<1>3. \A s \in Request, t \in Tasks \ flagged' : Follows(req[s], req'[s], t)
  BY <1>1 DEF Moved, Follows, Apart, Scoring, Rescore, Rescores
<1> QED BY <1>2, <1>3, Frame DEF Moved

(* A step of one request that writes its own task u. *)
LEMMA Elsewhere ==
  ASSUME TypeInv, Scored, NEW r \in Request, NEW n, NEW u \in Tasks,
         req[r].task = u, n.task \in {u, None}, req' = [req EXCEPT ![r] = n],
         \A t \in TaskId \ {u} : tasks'[t] = tasks[t],
         flagged \ {u} \subseteq flagged', u \notin flagged' => ScoredAt(u)'
  PROVE Scored'
<1> SUFFICES ASSUME NEW t \in Tasks' \ flagged', t # u PROVE ScoredAt(t)'
  BY DEF Scored
<1>1. t \in Tasks \ flagged /\ tasks'[t] = tasks[t]
  BY DEF Tasks
<1>2. \A s \in Request : req'[s] = IF s = r THEN n ELSE req[s]
  BY DEF TypeInv, ReqOK
<1>3. t # None
  BY IdentityAssumption DEF Tasks
<1>4. \A s \in Request : Follows(req[s], req'[s], t)
  BY <1>2, <1>3 DEF Follows, Rescores
<1> QED BY <1>1, <1>4, FrameAt DEF Scored

LEMMA Written ==
  ASSUME TypeInv, NEW u \in Tasks, NEW w, tasks' = [tasks EXCEPT ![u] = w]
  PROVE tasks'[u] = w /\ \A t \in TaskId \ {u} : tasks'[t] = tasks[t]
  BY DEF TypeInv, TypeOK, RowsOK, Tasks

LEMMA RowAt ==
  ASSUME TypeInv, NEW u \in Tasks
  PROVE tasks[u] \in TaskRow /\ u \in TaskId
  BY DEF TypeInv, TypeOK, RowsOK, Tasks

LEMMA FloorOf == ASSUME NEW q PROVE AfterScore(q) = "floor" <=> q.op \in Maker
  BY DEF AfterScore, Maker

(* Nobody else knows anything of a task whose change flags nothing. *)
LEMMA Undisturbed ==
  ASSUME NEW r \in Request, NEW u, NEW points, Disturb(r, u, points), u \notin flagged'
  PROVE /\ u \notin flagged
        /\ \A s \in Request \ {r} : req[s].task = u =>
             /\ req[s].at \notin points
             /\ ~(req[s].op \in Maker /\ req[s].at \in Scoring)
<1>1. ~Rescoring(r, u, points) /\ u \notin flagged
  BY DEF Disturb
<1> QED BY <1>1, FloorOf DEF Rescoring, Scoring, Rescore

LEMMA DisturbGrows ==
  ASSUME NEW r, NEW u, NEW points, Disturb(r, u, points)
  PROVE flagged \subseteq flagged'
  BY DEF Disturb

-----------------------------------------------------------------------------
(* The steps of the task service. *)

LEMMA OneMoves ==
  ASSUME TypeInv, Located, NEW r \in Request, NEW n, req' = [req EXCEPT ![r] = n], Local(n)
  PROVE /\ Located'
        /\ req'[r] = n
        /\ \A s \in Request \ {r} : req'[s] = req[s]
<1>1. \A s \in Request : req'[s] = IF s = r THEN n ELSE req[s]
  BY DEF TypeInv, ReqOK
<1> QED BY <1>1 DEF Located

LEMMA LinkCvesScored ==
  ASSUME TypeInv, Located, NEW r \in Request, LinkCves(r)
  PROVE Located' /\ (Scored => Scored')
<1> DEFINE q == req[r]
<1>1. PICK u \in Tasks : q \in Row(q) /\ q.at = "links" /\ u = q.task /\ Local(q)
  BY AtType DEF LinkCves, Fits, Located
<1> DEFINE w == [tasks[u] EXCEPT !.links = @ \cup q.links]
<1>2. PICK n : n = [q EXCEPT !.at = "read"]
  OBVIOUS
<1>3. /\ n.at = "read" /\ n.op = q.op /\ n.task = u /\ Local(n)
  BY <1>1, <1>2 DEF Row, Local, Closing
<1>4. req' = [req EXCEPT ![r] = n] /\ Disturb(r, u, {"status", "score"})
  BY <1>1, <1>2 DEF LinkCves
<1>5. Located' /\ req'[r] = n /\ \A s \in Request \ {r} : req'[s] = req[s]
  BY <1>3, <1>4, OneMoves
<1>6. tasks'[u] = w /\ \A t \in TaskId \ {u} : tasks'[t] = tasks[t]
  <2>1. tasks' = [tasks EXCEPT ![u] = w]
    BY <1>1 DEF LinkCves
  <2> HIDE DEF w
  <2> QED BY <2>1, Written
<1>7. w.case = tasks[u].case /\ w.status = tasks[u].status
  BY <1>1, RowAt DEF TaskRow
<1>8. ASSUME Scored, u \notin flagged' PROVE ScoredAt(u)'
  <2> HIDE DEF w
  <2>1. /\ u \notin flagged
        /\ \A s \in Request \ {r} : req[s].task = u =>
             /\ req[s].at \notin {"status", "score"}
             /\ ~(req[s].op \in Maker /\ req[s].at \in Scoring)
    BY <1>4, <1>8, Undisturbed
  <2>2. Held(q, tasks[u])
    BY <1>1, <1>8, <2>1 DEF Scored, ScoredAt
  <2>3. Held(n, w)
    BY <1>1, <1>3, <1>7, <2>2 DEF Held, Scoring, Rescore
  <2>4. \A s \in Request \ {r} : req[s].task = u => Held(req[s], w)
    BY <2>1 DEF Held
  <2>5. Rescores(n, u)
    BY <1>3 DEF Rescores, Rescore
  <2> QED BY <1>5, <1>6, <2>3, <2>4, <2>5 DEF ScoredAt
<1>9. flagged \subseteq flagged'
  BY <1>4, DisturbGrows
<1> QED BY <1>1, <1>3, <1>4, <1>5, <1>6, <1>8, <1>9, Elsewhere

LEMMA ReadsScored ==
  ASSUME TypeInv, Located, NEW r \in Request, ReadLinks(r) \/ ReadStatus(r)
  PROVE Located' /\ (Scored => Scored')
<1> DEFINE q == req[r]
<1>1. PICK u \in Tasks :
        /\ q \in Row(q) /\ q.at \in {"read", "status"} /\ u = q.task /\ Local(q)
        /\ tasks' = tasks /\ flagged' = flagged
  BY AtType DEF ReadLinks, ReadStatus, Fits, Located
<1>2. PICK row \in TaskRow : row = tasks[u]
  BY <1>1, RowAt
<1>3. PICK n : /\ req' = [req EXCEPT ![r] = n] /\ n.op = q.op /\ n.task = u
               /\ n.at \in {"status", "score"}
               /\ u \notin flagged /\ Scored => Held(n, row)
  <2>1. CASE ReadLinks(r)
    <3>1. PICK n : n = [q EXCEPT !.at = "status", !.links = row.links]
      OBVIOUS
    <3>2. req' = [req EXCEPT ![r] = n]
      BY <1>1, <1>2, <2>1, <3>1 DEF ReadLinks
    <3>3. n.op = q.op /\ n.task = u /\ n.at = "status" /\ n.links = row.links
      BY <1>1, <3>1 DEF Row
    <3>4. u \notin flagged /\ Scored => Held(q, row)
      BY <1>1, <1>2 DEF Scored, ScoredAt
    <3>5. q.at = "read"
      BY <2>1 DEF ReadLinks
    <3> QED BY <3>2, <3>3, <3>4, <3>5 DEF Held, Scoring, Rescore
  <2>2. CASE ReadStatus(r)
    <3>1. PICK n : n = [q EXCEPT !.at = "score", !.seen = row.status]
      OBVIOUS
    <3>2. req' = [req EXCEPT ![r] = n]
      BY <1>1, <1>2, <2>2, <3>1 DEF ReadStatus
    <3>3. /\ n.op = q.op /\ n.task = u /\ n.at = "score" /\ n.links = q.links
          /\ n.seen = row.status
      BY <1>1, <3>1 DEF Row
    <3>4. u \notin flagged /\ Scored => Held(q, row)
      BY <1>1, <1>2 DEF Scored, ScoredAt
    <3>5. q.at = "status"
      BY <2>2 DEF ReadStatus
    <3> QED BY <3>2, <3>3, <3>4, <3>5 DEF Held, Scoring, Rescore
  <2> QED BY <2>1, <2>2
<1>4. Local(n)
  BY <1>1, <1>3 DEF Local, Closing
<1>5. Located' /\ req'[r] = n /\ \A s \in Request \ {r} : req'[s] = req[s]
  BY <1>3, <1>4, OneMoves
<1>6. ASSUME Scored, u \notin flagged' PROVE ScoredAt(u)'
  <2>1. Rescores(n, u)
    BY <1>3 DEF Rescores, Rescore
  <2>2. \A s \in Request \ {r} : req[s].task = u => Held(req[s], row)
    BY <1>1, <1>2, <1>6 DEF Scored, ScoredAt
  <2> QED BY <1>1, <1>2, <1>3, <1>5, <1>6, <2>1, <2>2 DEF ScoredAt
<1> QED BY <1>1, <1>3, <1>5, <1>6, Elsewhere

LEMMA WriteScoreScored ==
  ASSUME TypeInv, Located, NEW r \in Request, WriteScore(r)
  PROVE Located' /\ (Scored => Scored')
<1> DEFINE q == req[r]
<1>1. PICK u \in Tasks :
        q \in Row(q) /\ q.at = "score" /\ u = q.task /\ Local(q)
  BY AtType DEF WriteScore, Fits, Located
<1> DEFINE w == [tasks[u] EXCEPT !.score = FinalScore(q.links, q.seen)]
<1>2. PICK x : x = AfterScore(q)
  OBVIOUS
<1>3. PICK n : n = Resume(q, x)
  OBVIOUS
<1>4. req' = [req EXCEPT ![r] = n]
  BY <1>2, <1>3 DEF WriteScore
<1>5. x \in {"floor", "view", "end"} /\ (x = "floor" <=> q.op \in Maker)
  BY <1>2 DEF AfterScore, Maker
<1>6. /\ n.task \in {u, None} /\ Local(n) /\ n.at \notin Rescore
      /\ n.op \in Maker /\ n.at \in Scoring => q.op \in Maker
  <2>1. CASE x = "floor"
    <3>1. n.at = "floor" /\ n.op = q.op /\ n.task = u
      BY <1>1, <1>3, <2>1, Resumes
    <3> QED BY <1>1, <1>5, <2>1, <3>1 DEF Local, Rescore, Maker
  <2>2. CASE x = "view"
    <3>1. n.at = "view" /\ n.op = "get" /\ n.task = None
      BY <1>1, <1>3, <2>2, Resumes
    <3> QED BY <3>1 DEF Local, Rescore, Maker
  <2>3. CASE x = "end"
    <3>1. n = Blank
      BY <1>1, <1>3, <2>3, Resumes
    <3> QED BY <3>1, BlankLocal DEF Rescore, Apart, Scoring
  <2> QED BY <1>5, <2>1, <2>2, <2>3
<1>7. Located' /\ req'[r] = n /\ \A s \in Request \ {r} : req'[s] = req[s]
  BY <1>4, <1>6, OneMoves
<1>8. tasks'[u] = w /\ \A t \in TaskId \ {u} : tasks'[t] = tasks[t]
  <2>1. tasks' = [tasks EXCEPT ![u] = w]
    BY <1>1 DEF WriteScore
  <2> HIDE DEF w
  <2> QED BY <2>1, Written
<1>9. PICK row \in TaskRow : row = tasks[u]
  BY <1>1, RowAt
<1>10. /\ w.case = row.case /\ w.status = row.status /\ w.links = row.links
       /\ w.score = FinalScore(q.links, q.seen)
  BY <1>9 DEF TaskRow
<1>11. /\ flagged \ {u} \subseteq flagged'
       /\ u \in flagged /\ u \notin flagged' =>
            /\ q.links = row.links /\ q.seen = row.status
            /\ x # "floor" /\ ~Rescoring(r, u, {"status", "score"})
  BY <1>1, <1>2, <1>9 DEF WriteScore
<1>12. ASSUME Scored, u \notin flagged' PROVE ScoredAt(u)'
  <2> HIDE DEF w
  <2>1. /\ q.links = row.links /\ q.seen = row.status
        /\ \A s \in Request \ {r} : req[s].task = u => Held(req[s], row)
        /\ q.op \in Maker => row.case # None /\ row.status # "closed"
    <3>1. CASE u \notin flagged
      <4>1. Held(q, row) /\ \A s \in Request : req[s].task = u => Held(req[s], row)
        BY <1>1, <1>9, <1>12, <3>1 DEF Scored, ScoredAt
      <4> QED BY <1>1, <4>1 DEF Held, Scoring, Rescore
    <3>2. CASE u \in flagged
      <4>1. /\ q.links = row.links /\ q.seen = row.status /\ x # "floor"
            /\ ~Rescoring(r, u, {"status", "score"})
        BY <1>11, <1>12, <3>2
      <4>2. \A s \in Request \ {r} : req[s].task = u =>
              /\ req[s].at \notin {"status", "score"}
              /\ ~(req[s].op \in Maker /\ req[s].at \in Scoring)
        BY <4>1, FloorOf DEF Rescoring, Scoring, Rescore
      <4>3. \A s \in Request \ {r} : req[s].task = u => Held(req[s], row)
        BY <4>2 DEF Held
      <4> QED BY <1>5, <4>1, <4>3
    <3> QED BY <3>1, <3>2
  <2>2. Right(w)
    BY <1>10, <2>1 DEF Right
  <2>3. Held(n, w)
    BY <1>6, <1>10, <2>1 DEF Held, Rescore
  <2>4. \A s \in Request \ {r} : req[s].task = u => Held(req[s], w)
    BY <1>10, <2>1 DEF Held
  <2> QED BY <1>7, <1>8, <2>2, <2>3, <2>4 DEF ScoredAt
<1> QED BY <1>1, <1>4, <1>6, <1>7, <1>8, <1>11, <1>12, Elsewhere

LEMMA MaxTwice ==
  ASSUME NEW a \in 0..100, NEW b \in 0..100
  PROVE Max({Max({a, b}), b}) = Max({a, b})
<1>1. ASSUME NEW c \in 0..100, NEW d \in 0..100, c >= d PROVE Max({c, d}) = c
  BY <1>1 DEF Max
<1>2. ASSUME NEW c \in 0..100, NEW d \in 0..100, c <= d PROVE Max({c, d}) = d
  BY <1>2 DEF Max
<1>3. CASE a >= b
  BY <1>1, <1>3
<1>4. CASE a <= b
  <2>1. Max({a, b}) = b
    BY <1>2, <1>4
  <2>2. Max({b, b}) = b
    BY DEF Max
  <2> QED BY <2>1, <2>2
<1> QED BY <1>3, <1>4

LEMMA KeepFloorScored ==
  ASSUME TypeInv, Located, NEW r \in Request, KeepFloor(r)
  PROVE Located' /\ (Scored => Scored')
<1> DEFINE q == req[r]
<1>1. PICK u \in Tasks :
        q \in Row(q) /\ q.at = "floor" /\ u = q.task /\ Local(q) /\ q.op \in Maker
  BY AtType DEF KeepFloor, Fits, Located, Maker
<1>2. PICK row \in TaskRow : row = tasks[u]
  BY <1>1, RowAt
<1> DEFINE f == ScoreFloor(row.priority)
           w == [row EXCEPT !.score = Max({@, f})]
<1>3. PICK n : n = [q EXCEPT !.at = "link"]
  OBVIOUS
<1>4. n.at = "link" /\ n.task = u /\ n.op = q.op /\ Local(n)
  BY <1>1, <1>3 DEF Row, Local, Maker
<1>5. req' = [req EXCEPT ![r] = n] /\ flagged' = flagged
  BY <1>3 DEF KeepFloor
<1>6. Located' /\ req'[r] = n /\ \A s \in Request \ {r} : req'[s] = req[s]
  BY <1>4, <1>5, OneMoves
<1>7. tasks'[u] = w /\ \A t \in TaskId \ {u} : tasks'[t] = tasks[t]
  <2>1. tasks' = [tasks EXCEPT ![u] = w]
    BY <1>1, <1>2 DEF KeepFloor
  <2> HIDE DEF w
  <2> QED BY <2>1, Written
<1>8. /\ w.case = row.case /\ w.status = row.status /\ w.links = row.links
      /\ w.priority = row.priority /\ w.score = Max({row.score, f})
  BY DEF TaskRow
<1>9. ASSUME Scored, u \notin flagged' PROVE ScoredAt(u)'
  <2> DEFINE g == FinalScore(row.links, row.status)
  <2> HIDE DEF w
  <2>1. /\ \A s \in Request : req[s].task = u => Held(req[s], row)
        /\ (\A s \in Request : ~Rescores(req[s], u)) => Right(row)
    BY <1>2, <1>5, <1>9 DEF Scored, ScoredAt
  <2>2. row.case # None /\ row.status # "closed"
    BY <1>1, <2>1 DEF Held, Scoring
  <2>3. ASSUME \A s \in Request : ~Rescores(req'[s], u) PROVE Right(w)
    <3>1. ~Rescores(q, u)
      BY <1>1 DEF Rescores, Rescore
    <3>2. \A s \in Request : ~Rescores(req[s], u)
      BY <1>6, <2>3, <3>1
    <3>3. row.score = g \/ row.score = Max({g, f})
      BY <2>1, <3>2 DEF Right
    <3>4. f \in 0..100 /\ g \in 0..100
      BY ScoreType, FloorType DEF TaskRow
    <3>5. w.score = Max({g, f})
      BY <1>8, <3>3, <3>4, MaxTwice
    <3> QED BY <1>8, <2>2, <3>5 DEF Right
  <2>4. \A s \in Request \ {r} : req[s].task = u => Held(req[s], w)
    BY <1>8, <2>1 DEF Held
  <2>5. Held(n, w)
    BY <1>4 DEF Held, Scoring, Rescore
  <2> QED BY <1>6, <1>7, <2>3, <2>4, <2>5 DEF ScoredAt
<1> QED BY <1>1, <1>4, <1>5, <1>6, <1>7, <1>9, Elsewhere

LEMMA SelectTaskScored ==
  ASSUME TypeInv, Located, NEW r \in Request, SelectTask(r)
  PROVE Located' /\ (Scored => Scored')
<1> DEFINE q == req[r]
<1>1. q \in Row(q) /\ q.at = "patch" /\ Local(q)
  BY AtType DEF SelectTask, Located
<1>2. PICK n : n = [q EXCEPT !.at = "update", !.seen = tasks[q.task].status]
  OBVIOUS
<1>3. n.at = "update" /\ n.op = q.op
  BY <1>1, <1>2 DEF Row
<1>4. req' = [req EXCEPT ![r] = n] /\ tasks' = tasks /\ flagged' = flagged
  BY <1>2 DEF SelectTask
<1>5. Local(n) /\ Apart(n) /\ Apart(q) /\ q.at # "idle"
  BY <1>1, <1>3 DEF Local, Apart, Scoring, Rescore, Closing
<1> QED BY <1>3, <1>4, <1>5, MovedFollows DEF Moved

LEMMA UpdateTaskScored ==
  ASSUME TypeInv, Located, NEW r \in Request, UpdateTask(r)
  PROVE Located' /\ (Scored => Scored')
<1> DEFINE q == req[r]
<1>1. PICK u \in Tasks :
        /\ q \in Row(q) /\ q.at = "update" /\ u = q.task /\ Local(q)
        /\ q.op \in {"patch", "resolve"}
  BY AtType DEF UpdateTask, Fits, Located
<1>2. PICK row \in TaskRow : row = tasks[u]
  BY <1>1, RowAt
<1>3. PICK n : n = [q EXCEPT !.at = "read"]
  OBVIOUS
<1>4. n.at = "read" /\ n.task = u /\ n.op = q.op /\ Local(n)
  BY <1>1, <1>3 DEF Row, Local, Closing
<1>5. req' = [req EXCEPT ![r] = n]
  BY <1>3 DEF UpdateTask
<1>6. Located' /\ req'[r] = n /\ \A s \in Request \ {r} : req'[s] = req[s]
  BY <1>4, <1>5, OneMoves
<1>7. PICK st : st = Patched(q.arg, q.seen)
  OBVIOUS
<1> DEFINE w == [row EXCEPT !.status = st]
<1>8. CASE st = None
  <2>1. tasks' = tasks /\ flagged' = flagged
    BY <1>7, <1>8 DEF UpdateTask
  <2>2. ASSUME Scored, u \notin flagged' PROVE ScoredAt(u)'
    <3>1. \A s \in Request \ {r} : req[s].task = u => Held(req[s], row)
      BY <1>2, <2>1, <2>2 DEF Scored, ScoredAt
    <3>2. Held(n, row) /\ Rescores(n, u)
      BY <1>1, <1>4 DEF Held, Maker, Rescores, Rescore
    <3> QED BY <1>2, <1>6, <2>1, <3>1, <3>2 DEF ScoredAt
  <2> QED BY <1>1, <1>4, <1>5, <1>6, <2>1, <2>2, Elsewhere
<1>9. CASE st # None
  <2>1. tasks' = [tasks EXCEPT ![u] = w] /\ Disturb(r, u, {"score"})
    BY <1>1, <1>2, <1>7, <1>9 DEF UpdateTask
  <2>2. w.links = row.links
    BY DEF TaskRow
  <2> HIDE DEF w
  <2>3. tasks'[u] = w /\ \A t \in TaskId \ {u} : tasks'[t] = tasks[t]
    BY <2>1, Written
  <2>4. flagged \subseteq flagged'
    BY <2>1, DisturbGrows
  <2>5. ASSUME Scored, u \notin flagged' PROVE ScoredAt(u)'
    <3>1. /\ u \notin flagged
          /\ \A s \in Request \ {r} : req[s].task = u =>
               req[s].at # "score" /\ ~(req[s].op \in Maker /\ req[s].at \in Scoring)
      BY <2>1, <2>5, Undisturbed
    <3>2. \A s \in Request \ {r} : req[s].task = u => Held(req[s], row)
      BY <1>2, <2>5, <3>1 DEF Scored, ScoredAt
    <3>3. \A s \in Request \ {r} : req[s].task = u => Held(req[s], w)
      BY <2>2, <3>1, <3>2 DEF Held
    <3>4. Held(n, w) /\ Rescores(n, u)
      BY <1>1, <1>4 DEF Held, Maker, Rescores, Rescore
    <3> QED BY <1>6, <2>3, <3>3, <3>4 DEF ScoredAt
  <2> QED BY <1>1, <1>4, <1>5, <1>6, <2>3, <2>4, <2>5, Elsewhere
<1> QED BY <1>8, <1>9

LEMMA TaskStepScored ==
  ASSUME TypeInv, Located, NEW r \in Request, TaskStep(r)
  PROVE Located' /\ (Scored => Scored')
  BY LinkCvesScored, ReadsScored, WriteScoreScored, KeepFloorScored, SelectTaskScored,
     UpdateTaskScored DEF TaskStep

-----------------------------------------------------------------------------
(* Requests that arrive, and steps of them all. *)

Lonely(q) == [q EXCEPT !.alone = FALSE]

LEMMA LonelyFollows ==
  ASSUME NEW q, q \in Row(q), NEW t
  PROVE /\ Local(q) => Local(Lonely(q))
        /\ Follows(q, Lonely(q), t)
        /\ Lonely(q).task = q.task /\ Lonely(q).at = q.at /\ Lonely(q).op = q.op
        /\ Lonely(q).links = q.links /\ Lonely(q).seen = q.seen
<1>1. PICK p : p = Lonely(q)
  OBVIOUS
<1>2. /\ p.op = q.op /\ p.at = q.at /\ p.task = q.task /\ p.links = q.links
      /\ p.seen = q.seen
  BY <1>1 DEF Row, Lonely
<1> QED BY <1>1, <1>2 DEF Local, Follows, Rescores

(* A request that arrives keeps company with those under way; only a       *)
(* resolve that finds nobody is alone.                                     *)
Resolves(q) == q.op = "resolve" /\ q.alone
Joins(r) == /\ Idle(r) /\ \A s \in Request \ {r} : req'[s] = Lonely(req[s])
            /\ Resolves(req'[r]) => req'[r].at = "look" /\ \A u \in Request : Idle(u)

(* A request that begins. *)
LEMMA BeginsScored ==
  ASSUME TypeInv, Located, NEW r \in Request, NEW op \in Ops, NEW q, q \in Row(q),
         Begin(r, op, q), q.at \in Point \ {"idle", "status", "score", "floor"},
         op \in Maker => q.at \notin Scoring,
         op = "resolve" => q.at = "look", op # "idle"
  PROVE /\ Located'
        /\ req[r].op = "idle" /\ req[r].at = "idle"
        /\ req'[r].at = q.at /\ req'[r].task = q.task /\ req'[r].op = op
        /\ \A s \in Request \ {r} : req'[s] = Lonely(req[s])
        /\ \A s \in Request : \A t : Follows(req[s], req'[s], t)
        /\ Joins(r)
<1>1. PICK a \in BOOLEAN :
        /\ req' = [s \in Request |->
                     IF s = r THEN [q EXCEPT !.op = op, !.alone = a] ELSE Lonely(req[s])]
        /\ a = (op = "resolve" /\ \A u \in Request : Idle(u))
  BY DEF Begin, Lonely
<1>2. PICK n : n = [q EXCEPT !.op = op, !.alone = a]
  OBVIOUS
<1>3. n.op = op /\ n.at = q.at /\ n.task = q.task /\ n.alone = a
  BY <1>2 DEF Row
<1>4. req'[r] = n /\ \A s \in Request \ {r} : req'[s] = Lonely(req[s])
  BY <1>1, <1>2
<1>5. \A s \in Request : req[s] \in Row(req[s]) /\ Local(req[s])
  BY AtType DEF Located
<1>6. req[r].op = "idle" /\ req[r].at = "idle"
  BY <1>5 DEF Begin, Idle, Local
<1>7. Local(n)
  BY <1>3 DEF Local
<1>8. Located'
  BY <1>4, <1>5, <1>7, LonelyFollows DEF Located
<1>9. ASSUME NEW s \in Request, NEW t PROVE Follows(req[s], req'[s], t)
  <2>1. CASE s = r
    BY <1>3, <1>4, <1>6, <2>1 DEF Follows, Rescores, Rescore
  <2>2. CASE s # r
    BY <1>4, <1>5, <2>2, LonelyFollows
  <2> QED BY <2>1, <2>2
<1>10. Joins(r)
  BY <1>1, <1>3, <1>4 DEF Joins, Resolves, Begin
<1> QED BY <1>3, <1>4, <1>6, <1>8, <1>9, <1>10

LEMMA ArrivesScored ==
  ASSUME TypeInv, Located, NEW r \in Request, NEW op \in Ops, NEW q, q \in Row(q),
         Begin(r, op, q), q.at \in Point \ {"idle", "status", "score", "floor"},
         op \in Maker => q.at \notin Scoring,
         op = "resolve" => q.at = "look", op # "idle",
         tasks' = tasks, flagged \subseteq flagged'
  PROVE Located' /\ (Scored => Scored') /\ Joins(r)
<1>1. Located' /\ Joins(r) /\ \A s \in Request : \A t : Follows(req[s], req'[s], t) /\ Joins(r)
  BY BeginsScored
<1>2. \A s \in Request, t \in Tasks \ flagged' : Follows(req[s], req'[s], t)
  BY <1>1
<1> QED BY <1>1, <1>2, Frame

LEMMA OpenCaseScored ==
  ASSUME TypeInv, Located, NEW r \in Request, NEW s \in Signal, NEW want,
         OpenCase(r, s, want)
  PROVE Located' /\ (Scored => Scored') /\ Joins(r)
<1> DEFINE q == [Blank EXCEPT !.sig = s, !.links = CveOf[s]]
           found == {c \in CaseId : Merges(c, DedupKey(s))}
<1>1. CveOf[s] \subseteq CVE /\ "open" \in Ops
  BY DeskAssumption
<1>2. tasks' = tasks /\ flagged \subseteq flagged'
  BY DEF OpenCase
<1>3. ASSUME NEW m, m \in Row(m), m.at \in {"attach", "insert"}, Begin(r, "open", m)
      PROVE Located' /\ (Scored => Scored') /\ Joins(r)
  BY <1>1, <1>2, <1>3, ArrivesScored DEF Scoring, Rescore, Point
<1>4. CASE found # {}
  <2>1. PICK c \in CaseId :
          Begin(r, "open", [q EXCEPT !.at = "attach", !.case = c,
                                     !.arg = [want |-> want, new |-> FALSE]])
    BY <1>4 DEF OpenCase
  <2> DEFINE m == [q EXCEPT !.at = "attach", !.case = c,
                            !.arg = [want |-> want, new |-> FALSE]]
  <2>2. m \in Row(m) /\ m.at = "attach"
    BY <1>1 DEF Row, Blank, Point
  <2> HIDE DEF m
  <2>3. Begin(r, "open", m)
    BY <2>1 DEF m
  <2> QED BY <1>3, <2>2, <2>3
<1>5. CASE found = {}
  <2> DEFINE m == [q EXCEPT !.at = "insert", !.arg = [want |-> want, new |-> TRUE]]
  <2>1. Begin(r, "open", m)
    BY <1>5 DEF OpenCase
  <2>2. m \in Row(m) /\ m.at = "insert"
    BY <1>1 DEF Row, Blank, Point
  <2> HIDE DEF m
  <2> QED BY <1>3, <2>1, <2>2
<1> QED BY <1>4, <1>5

LEMMA AskBackfillScored ==
  ASSUME TypeInv, Located, NEW r \in Request, AskBackfill(r)
  PROVE Located' /\ (Scored => Scored') /\ Joins(r)
<1>1. "backfill" \in Ops
  BY DeskAssumption
<1>2. PICK S : S = {c \in CaseId : LacksTask(c)}
  OBVIOUS
<1> DEFINE q == [Blank EXCEPT !.at = "row", !.todo = S]
<1>3. Begin(r, "backfill", q) /\ S \subseteq CaseId
  BY <1>2 DEF AskBackfill, Backfill
<1>4. q \in Row(q) /\ q.at = "row"
  BY <1>3 DEF Row, Blank, Point
<1>5. tasks' = tasks /\ flagged \subseteq flagged'
  BY DEF AskBackfill
<1> HIDE DEF q
<1> QED BY <1>1, <1>3, <1>4, <1>5, ArrivesScored DEF Scoring, Rescore, Point

LEMMA SetStatusScored ==
  ASSUME TypeInv, Located, NEW r \in Request, NEW c \in Cases, NEW st, SetStatus(r, c, st)
  PROVE Located' /\ (Scored => Scored') /\ Joins(r)
<1> DEFINE q == [Blank EXCEPT !.at = "view", !.case = c]
<1>1. "status" \in Ops /\ c \in CaseId
  BY DeskAssumption DEF Cases
<1>2. Begin(r, "status", q)
  BY DEF SetStatus
<1>3. q \in Row(q) /\ q.at = "view"
  BY <1>1 DEF Row, Blank, Point
<1>4. tasks' = tasks /\ flagged \subseteq flagged'
  BY DEF SetStatus
<1> HIDE DEF q
<1> QED BY <1>1, <1>2, <1>3, <1>4, ArrivesScored DEF Scoring, Rescore, Point, Maker

LEMMA ViewCaseScored ==
  ASSUME TypeInv, Located, NEW r \in Request, NEW c \in Cases, NEW a,
         NEW op \in {"resolve", "evidence", "regenerate", "get", "step"},
         ViewCase(r, op, c, a)
  PROVE Located' /\ (Scored => Scored') /\ Joins(r)
<1>1. op \in Ops /\ c \in CaseId
  BY DeskAssumption DEF Cases
<1>2. PICK x : x = IF op = "get" THEN "view" ELSE "look"
  OBVIOUS
<1> DEFINE q == [Blank EXCEPT !.at = x, !.case = c, !.arg = a]
<1>3. Begin(r, op, q)
  BY <1>2 DEF ViewCase
<1>4. q \in Row(q) /\ q.at = x
  BY <1>1, <1>2 DEF Row, Blank, Point
<1>5. tasks' = tasks /\ flagged \subseteq flagged'
  BY DEF ViewCase
<1> HIDE DEF q
<1>6. x \in Point \ {"idle", "status", "score", "floor"} /\ (op = "resolve" => x = "look")
  BY <1>2 DEF Point
<1> QED BY <1>1, <1>3, <1>4, <1>5, <1>6, ArrivesScored DEF Maker

LEMMA BeginPatchScored ==
  ASSUME TypeInv, Located, NEW r \in Request, NEW t \in Tasks, NEW p, BeginPatch(r, t, p)
  PROVE Located' /\ (Scored => Scored') /\ Joins(r)
<1> DEFINE q == [Blank EXCEPT !.at = "patch", !.task = t, !.arg = p]
<1>1. "patch" \in Ops /\ t \in TaskId
  BY TaskAssumption DEF Tasks
<1>2. Begin(r, "patch", q)
  BY DEF BeginPatch
<1>3. q \in Row(q) /\ q.at = "patch"
  BY <1>1 DEF Row, Blank, Point
<1>4. tasks' = tasks /\ flagged \subseteq flagged'
  BY DEF BeginPatch
<1> HIDE DEF q
<1> QED BY <1>1, <1>2, <1>3, <1>4, ArrivesScored DEF Scoring, Rescore, Point, Maker

LEMMA AddCvesScored ==
  ASSUME TypeInv, Located, NEW r \in Request, NEW t \in Tasks, NEW L \in SUBSET CVE,
         AddCves(r, t, L)
  PROVE Located' /\ (Scored => Scored') /\ Joins(r)
<1> DEFINE q == [Blank EXCEPT !.at = "links", !.task = t, !.links = L]
<1>1. "addCves" \in Ops /\ t \in TaskId
  BY TaskAssumption DEF Tasks
<1>2. Begin(r, "addCves", q)
  BY DEF AddCves
<1>3. q \in Row(q) /\ q.at = "links"
  BY <1>1 DEF Row, Blank, Point
<1>4. tasks' = tasks /\ flagged \subseteq flagged'
  BY DEF AddCves
<1> HIDE DEF q
<1> QED BY <1>1, <1>2, <1>3, <1>4, ArrivesScored DEF Scoring, Rescore, Point, Maker

(* Steps that write the task u. *)
LEMMA FrameElse ==
  ASSUME Scored, NEW u, \A t \in TaskId \ {u} : tasks'[t] = tasks[t],
         flagged \subseteq flagged',
         \A s \in Request, t \in TaskId \ {u} : Follows(req[s], req'[s], t),
         u \in Tasks' \ flagged' => ScoredAt(u)'
  PROVE Scored'
<1> SUFFICES ASSUME NEW t \in Tasks' \ flagged', t # u PROVE ScoredAt(t)'
  BY DEF Scored
<1>1. t \in Tasks \ flagged /\ tasks'[t] = tasks[t] /\ t \in TaskId
  BY DEF Tasks
<1> QED BY <1>1, FrameAt DEF Scored

LEMMA RemoveCveScored ==
  ASSUME TypeInv, Located, NEW r \in Request, NEW u \in Tasks, NEW c, RemoveCve(r, u, c)
  PROVE Located' /\ (Scored => Scored') /\ Joins(r)
<1> DEFINE q == [Blank EXCEPT !.at = "read", !.task = u]
<1>1. "removeCve" \in Ops /\ u \in TaskId
  BY TaskAssumption DEF Tasks
<1>2. Begin(r, "removeCve", q) /\ Disturb(r, u, {"status", "score"})
  BY DEF RemoveCve
<1>3. q \in Row(q) /\ q.at = "read" /\ q.task = u
  BY <1>1 DEF Row, Blank, Point
<1>4. PICK row \in TaskRow : row = tasks[u]
  BY RowAt
<1> DEFINE w == [row EXCEPT !.links = @ \ {c}]
<1>5. tasks' = [tasks EXCEPT ![u] = w] /\ w.case = row.case /\ w.status = row.status
  BY <1>4 DEF RemoveCve, TaskRow
<1> HIDE DEF q, w
<1>6. /\ Located'
      /\ req[r].op = "idle" /\ req[r].at = "idle"
      /\ req'[r].at = q.at /\ req'[r].task = q.task /\ req'[r].op = "removeCve"
      /\ \A s \in Request \ {r} : req'[s] = Lonely(req[s])
      /\ Joins(r) /\ \A s \in Request : \A t : Follows(req[s], req'[s], t)
  BY <1>1, <1>2, <1>3, BeginsScored DEF Scoring, Rescore, Point, Maker
<1>7. tasks'[u] = w /\ \A t \in TaskId \ {u} : tasks'[t] = tasks[t]
  BY <1>5, Written
<1>8. flagged \subseteq flagged'
  BY <1>2, DisturbGrows
<1>9. ASSUME u \notin flagged' PROVE ScoredAt(u)'
  <2>1. \A s \in Request \ {r} : req[s].task = u =>
          /\ req[s].at \notin {"status", "score"}
          /\ ~(req[s].op \in Maker /\ req[s].at \in Scoring)
    BY <1>2, <1>9, Undisturbed
  <2>2. \A s \in Request \ {r} : req'[s].task = u => Held(req'[s], w)
    <3> SUFFICES ASSUME NEW s \in Request \ {r}, req'[s].task = u PROVE Held(req'[s], w)
      OBVIOUS
    <3>1. /\ req'[s].task = req[s].task /\ req'[s].at = req[s].at /\ req'[s].op = req[s].op
      BY <1>6, AtType, LonelyFollows
    <3> QED BY <2>1, <3>1 DEF Held
  <2>3. Held(req'[r], w) /\ Rescores(req'[r], u)
    BY <1>3, <1>6 DEF Held, Maker, Rescores, Rescore
  <2> QED BY <1>7, <2>2, <2>3 DEF ScoredAt
<1>10. Scored => Scored'
  BY <1>6, <1>7, <1>8, <1>9, FrameElse
<1> QED BY <1>6, <1>10

LEMMA FreeTaskIs ==
  ASSUME TypeInv, Tasks # TaskId, NEW u, u = FreeTask, NEW w, tasks' = [tasks EXCEPT ![u] = w]
  PROVE /\ u \in TaskId \ Tasks /\ u # None /\ tasks'[u] = w
        /\ \A t \in TaskId \ {u} : tasks'[t] = tasks[t]
        /\ \A s \in Request : req[s].task # u
<1>1. \E t \in TaskId : t \notin Tasks
  BY DEF Tasks
<1>2. u \in TaskId \ Tasks
  BY <1>1, ZenonT(60) DEF FreeTask
<1>3. u # None
  BY <1>2, IdentityAssumption
<1>4. \A s \in Request : req[s].task \in Tasks \cup {None}
  BY DEF TypeInv, TypeOK
<1>5. tasks'[u] = w /\ \A t \in TaskId \ {u} : tasks'[t] = tasks[t]
  BY <1>2 DEF TypeInv, TypeOK, RowsOK
<1> QED BY <1>2, <1>3, <1>4, <1>5

LEMMA CreateTaskScored ==
  ASSUME TypeInv, Located, NEW r \in Request, NEW L \in SUBSET CVE, CreateTask(r, L)
  PROVE Located' /\ (Scored => Scored') /\ Joins(r)
<1>1. PICK u : u = FreeTask
  OBVIOUS
<1> DEFINE q == [Blank EXCEPT !.at = "links", !.task = u, !.links = L]
           w == NewTask(None, "p3")
<1>2. "create" \in Ops
  BY TaskAssumption
<1>3. /\ Begin(r, "create", q) /\ flagged' = flagged /\ Tasks # TaskId
      /\ tasks' = [tasks EXCEPT ![u] = w]
  BY <1>1 DEF CreateTask
<1> HIDE DEF w
<1>4. /\ u \in TaskId \ Tasks /\ u # None /\ tasks'[u] = w
      /\ \A t \in TaskId \ {u} : tasks'[t] = tasks[t]
      /\ \A s \in Request : req[s].task # u
  BY <1>1, <1>3, FreeTaskIs
<1>5. q \in Row(q) /\ q.at = "links" /\ q.task = u
  BY <1>4 DEF Row, Blank, Point
<1> HIDE DEF q
<1>6. /\ Located'
      /\ req'[r].at = q.at /\ req'[r].task = q.task /\ req'[r].op = "create"
      /\ \A s \in Request \ {r} : req'[s] = Lonely(req[s])
      /\ Joins(r) /\ \A s \in Request : \A t : Follows(req[s], req'[s], t)
  BY <1>2, <1>3, <1>5, BeginsScored DEF Scoring, Rescore, Point, Maker
<1>7. ScoredAt(u)'
  <2>1. \A s \in Request \ {r} : req'[s].task # u
    <3> SUFFICES ASSUME NEW s \in Request \ {r} PROVE req'[s].task # u
      OBVIOUS
    <3>1. req'[s].task = req[s].task
      BY <1>6, AtType, LonelyFollows
    <3> QED BY <1>4, <3>1
  <2>2. Held(req'[r], w) /\ Rescores(req'[r], u)
    BY <1>5, <1>6 DEF Held, Maker, Rescores, Rescore
  <2> QED BY <1>4, <2>1, <2>2 DEF ScoredAt
<1>8. Scored => Scored'
  BY <1>3, <1>4, <1>6, <1>7, FrameElse
<1> QED BY <1>6, <1>8

LEMMA InsertTaskScored ==
  ASSUME TypeInv, Located, NEW r \in Request, InsertTask(r)
  PROVE Located' /\ (Scored => Scored')
<1> DEFINE q == req[r]
<1>1. PICK u : u = FreeTask
  OBVIOUS
<1>2. PICK c : c = q.case
  OBVIOUS
<1>3. q \in Row(q) /\ q.at = "insertTask" /\ Local(q) /\ c \in Cases /\ q.op \in {"open", "backfill"}
  BY <1>2, AtType DEF InsertTask, Located, Fits, EnsurePoint
<1> DEFINE w == NewTask(c, Priority[q.sig])
<1>4. PICK n : n = [q EXCEPT !.at = "links", !.task = u]
  OBVIOUS
<1>5. /\ req' = [req EXCEPT ![r] = n] /\ flagged' = flagged /\ Tasks # TaskId
      /\ tasks' = [tasks EXCEPT ![u] = w]
  BY <1>1, <1>2, <1>4 DEF InsertTask
<1>6. n.at = "links" /\ n.task = u /\ n.op = q.op /\ Local(n)
  BY <1>3, <1>4 DEF Row, Local
<1>7. w.case # None /\ w.status # "closed"
  BY <1>3, IdentityAssumption DEF NewTask, Cases
<1> HIDE DEF w
<1>8. /\ u \in TaskId \ Tasks /\ u # None /\ tasks'[u] = w
      /\ \A t \in TaskId \ {u} : tasks'[t] = tasks[t]
      /\ \A s \in Request : req[s].task # u
  BY <1>1, <1>5, FreeTaskIs
<1>9. Located' /\ req'[r] = n /\ \A s \in Request \ {r} : req'[s] = req[s]
  BY <1>5, <1>6, OneMoves
<1>10. ScoredAt(u)'
  <2>1. Held(n, w) /\ Rescores(n, u)
    BY <1>6, <1>7 DEF Held, Rescores, Rescore
  <2> QED BY <1>8, <1>9, <2>1 DEF ScoredAt
<1>11. \A s \in Request, t \in TaskId \ {u} : Follows(req[s], req'[s], t)
  <2> SUFFICES ASSUME NEW s \in Request, NEW t \in TaskId \ {u}
               PROVE Follows(req[s], req'[s], t)
    OBVIOUS
  <2>1. CASE s = r
    BY <1>3, <1>6, <1>9, <2>1 DEF Follows, Rescores, Rescore
  <2>2. CASE s # r
    BY <1>9, <2>2 DEF Follows, Rescores
  <2> QED BY <2>1, <2>2
<1>12. Scored => Scored'
  BY <1>5, <1>8, <1>10, <1>11, FrameElse
<1> QED BY <1>9, <1>12

LEMMA BootBackfillScored ==
  ASSUME TypeInv, Located, BootBackfill
  PROVE Located' /\ (Scored => Scored')
<1> DEFINE n == [Backfill EXCEPT !.op = "backfill"]
<1>1. /\ ~backfilled /\ tasks' = tasks /\ flagged' = flagged
      /\ req' = [r \in Request |-> IF r = Boot THEN n ELSE Lonely(req[r])]
  BY DEF BootBackfill, Lonely
<1>2. n.at = "row" /\ n.op = "backfill"
  BY DEF Backfill, Blank
<1> HIDE DEF n
<1>3. req[Boot].at = "idle"
  BY <1>1 DEF TypeInv
<1>4. \A r \in Request : req[r] \in Row(req[r]) /\ Local(req[r])
  BY AtType DEF Located
<1>5. Local(n)
  BY <1>2 DEF Local
<1>6. \A r \in Request : req'[r] = IF r = Boot THEN n ELSE Lonely(req[r])
  BY <1>1
<1>7. Located'
  BY <1>4, <1>5, <1>6, LonelyFollows DEF Located
<1>8. \A s \in Request : \A t : Follows(req[s], req'[s], t)
  <2> SUFFICES ASSUME NEW s \in Request, NEW t PROVE Follows(req[s], req'[s], t)
    OBVIOUS
  <2>1. CASE s = Boot
    BY <1>2, <1>3, <1>6, <2>1 DEF Follows, Rescores, Rescore, Scoring
  <2>2. CASE s # Boot
    BY <1>4, <1>6, <2>2, LonelyFollows
  <2> QED BY <2>1, <2>2
<1>9. \A s \in Request, t \in Tasks \ flagged' : Follows(req[s], req'[s], t)
  BY <1>8
<1> QED BY <1>1, <1>7, <1>9, Frame

LEMMA TriageScored ==
  ASSUME TypeInv, Located, NEW s, NEW st, Triage(s, st)
  PROVE Located' /\ (Scored => Scored')
<1>1. tasks' = tasks /\ flagged' = flagged /\ \A r \in Request : req'[r] = Lonely(req[r])
  BY DEF Triage, Lonely
<1>2. \A r \in Request : req[r] \in Row(req[r]) /\ Local(req[r])
  BY AtType DEF Located
<1>3. Located'
  BY <1>1, <1>2, LonelyFollows DEF Located
<1>4. \A r \in Request, t \in Tasks \ flagged' : Follows(req[r], req'[r], t)
  <2> SUFFICES ASSUME NEW r \in Request, NEW t PROVE Follows(req[r], req'[r], t)
    OBVIOUS
  <2>1. Follows(req[r], Lonely(req[r]), t)
    BY <1>2, LonelyFollows
  <2> QED BY <1>1, <2>1
<1> QED BY <1>1, <1>3, <1>4, Frame

-----------------------------------------------------------------------------
(* Faults. *)

LEMMA FailScored ==
  ASSUME TypeInv, Located, NEW r \in Request, Fail(r)
  PROVE Located' /\ (Scored => Scored')
<1> DEFINE q == req[r]
<1>1. q \in Row(q) /\ Local(q) /\ q.op # "idle" /\ q.at # "idle"
  BY AtType DEF Located, Fail, Idle, Local
<1>2. PICK n : /\ req' = [req EXCEPT ![r] = n]
               /\ \/ Ensuring(r) /\ n = Resume(q, AfterEnsure(q))
                  \/ q.at = "playbook" /\ n = Resume(q, "view")
                  \/ n = Blank
  <2> DEFINE next == CASE Ensuring(r) -> Resume(q, AfterEnsure(q))
                       [] q.at = "playbook" -> Resume(q, "view")
                       [] OTHER -> Blank
  <2>1. req' = [req EXCEPT ![r] = next]
    BY DEF Fail
  <2>2. \/ Ensuring(r) /\ next = Resume(q, AfterEnsure(q))
        \/ q.at = "playbook" /\ next = Resume(q, "view")
        \/ next = Blank
    OBVIOUS
  <2> HIDE DEF next
  <2> QED BY <2>1, <2>2
<1>3. tasks' = tasks /\ flagged' = flagged \cup HalfDone(r)
  BY DEF Fail
<1>4. Local(n) /\ Apart(n)
  <2>1. CASE n = Blank
    BY <2>1, BlankLocal
  <2>2. ASSUME NEW x \in {"view", "playbook", "row"}, n = Resume(q, x),
               x # "view" => q.op \in {"open", "backfill"}
        PROVE Local(n) /\ Apart(n)
    <3>1. n.at = x /\ n.op \in {"get", q.op} /\ (x # "view" => n.op = q.op)
      BY <1>1, <2>2, Resumes
    <3>2. CASE x = "view"
      <4>1. n.op = "get"
        BY <1>1, <2>2, <3>2, Resumes
      <4> QED BY <3>1, <3>2, <4>1 DEF Local, Apart, Scoring, Rescore
    <3>3. CASE x # "view"
      BY <2>2, <3>1, <3>3 DEF Local, Apart, Scoring, Rescore
    <3> QED BY <3>2, <3>3
  <2>3. CASE Ensuring(r) /\ n = Resume(q, AfterEnsure(q))
    <3>1. AfterEnsure(q) \in {"row", "playbook", "view"} /\ q.op \in {"open", "backfill"}
      BY <2>3 DEF AfterEnsure, Ensuring
    <3> QED BY <2>2, <2>3, <3>1
  <2> QED BY <1>2, <2>1, <2>2, <2>3
<1>5. Located' /\ req'[r] = n /\ \A s \in Request \ {r} : req'[s] = req[s]
  BY <1>2, <1>4, OneMoves
<1>6. \A s \in Request, t \in Tasks \ flagged' : Follows(req[s], req'[s], t)
  <2> SUFFICES ASSUME NEW s \in Request, NEW t \in Tasks \ flagged'
               PROVE Follows(req[s], req'[s], t)
    OBVIOUS
  <2>1. CASE s # r
    BY <1>5, <2>1 DEF Follows, Rescores
  <2>2. CASE s = r
    <3>1. t # None
      BY IdentityAssumption DEF Tasks
    <3>2. ~Rescores(q, t)
      BY <1>3, <3>1 DEF Rescores, Rescore, HalfDone, Unscored
    <3> QED BY <1>4, <1>5, <2>2, <3>2 DEF Follows, Apart, Scoring, Rescore
  <2> QED BY <2>1, <2>2
<1> QED BY <1>3, <1>5, <1>6, Frame

LEMMA FailRowScored ==
  ASSUME TypeInv, Located, NEW r \in Request, FailRow(r)
  PROVE Located' /\ (Scored => Scored')
<1> DEFINE q == req[r]
<1>1. q.at = "row" /\ q.op = "backfill" /\ q \in Row(q) /\ tasks' = tasks /\ flagged' = flagged
  BY AtType DEF FailRow, Fits
<1>2. PICK c \in q.todo : req' = [req EXCEPT ![r] = [q EXCEPT !.todo = q.todo \ {c}]]
  BY DEF FailRow
<1>3. PICK n : n = [q EXCEPT !.todo = q.todo \ {c}]
  OBVIOUS
<1>4. n.op = q.op /\ n.at = "row" /\ req' = [req EXCEPT ![r] = n]
  BY <1>1, <1>2, <1>3 DEF Row
<1>5. \E m : Moved(r, m)
  BY <1>1, <1>4, AtMoved DEF Apart, Scoring, Rescore
<1> QED BY <1>5, MovedFollows

LEMMA FailScanScored ==
  ASSUME TypeInv, Located, FailScan
  PROVE Located' /\ (Scored => Scored')
<1>1. UNCHANGED <<tasks, req, flagged>>
  BY DEF FailScan
<1> QED BY <1>1 DEF Located, Scored, ScoredAt, Tasks

LEMMA CrashScored ==
  ASSUME TypeInv, Located, Crash
  PROVE Located' /\ (Scored => Scored')
<1>1. /\ tasks' = tasks /\ flagged' = flagged \cup UNION {HalfDone(r) : r \in Request}
      /\ \A r \in Request : req'[r] = Blank
  BY DEF Crash
<1>2. Located'
  BY <1>1, BlankLocal DEF Located
<1>3. \A s \in Request, t \in Tasks \ flagged' : Follows(req[s], req'[s], t)
  <2> SUFFICES ASSUME NEW s \in Request, NEW t \in Tasks \ flagged'
               PROVE Follows(req[s], req'[s], t)
    OBVIOUS
  <2>1. t # None /\ t \notin HalfDone(s)
    BY <1>1, IdentityAssumption DEF Tasks
  <2>2. ~Rescores(req[s], t)
    BY <2>1 DEF Rescores, Rescore, HalfDone, Unscored
  <2> QED BY <1>1, <2>2, BlankLocal DEF Follows, Apart, Scoring, Rescore
<1> QED BY <1>1, <1>2, <1>3, Frame

-----------------------------------------------------------------------------
(* The score of a task is current. *)

LEMMA RequestStepScored ==
  ASSUME TypeInv, Located, NEW r \in Request, RequestStep(r)
  PROVE Located' /\ (Scored => Scored')
<1>1. CASE TaskStep(r)
  BY <1>1, TaskStepScored
<1>2. CASE InsertTask(r)
  BY <1>2, InsertTaskScored
<1>3. CASE DeskStep(r)
  <2>1. PICK n : Moved(r, n)
    BY <1>3, DeskMoved
  <2> QED BY <2>1, MovedFollows
<1> QED BY <1>1, <1>2, <1>3 DEF RequestStep, DeskStep

LEMMA ArrivalScored ==
  ASSUME TypeInv, Located, NEW r \in Request, Arrival(r)
  PROVE Located' /\ (Scored => Scored') /\ Joins(r)
<1>1. CASE TaskArrival(r, scope.patches)
  BY <1>1, CreateTaskScored, BeginPatchScored, AddCvesScored, RemoveCveScored DEF TaskArrival
<1>2. CASE \E s \in scope.signals, want \in scope.wants : OpenCase(r, s, want)
  <2>1. scope.signals \subseteq Signal
    BY DEF TypeInv, Inputs
  <2> QED BY <1>2, <2>1, OpenCaseScored
<1>3. CASE AskBackfill(r)
  BY <1>3, AskBackfillScored
<1>4. CASE \E c \in Cases, st \in scope.statuses : SetStatus(r, c, st)
  BY <1>4, SetStatusScored
<1>5. ASSUME NEW c \in Cases, NEW a,
             NEW op \in {"resolve", "evidence", "regenerate", "get", "step"},
             ViewCase(r, op, c, a)
      PROVE Located' /\ (Scored => Scored') /\ Joins(r)
  BY <1>5, ViewCaseScored
<1> QED BY <1>1, <1>2, <1>3, <1>4, <1>5 DEF Arrival

ScoreInv == Located /\ Scored

LEMMA InitScored == Init => ScoreInv
<1> SUFFICES ASSUME Init PROVE ScoreInv
  OBVIOUS
<1>1. Tasks = {} /\ \A r \in Request : req[r] = Blank
  BY DEF Init, TaskInit, Tasks
<1> QED BY <1>1, BlankLocal DEF ScoreInv, Located, Scored

LEMMA StutterScored == ScoreInv /\ UNCHANGED vars => ScoreInv'
  BY DEF ScoreInv, Located, Scored, ScoredAt, Tasks, vars, taskVars

LEMMA NextScored == TypeInv /\ ScoreInv /\ [Next]_vars => ScoreInv'
<1> SUFFICES ASSUME TypeInv, Located, Scored, [Next]_vars PROVE ScoreInv'
  BY DEF ScoreInv
<1>1. CASE \E r \in Request : RequestStep(r) \/ Fail(r) \/ FailRow(r)
  BY <1>1, RequestStepScored, FailScored, FailRowScored DEF ScoreInv
<1>2. CASE \E r \in User : Arrival(r)
  BY <1>2, ArrivalScored DEF ScoreInv, User
<1>3. CASE BootBackfill
  BY <1>3, BootBackfillScored DEF ScoreInv
<1>4. CASE \E s \in scope.signals, st \in scope.marks : Triage(s, st)
  BY <1>4, TriageScored DEF ScoreInv
<1>5. CASE Crash \/ FailScan
  BY <1>5, CrashScored, FailScanScored DEF ScoreInv
<1>6. CASE UNCHANGED vars
  BY <1>6, StutterScored DEF ScoreInv
<1> QED BY <1>1, <1>2, <1>3, <1>4, <1>5, <1>6 DEF Next

LEMMA AlwaysScored == Spec => []ScoreInv
<1>1. Inv => TypeInv
  BY DEF Inv
<1> QED BY <1>1, AlwaysInv, InitScored, NextScored, PTL DEF Spec

(* The score on the board is that of the CVEs now linked and of the status *)
(* now set, or the floor of an open task a case has made, unless a request *)
(* changed the task between another one's reads and its write, or was cut. *)
THEOREM ScoreCurrent == Spec => []ScoreIsCurrent
<1>1. ScoreInv => ScoreIsCurrent
  <2> SUFFICES ASSUME ScoreInv, NEW t \in Tasks \ flagged, AtRest(t)
               PROVE Right(tasks[t])
    BY DEF ScoreIsCurrent, Right, FinalScore
  <2>1. \A r \in Request : ~Rescores(req[r], t)
    BY DEF AtRest, Rescores
  <2> QED BY <2>1 DEF ScoreInv, Scored, ScoredAt
<1> QED BY <1>1, AlwaysScored, PTL

-----------------------------------------------------------------------------
(* A resolve nobody has overlapped. *)

(* What it has done so far: q is the request, C, G and T the cases, the    *)
(* queue and the tasks.                                                    *)
Refs(q, C) == C[q.case].refs
Settling(q, C, G, T) ==
  /\ q.at \in {"lookSave"} \cup Closing => q.task = C[q.case].task
  /\ q.at \in Closing \ {"close"} => C[q.case].status = "resolved"
  /\ q.at = "settle" => \A s \in Refs(q, C) \ q.todo : G[s] = "done"
  /\ q.at \in {"patch", "update", "read", "status", "score"} =>
       q.task # None /\ \A s \in Refs(q, C) : G[s] = "done"
  /\ q.at \in {"read", "status", "score"} => T[q.task].status = "closed"
  /\ q.at = "score" => q.seen = "closed"

Resolving == \A r \in Request : Resolves(req[r]) =>
               /\ Settling(req[r], cases, triage, tasks)
               /\ \A u \in Request \ {r} : Idle(u)

(* What it leaves behind when it answers. *)
Settled(q) ==
  /\ cases[q.case].status = "resolved"
  /\ \A s \in cases[q.case].refs : triage[s] = "done"
  /\ LET t == cases[q.case].task IN
     t # None => tasks'[t].status = "closed" /\ tasks'[t].score = 0

(* A step of its own: n is what the request holds next. *)
Outcome(q, n) == /\ Resolves(n) => Resolves(q) /\ Settling(n, cases', triage', tasks')
                 /\ Resolves(q) /\ n.at = "view" => Settled(q)
Steps(r) == \E n : req' = [req EXCEPT ![r] = n] /\ Outcome(req[r], n)

(* The point it goes to from the view of the case. *)
LEMMA SettleView ==
  ASSUME TypeInv, NEW r \in Request, NEW q, q \in Row(q), q.op = "resolve",
         q.at \in {"look", "lookSave"}
  PROVE Resume(q, AfterView(q)) = [q EXCEPT !.at = "close"]
<1>1. AfterView(q) = "close"
  BY AfterViewPoint
<1> QED BY <1>1, Resumes

LEMMA ReadCaseSettles ==
  ASSUME TypeInv, Located, NEW r \in Request, req[r].op = "resolve", ReadCase(r)
  PROVE Steps(r)
<1> DEFINE q == req[r]
<1>1. q \in Row(q) /\ q.at = "look" /\ q.case \in Cases
  BY AtType DEF ReadCase, Located, Local, Fits, Closing
<1>2. PICK x \in Playbook \cup {None}, y \in TaskId \cup {None} :
        x = cases[q.case].play /\ y = cases[q.case].task
  <2>1. cases[q.case] \in CaseRow
    BY <1>1, CaseType
  <2> QED BY <2>1 DEF CaseRow
<1>3. PICK read : read = [q EXCEPT !.play = x, !.task = y]
  OBVIOUS
<1>4. /\ read.op = "resolve" /\ read.at = "look" /\ read.case = q.case /\ read.task = y
      /\ read.alone = q.alone /\ read \in Row(read)
  BY <1>1, <1>2, <1>3 DEF Row
<1>5. PICK n : /\ req' = [req EXCEPT ![r] = n]
               /\ \/ n = Resume(read, AfterView(read))
                  \/ n = [read EXCEPT !.at = "lookSave"]
  BY <1>1, <1>2, <1>3 DEF ReadCase
<1>6. n = [read EXCEPT !.at = "close"] \/ n = [read EXCEPT !.at = "lookSave"]
  BY <1>4, <1>5, SettleView
<1>7. /\ n.at \in {"close", "lookSave"} /\ n.op = "resolve" /\ n.case = q.case /\ n.task = y
      /\ n.alone = q.alone
  BY <1>4, <1>6 DEF Row
<1>8. cases' = cases
  BY DEF ReadCase, deskVars
<1>9. Outcome(q, n)
  BY <1>2, <1>7, <1>8 DEF Outcome, Resolves, Settling, Closing
<1> QED BY <1>5, <1>9 DEF Steps

LEMMA SavePlaybookSettles ==
  ASSUME TypeInv, Located, NEW r \in Request, req[r].op = "resolve", SavePlaybook(r),
         Resolves(req[r]) => Settling(req[r], cases, triage, tasks)
  PROVE Steps(r)
<1> DEFINE q == req[r]
<1>1. q \in Row(q) /\ q.at = "lookSave" /\ q.case \in Cases
  BY AtType DEF SavePlaybook, Located, Local, Fits, Closing
<1>2. PICK c \in Cases : c = q.case
  BY <1>1
<1>3. PICK b \in scope.books :
        LET saved == [q EXCEPT !.play = Merge(q.play, Fresh(b))] IN
        /\ cases' = [cases EXCEPT ![q.case].play = saved.play]
        /\ req' = [req EXCEPT ![r] = Resume(saved, AfterView(saved))]
  BY DEF SavePlaybook
<1>4. PICK m : m = Merge(q.play, Fresh(b))
  OBVIOUS
<1>5. m \in Playbook
  BY <1>1, <1>4, BookType DEF Row
<1>6. PICK saved : saved = [q EXCEPT !.play = m]
  OBVIOUS
<1>7. /\ saved.op = "resolve" /\ saved.at = "lookSave" /\ saved.case = c
      /\ saved.task = q.task /\ saved.alone = q.alone /\ saved.play = m
      /\ saved \in Row(saved)
  BY <1>1, <1>2, <1>5, <1>6 DEF Row
<1>8. PICK n : n = [saved EXCEPT !.at = "close"]
  OBVIOUS
<1>9. req' = [req EXCEPT ![r] = n]
  <2>1. req' = [req EXCEPT ![r] = Resume(saved, AfterView(saved))]
    BY <1>3, <1>4, <1>6
  <2> QED BY <1>7, <1>8, <2>1, SettleView
<1>10. n.at = "close" /\ n.op = "resolve" /\ n.case = c /\ n.task = q.task /\ n.alone = q.alone
  BY <1>7, <1>8 DEF Row
<1>11. cases[c] \in CaseRow /\ c \in CaseId
  BY CaseType
<1>12. cases' = [cases EXCEPT ![c] = [cases[c] EXCEPT !.play = m]]
  BY <1>2, <1>3, <1>4, <1>6, <1>7
<1>13. cases'[c].task = cases[c].task
  BY <1>11, <1>12 DEF CaseRow, TypeInv, TypeOK, RowsOK
<1>14. Outcome(q, n)
  BY <1>1, <1>2, <1>10, <1>13 DEF Outcome, Resolves, Settling, Closing
<1> QED BY <1>9, <1>14 DEF Steps

LEMMA CloseCaseSettles ==
  ASSUME TypeInv, NEW r \in Request, req[r].op = "resolve", CloseCase(r),
         Resolves(req[r]) => Settling(req[r], cases, triage, tasks)
  PROVE Steps(r)
<1> DEFINE q == req[r]
<1>1. q \in Row(q) /\ q.at = "close"
  BY AtType DEF CloseCase
<1>2. PICK c \in Cases : c = q.case
  BY DEF TypeInv, ReqOK, Sound
<1>3. PICK n : n = [q EXCEPT !.at = "refs"]
  OBVIOUS
<1>4. req' = [req EXCEPT ![r] = n]
  BY <1>3 DEF CloseCase
<1>5. n.at = "refs" /\ n.op = "resolve" /\ n.case = c /\ n.task = q.task /\ n.alone = q.alone
  BY <1>1, <1>2, <1>3 DEF Row
<1>6. cases[c] \in CaseRow /\ c \in CaseId
  BY CaseType
<1>7. cases' = [cases EXCEPT ![c] = [cases[c] EXCEPT !.status = "resolved"]]
  BY <1>2 DEF CloseCase
<1>8. cases'[c].task = cases[c].task /\ cases'[c].status = "resolved"
  BY <1>6, <1>7 DEF CaseRow, TypeInv, TypeOK, RowsOK
<1>9. Outcome(q, n)
  BY <1>1, <1>2, <1>5, <1>8 DEF Outcome, Resolves, Settling, Closing
<1> QED BY <1>4, <1>9 DEF Steps

LEMMA ReadRefsSettles ==
  ASSUME TypeInv, NEW r \in Request, req[r].op = "resolve", ReadRefs(r),
         Resolves(req[r]) => Settling(req[r], cases, triage, tasks)
  PROVE Steps(r)
<1> DEFINE q == req[r]
<1>1. q \in Row(q) /\ q.at = "refs" /\ cases' = cases
  BY AtType DEF ReadRefs, deskVars
<1>2. PICK n : n = [q EXCEPT !.at = "settle", !.todo = RefsOf(q.case)]
  OBVIOUS
<1>3. req' = [req EXCEPT ![r] = n]
  BY <1>2 DEF ReadRefs
<1>4. /\ n.at = "settle" /\ n.op = "resolve" /\ n.case = q.case /\ n.task = q.task
      /\ n.alone = q.alone /\ n.todo = Refs(q, cases)
  BY <1>1, <1>2 DEF Row, RefsOf, Refs
<1>5. Outcome(q, n)
  BY <1>1, <1>4 DEF Outcome, Resolves, Settling, Closing, Refs
<1> QED BY <1>3, <1>5 DEF Steps

LEMMA SettleRefSettles ==
  ASSUME TypeInv, NEW r \in Request, req[r].op = "resolve", SettleRef(r),
         Resolves(req[r]) => Settling(req[r], cases, triage, tasks)
  PROVE Steps(r)
<1> DEFINE q == req[r]
<1>1. q \in Row(q) /\ q.at = "settle" /\ q.todo \subseteq Signal /\ cases' = cases
  BY AtType DEF SettleRef, Fits
<1>2. PICK s \in q.todo : /\ triage' = [triage EXCEPT ![s] = "done"]
                          /\ req' = [req EXCEPT ![r].todo = @ \ {s}]
  BY DEF SettleRef
<1>3. PICK n : n = [q EXCEPT !.todo = @ \ {s}]
  OBVIOUS
<1>4. req' = [req EXCEPT ![r] = n]
  BY <1>2, <1>3
<1>5. /\ n.at = "settle" /\ n.op = "resolve" /\ n.case = q.case /\ n.task = q.task
      /\ n.alone = q.alone /\ n.todo = q.todo \ {s}
  BY <1>1, <1>3 DEF Row
<1>6. triage \in [Signal -> TriageStatus \cup {None}] /\ q.case \in Cases
  BY DEF TypeInv, TypeOK, ReqOK, Sound
<1>7. Refs(q, cases) \subseteq Signal
  <2>1. cases[q.case] \in CaseRow
    BY <1>6, CaseType
  <2> QED BY <2>1 DEF Refs, CaseRow
<1>8. /\ triage'[s] = "done"
      /\ \A p \in Signal \ {s} : triage'[p] = triage[p]
  BY <1>1, <1>2, <1>6
<1>9. Resolves(q) => \A p \in Refs(q, cases) \ n.todo : triage'[p] = "done"
  BY <1>1, <1>5, <1>7, <1>8 DEF Settling
<1>10. Outcome(q, n)
  BY <1>1, <1>5, <1>9 DEF Outcome, Resolves, Settling, Closing, Refs
<1> QED BY <1>4, <1>10 DEF Steps

LEMMA SettleTaskSettles ==
  ASSUME TypeInv, NEW r \in Request, req[r].op = "resolve", SettleTask(r),
         Resolves(req[r]) => Settling(req[r], cases, triage, tasks)
  PROVE Steps(r)
<1> DEFINE q == req[r]
<1>1. /\ q \in Row(q) /\ q.at = "settle" /\ q.todo = {}
      /\ cases' = cases /\ triage' = triage /\ tasks' = tasks
  BY AtType DEF SettleTask, deskVars, rest
<1>2. PICK n : n = Resume(q, IF q.task = None THEN "view" ELSE "patch")
  OBVIOUS
<1>3. req' = [req EXCEPT ![r] = n]
  BY <1>2 DEF SettleTask
<1>4. CASE q.task = None
  <2>1. n.at = "view" /\ n.op = "get"
    BY <1>1, <1>2, <1>4, Resumes
  <2>2. Outcome(q, n)
    BY <1>1, <1>4, <2>1 DEF Outcome, Resolves, Settling, Closing, Settled, Refs
  <2> QED BY <1>3, <2>2 DEF Steps
<1>5. CASE q.task # None
  <2>1. n = [q EXCEPT !.at = "patch"]
    BY <1>1, <1>2, <1>5, Resumes
  <2>2. /\ n.at = "patch" /\ n.op = "resolve" /\ n.case = q.case /\ n.task = q.task
        /\ n.alone = q.alone
    BY <1>1, <2>1 DEF Row
  <2>3. Outcome(q, n)
    BY <1>1, <1>5, <2>2 DEF Outcome, Resolves, Settling, Closing, Refs
  <2> QED BY <1>3, <2>3 DEF Steps
<1> QED BY <1>4, <1>5

(* The steps that only read the task. *)
LEMMA TaskReadsSettle ==
  ASSUME TypeInv, NEW r \in Request, req[r].op = "resolve",
         SelectTask(r) \/ ReadLinks(r) \/ ReadStatus(r), UNCHANGED deskVars,
         Resolves(req[r]) => Settling(req[r], cases, triage, tasks)
  PROVE Steps(r)
<1> DEFINE q == req[r]
<1>1. /\ q \in Row(q) /\ q.at \in {"patch", "read", "status"}
      /\ cases' = cases /\ triage' = triage /\ tasks' = tasks
  BY AtType DEF SelectTask, ReadLinks, ReadStatus, deskVars, rest
<1>2. PICK n : /\ req' = [req EXCEPT ![r] = n]
               /\ n.op = "resolve" /\ n.case = q.case /\ n.task = q.task /\ n.alone = q.alone
               /\ \/ q.at = "patch" /\ n.at = "update"
                  \/ q.at = "read" /\ n.at = "status"
                  \/ q.at = "status" /\ n.at = "score" /\ n.seen = tasks[q.task].status
  <2>1. PICK l, y : l = tasks[q.task].links /\ y = tasks[q.task].status
    OBVIOUS
  <2>2. CASE SelectTask(r)
    <3>1. PICK n : n = [q EXCEPT !.at = "update", !.seen = y]
      OBVIOUS
    <3>2. req' = [req EXCEPT ![r] = n] /\ q.at = "patch"
      BY <2>1, <2>2, <3>1 DEF SelectTask
    <3>3. /\ n.op = "resolve" /\ n.case = q.case /\ n.task = q.task /\ n.alone = q.alone
          /\ n.at = "update"
      BY <1>1, <3>1 DEF Row
    <3> QED BY <3>2, <3>3
  <2>3. CASE ReadLinks(r)
    <3>1. PICK n : n = [q EXCEPT !.at = "status", !.links = l]
      OBVIOUS
    <3>2. req' = [req EXCEPT ![r] = n] /\ q.at = "read"
      BY <2>1, <2>3, <3>1 DEF ReadLinks
    <3>3. /\ n.op = "resolve" /\ n.case = q.case /\ n.task = q.task /\ n.alone = q.alone
          /\ n.at = "status"
      BY <1>1, <3>1 DEF Row
    <3> QED BY <3>2, <3>3
  <2>4. CASE ReadStatus(r)
    <3>1. PICK n : n = [q EXCEPT !.at = "score", !.seen = y]
      OBVIOUS
    <3>2. req' = [req EXCEPT ![r] = n] /\ q.at = "status"
      BY <2>1, <2>4, <3>1 DEF ReadStatus
    <3>3. /\ n.op = "resolve" /\ n.case = q.case /\ n.task = q.task /\ n.alone = q.alone
          /\ n.at = "score" /\ n.seen = y
      BY <1>1, <3>1 DEF Row
    <3> QED BY <2>1, <3>2, <3>3
  <2> QED BY <2>2, <2>3, <2>4
<1>3. Outcome(q, n)
  BY <1>1, <1>2 DEF Outcome, Resolves, Settling, Closing, Refs
<1> QED BY <1>2, <1>3 DEF Steps

LEMMA UpdateTaskSettles ==
  ASSUME TypeInv, NEW r \in Request, req[r].op = "resolve", UpdateTask(r), UNCHANGED deskVars,
         Resolves(req[r]) => Settling(req[r], cases, triage, tasks)
  PROVE Steps(r)
<1> DEFINE q == req[r]
<1>1. /\ q \in Row(q) /\ q.at = "update" /\ cases' = cases /\ triage' = triage
      /\ q.arg = "closed"
  BY AtType DEF UpdateTask, deskVars, rest, Sound
<1>2. PICK u \in Tasks : u = q.task
  BY <1>1, AtType DEF Fits
<1>3. PICK n : n = [q EXCEPT !.at = "read"]
  OBVIOUS
<1>4. req' = [req EXCEPT ![r] = n]
  BY <1>3 DEF UpdateTask
<1>5. /\ n.at = "read" /\ n.op = "resolve" /\ n.case = q.case /\ n.task = u
      /\ n.alone = q.alone
  BY <1>1, <1>2, <1>3 DEF Row
<1>6. PICK row \in TaskRow : row = tasks[u]
  BY RowAt
<1>7. Patched(q.arg, q.seen) = "closed" /\ "closed" # None
  BY <1>1, IdentityAssumption DEF Patched, Status
<1>8. tasks' = [tasks EXCEPT ![u] = [row EXCEPT !.status = "closed"]]
  BY <1>2, <1>6, <1>7 DEF UpdateTask
<1>9. tasks'[u].status = "closed"
  <2>1. tasks'[u] = [row EXCEPT !.status = "closed"]
    BY <1>8, Written
  <2> QED BY <1>6, <2>1 DEF TaskRow
<1>10. Outcome(q, n)
  BY <1>1, <1>2, <1>5, <1>9 DEF Outcome, Resolves, Settling, Closing, Refs
<1> QED BY <1>4, <1>10 DEF Steps

LEMMA WriteScoreSettles ==
  ASSUME TypeInv, NEW r \in Request, req[r].op = "resolve", WriteScore(r), UNCHANGED deskVars,
         Resolves(req[r]) => Settling(req[r], cases, triage, tasks)
  PROVE Steps(r)
<1> DEFINE q == req[r]
<1>1. q \in Row(q) /\ q.at = "score" /\ cases' = cases /\ triage' = triage
  BY AtType DEF WriteScore, deskVars, rest
<1>2. PICK u \in Tasks : u = q.task
  BY <1>1, AtType DEF Fits
<1>3. PICK n : n = Resume(q, "view")
  OBVIOUS
<1>4. req' = [req EXCEPT ![r] = n]
  BY <1>3 DEF WriteScore, AfterScore
<1>5. n.at = "view" /\ n.op = "get"
  BY <1>1, <1>3, Resumes
<1>6. PICK row \in TaskRow : row = tasks[u]
  BY RowAt
<1>7. PICK x : x = FinalScore(q.links, q.seen)
  OBVIOUS
<1>8. tasks' = [tasks EXCEPT ![u] = [row EXCEPT !.score = x]]
  BY <1>2, <1>6, <1>7 DEF WriteScore
<1>9. tasks'[u].status = row.status /\ tasks'[u].score = x
  <2>1. tasks'[u] = [row EXCEPT !.score = x]
    BY <1>8, Written
  <2> QED BY <1>6, <2>1 DEF TaskRow
<1>10. q.seen = "closed" => x = 0
  BY <1>7 DEF FinalScore
<1>11. Resolves(q) => Settled(q)
  BY <1>1, <1>2, <1>6, <1>9, <1>10 DEF Settling, Settled, Closing, Refs
<1>12. Outcome(q, n)
  BY <1>5, <1>11 DEF Outcome, Resolves
<1> QED BY <1>4, <1>12 DEF Steps

LEMMA ResolveSteps ==
  ASSUME TypeInv, Located, NEW r \in Request, req[r].op = "resolve", RequestStep(r),
         Resolves(req[r]) => Settling(req[r], cases, triage, tasks)
  PROVE Steps(r)
<1>1. req[r].at \in {"look", "lookSave"} \cup Closing
  BY DEF Located, Local
<1>2. \/ ReadCase(r) \/ SavePlaybook(r)
      \/ CloseCase(r) \/ ReadRefs(r) \/ SettleRef(r) \/ SettleTask(r)
      \/ /\ UNCHANGED deskVars
         /\ SelectTask(r) \/ UpdateTask(r) \/ ReadLinks(r) \/ ReadStatus(r) \/ WriteScore(r)
  BY <1>1 DEF RequestStep, TaskStep, FirstPlaybook, Rewrite, ReadForEvidence, MarkStep,
     AttachRef, InsertCase, InsertRef, EnsureTask, InsertTask, LinkTask, BackfillRow,
     LinkCves, KeepFloor, Closing
<1> QED BY <1>2, ReadCaseSettles, SavePlaybookSettles, CloseCaseSettles, ReadRefsSettles,
           SettleRefSettles, SettleTaskSettles, TaskReadsSettle, UpdateTaskSettles,
           WriteScoreSettles

-----------------------------------------------------------------------------
(* Nobody becomes a resolve but by arriving, and nobody else moves. *)

LEMMA StepOp ==
  ASSUME TypeInv, Located, NEW r \in Request, RequestStep(r)
  PROVE /\ req'[r].op = "resolve" => req[r].op = "resolve"
        /\ \A s \in Request \ {r} : req'[s] = req[s]
<1> DEFINE q == req[r]
<1>1. ASSUME NEW n, req' = [req EXCEPT ![r] = n], n.op = "resolve" => q.op = "resolve"
      PROVE /\ req'[r].op = "resolve" => req[r].op = "resolve"
            /\ \A s \in Request \ {r} : req'[s] = req[s]
  BY <1>1 DEF TypeInv, ReqOK
<1>2. CASE DeskStep(r)
  <2>1. PICK n : Moved(r, n)
    BY <1>2, DeskMoved
  <2> QED BY <1>1, <2>1 DEF Moved
<1>3. q \in Row(q)
  BY AtType
<1>4. CASE LinkCves(r) \/ KeepFloor(r) \/ UpdateTask(r)
  <2>1. PICK x : req' = [req EXCEPT ![r] = [q EXCEPT !.at = x]]
    BY <1>4 DEF LinkCves, KeepFloor, UpdateTask
  <2>2. [q EXCEPT !.at = x].op = q.op
    BY <1>3 DEF Row
  <2> QED BY <1>1, <2>1, <2>2
<1>5. CASE ReadLinks(r)
  <2>1. PICK l : req' = [req EXCEPT ![r] = [q EXCEPT !.at = "status", !.links = l]]
    BY <1>5 DEF ReadLinks
  <2>2. [q EXCEPT !.at = "status", !.links = l].op = q.op
    BY <1>3 DEF Row
  <2> QED BY <1>1, <2>1, <2>2
<1>6. CASE SelectTask(r) \/ ReadStatus(r)
  <2>1. PICK x, s : req' = [req EXCEPT ![r] = [q EXCEPT !.at = x, !.seen = s]]
    <3>1. PICK s : s = tasks[q.task].status
      OBVIOUS
    <3>2. CASE SelectTask(r)
      BY <3>1, <3>2 DEF SelectTask
    <3>3. CASE ReadStatus(r)
      BY <3>1, <3>3 DEF ReadStatus
    <3> QED BY <1>6, <3>2, <3>3
  <2>2. [q EXCEPT !.at = x, !.seen = s].op = q.op
    BY <1>3 DEF Row
  <2> QED BY <1>1, <2>1, <2>2
<1>7. CASE InsertTask(r)
  <2>1. PICK u : req' = [req EXCEPT ![r] = [q EXCEPT !.at = "links", !.task = u]]
    BY <1>7 DEF InsertTask
  <2>2. [q EXCEPT !.at = "links", !.task = u].op = q.op
    BY <1>3 DEF Row
  <2> QED BY <1>1, <2>1, <2>2
<1>8. CASE WriteScore(r)
  <2>1. PICK x : x = AfterScore(q)
    OBVIOUS
  <2>2. PICK n : n = Resume(q, x)
    OBVIOUS
  <2>3. req' = [req EXCEPT ![r] = n]
    BY <1>8, <2>1, <2>2 DEF WriteScore
  <2>4. x \in {"floor", "view", "end"}
    BY <2>1 DEF AfterScore
  <2>5. n.op = "resolve" => q.op = "resolve"
    <3>1. CASE x = "floor"
      BY <1>3, <2>2, <3>1, Resumes
    <3>2. CASE x = "view"
      BY <1>3, <2>2, <3>2, Resumes
    <3>3. CASE x = "end"
      <4>1. n = Blank
        BY <1>3, <2>2, <3>3, Resumes
      <4> QED BY <4>1, BlankLocal
    <3> QED BY <2>4, <3>1, <3>2, <3>3
  <2> QED BY <1>1, <2>3, <2>5
<1> QED BY <1>2, <1>4, <1>5, <1>6, <1>7, <1>8 DEF RequestStep, TaskStep, DeskStep

LEMMA NoStepIdle ==
  ASSUME NEW r \in Request, req[r].at = "idle"
  PROVE ~RequestStep(r)
  BY DEF RequestStep, TaskStep, LinkCves, ReadLinks, ReadStatus, WriteScore, KeepFloor,
     SelectTask, UpdateTask, ReadCase, SavePlaybook, FirstPlaybook, Rewrite, ReadForEvidence,
     MarkStep, AttachRef, InsertCase, InsertRef, EnsureTask, InsertTask, LinkTask, BackfillRow,
     CloseCase, ReadRefs, SettleRef, SettleTask

(* A request that fails is gone, or goes on to show its case or to the     *)
(* next row.                                                               *)
LEMMA FailOp ==
  ASSUME TypeInv, Located, NEW r \in Request, Fail(r)
  PROVE /\ ~Idle(r) /\ req'[r].op # "resolve"
        /\ req[r].op = "resolve" => req'[r].at = "idle"
        /\ \A s \in Request \ {r} : req'[s] = req[s]
<1> DEFINE q == req[r]
           next == CASE Ensuring(r) -> Resume(q, AfterEnsure(q))
                     [] q.at = "playbook" -> Resume(q, "view")
                     [] OTHER -> Blank
<1>1. req' = [req EXCEPT ![r] = next] /\ ~Idle(r)
  BY DEF Fail
<1>2. q \in Row(q)
  BY AtType
<1>3. /\ next.op # "resolve"
      /\ q.op = "resolve" => next.at = "idle"
  <2>1. CASE Ensuring(r)
    <3>1. /\ AfterEnsure(q) \in {"row", "playbook", "view"} /\ q.op \in {"open", "backfill"}
          /\ next = Resume(q, AfterEnsure(q))
      BY <2>1 DEF AfterEnsure, Ensuring, EnsurePoint
    <3> HIDE DEF next
    <3>2. PICK x \in {"row", "playbook", "view"} : x = AfterEnsure(q)
      BY <3>1
    <3>3. CASE x = "view"
      BY <1>2, <3>1, <3>2, <3>3, Resumes
    <3>4. CASE x \in {"row", "playbook"}
      <4>1. Resume(q, x).op = q.op
        BY <1>2, <3>4, Resumes
      <4> QED BY <3>1, <3>2, <4>1
    <3> QED BY <3>2, <3>3, <3>4
  <2>2. CASE ~Ensuring(r) /\ q.at = "playbook"
    <3>1. next = Resume(q, "view") /\ q.op # "resolve"
      BY <2>2 DEF Located, Local, Closing
    <3> HIDE DEF next
    <3> QED BY <1>2, <3>1, Resumes
  <2>3. CASE ~Ensuring(r) /\ q.at # "playbook"
    <3>1. next = Blank
      BY <2>3
    <3> QED BY <3>1, BlankLocal
  <2> QED BY <2>1, <2>2, <2>3
<1> HIDE DEF next
<1>4. req'[r] = next /\ \A s \in Request \ {r} : req'[s] = req[s]
  BY <1>1 DEF TypeInv, ReqOK
<1> QED BY <1>1, <1>3, <1>4

LEMMA FailRowOp ==
  ASSUME TypeInv, Located, NEW r \in Request, FailRow(r)
  PROVE /\ ~Idle(r) /\ req'[r].op # "resolve" /\ req[r].op # "resolve"
        /\ \A s \in Request \ {r} : req'[s] = req[s]
<1>1. req[r].op = "backfill" /\ req[r] \in Row(req[r])
  BY AtType DEF FailRow, Fits
<1>2. PICK c : req' = [req EXCEPT ![r] = [req[r] EXCEPT !.todo = @ \ {c}]]
  BY DEF FailRow
<1>3. PICK n : n = [req[r] EXCEPT !.todo = @ \ {c}]
  OBVIOUS
<1>4. n.op = "backfill" /\ req' = [req EXCEPT ![r] = n]
  BY <1>1, <1>2, <1>3 DEF Row
<1>5. req'[r] = n /\ \A s \in Request \ {r} : req'[s] = req[s]
  BY <1>4 DEF TypeInv, ReqOK
<1> QED BY <1>1, <1>4, <1>5 DEF Idle

LEMMA LonelyResolves ==
  ASSUME NEW q, q \in Row(q)
  PROVE ~Resolves(Lonely(q)) /\ Lonely(q).op = q.op /\ Lonely(q).at = q.at
<1>1. PICK p : p = Lonely(q)
  OBVIOUS
<1>2. p.alone = FALSE /\ p.op = q.op /\ p.at = q.at
  BY <1>1 DEF Row, Lonely
<1> QED BY <1>1, <1>2 DEF Resolves

(* What a step does to a resolve nobody has overlapped. *)
LEMMA AloneSteps ==
  ASSUME TypeInv, Located, Resolving, [Next]_vars, NEW r \in Request, Resolves(req[r])
  PROVE \/ req'[r].at # "view" /\ ~Resolves(req'[r])
        \/ UNCHANGED vars
        \/ Steps(r) /\ \A s \in Request \ {r} : req'[s] = req[s]
<1>1. /\ req[r].op = "resolve" /\ \A u \in Request \ {r} : Idle(u) /\ req[u].at = "idle"
      /\ req[r].at \in {"look", "lookSave"} \cup Closing
      /\ Settling(req[r], cases, triage, tasks)
  BY DEF Resolving, Resolves, Located, Local, Idle
<1>2. req[r] \in Row(req[r]) /\ req[r].at # "view" /\ ~Idle(r)
  BY <1>1, AtType DEF Idle, Closing
<1>3. ASSUME req'[r] = Lonely(req[r])
      PROVE req'[r].at # "view" /\ ~Resolves(req'[r])
  BY <1>2, <1>3, LonelyResolves
<1>4. CASE \E s \in Request : RequestStep(s)
  <2>1. PICK s \in Request : RequestStep(s)
    BY <1>4
  <2>2. s = r
    BY <1>1, <2>1, NoStepIdle
  <2> QED BY <1>1, <2>1, <2>2, ResolveSteps, StepOp
<1>5. CASE \E s \in Request : Fail(s) \/ FailRow(s)
  <2>1. PICK s \in Request : Fail(s) \/ FailRow(s)
    BY <1>5
  <2>2. s = r
    BY <1>1, <2>1, FailOp, FailRowOp
  <2> QED BY <1>1, <2>1, <2>2, FailOp, FailRowOp DEF Resolves
<1>6. CASE \E s \in User : Arrival(s)
  <2>1. PICK s \in User : Arrival(s)
    BY <1>6
  <2>2. Joins(s)
    BY <2>1, ArrivalScored DEF User
  <2> QED BY <1>2, <1>3, <2>2 DEF Joins
<1>7. CASE BootBackfill
  <2>1. r # Boot
    BY <1>1, <1>7 DEF BootBackfill, TypeInv
  <2>2. req'[r] = Lonely(req[r])
    BY <1>7, <2>1 DEF BootBackfill, Lonely
  <2> QED BY <1>3, <2>2
<1>8. CASE \E s \in scope.signals, st \in scope.marks : Triage(s, st)
  <2>1. req'[r] = Lonely(req[r])
    BY <1>8 DEF Triage, Lonely
  <2> QED BY <1>3, <2>1
<1>9. CASE Crash
  BY <1>9, BlankLocal DEF Crash, Resolves
<1>10. CASE FailScan
  <2>1. /\ UNCHANGED <<tasks, req, cases, triage>> /\ req = [req EXCEPT ![r] = req[r]]
    BY <1>10 DEF FailScan, TypeInv, ReqOK
  <2>2. Outcome(req[r], req[r])
    BY <1>1, <1>2, <2>1 DEF Outcome
  <2> QED BY <2>1, <2>2 DEF Steps
<1> QED BY <1>4, <1>5, <1>6, <1>7, <1>8, <1>9, <1>10 DEF Next

(* No other step makes a resolve, but the arrival that finds nobody.       *)
LEMMA NewResolves ==
  ASSUME TypeInv, Located, Next, NEW r \in Request, Resolves(req'[r]), ~Resolves(req[r])
  PROVE /\ req'[r].at = "look"
        /\ \A u \in Request \ {r} : Idle(u) /\ req'[u] = Lonely(req[u])
<1>1. \A s \in Request : req[s] \in Row(req[s])
  BY AtType
<1>2. CASE \E s \in Request : RequestStep(s)
  <2>1. PICK s \in Request : RequestStep(s)
    BY <1>2
  <2>2. s = r /\ req[r].op = "resolve" /\ ~req[r].alone
    BY <2>1, StepOp DEF Resolves
  <2>3. Steps(r)
    BY <2>1, <2>2, ResolveSteps DEF Resolves
  <2>4. PICK n : req' = [req EXCEPT ![r] = n] /\ Outcome(req[r], n)
    BY <2>3 DEF Steps
  <2>5. req'[r] = n
    BY <2>4 DEF TypeInv, ReqOK
  <2> QED BY <2>4, <2>5 DEF Outcome
<1>3. CASE \E s \in Request : Fail(s) \/ FailRow(s)
  BY <1>3, FailOp, FailRowOp DEF Resolves
<1>4. CASE \E s \in User : Arrival(s)
  <2>1. PICK s \in User : Arrival(s)
    BY <1>4
  <2>2. Joins(s)
    BY <2>1, ArrivalScored DEF User
  <2>3. s = r
    BY <1>1, <2>2, LonelyResolves DEF Joins
  <2> QED BY <2>2, <2>3 DEF Joins
<1>5. CASE BootBackfill
  <2>1. Boot \in Request
    BY DeskAssumption
  <2>2. req'[Boot].op = "backfill"
    <3>1. req'[Boot] = [Backfill EXCEPT !.op = "backfill"]
      BY <1>5, <2>1 DEF BootBackfill
    <3> QED BY <3>1 DEF Backfill, Blank
  <2>3. r # Boot => req'[r] = Lonely(req[r])
    BY <1>5 DEF BootBackfill, Lonely
  <2> QED BY <1>1, <2>2, <2>3, LonelyResolves DEF Resolves
<1>6. CASE \E s \in scope.signals, st \in scope.marks : Triage(s, st)
  <2>1. req'[r] = Lonely(req[r])
    BY <1>6 DEF Triage, Lonely
  <2> QED BY <1>1, <2>1, LonelyResolves
<1>7. CASE Crash \/ FailScan
  BY <1>7, BlankLocal DEF Crash, FailScan, Resolves
<1> QED BY <1>2, <1>3, <1>4, <1>5, <1>6, <1>7 DEF Next

LEMMA NextResolving == TypeInv /\ Located /\ Resolving /\ [Next]_vars => Resolving'
<1> SUFFICES ASSUME TypeInv, Located, Resolving, [Next]_vars,
                    NEW r \in Request, Resolves(req'[r])
             PROVE /\ Settling(req'[r], cases', triage', tasks')
                   /\ \A u \in Request \ {r} : Idle(u)'
  BY DEF Resolving
<1>1. CASE Resolves(req[r])
  <2>1. \A u \in Request \ {r} : Idle(u)
    BY <1>1 DEF Resolving
  <2>2. CASE UNCHANGED vars
    BY <1>1, <2>1, <2>2 DEF Resolving, vars, taskVars, deskVars, rest, Idle
  <2>3. CASE Steps(r) /\ \A s \in Request \ {r} : req'[s] = req[s]
    <3>1. PICK n : req' = [req EXCEPT ![r] = n] /\ Outcome(req[r], n)
      BY <2>3 DEF Steps
    <3>2. req'[r] = n
      BY <3>1 DEF TypeInv, ReqOK
    <3> QED BY <2>1, <2>3, <3>1, <3>2 DEF Outcome, Idle
  <2> QED BY <1>1, <2>2, <2>3, AloneSteps
<1>2. CASE ~Resolves(req[r])
  <2>1. Next
    BY <1>2 DEF vars, taskVars
  <2>2. /\ req'[r].at = "look"
        /\ \A u \in Request \ {r} : Idle(u) /\ req'[u] = Lonely(req[u])
    BY <1>2, <2>1, NewResolves
  <2>3. \A u \in Request \ {r} : Idle(u)'
    BY <2>2, AtType, LonelyResolves DEF Idle
  <2> QED BY <2>2, <2>3 DEF Settling, Closing
<1> QED BY <1>1, <1>2

LEMMA AlwaysResolving == Spec => [](TypeInv /\ Located /\ Resolving)
<1>1. Inv => TypeInv
  BY DEF Inv
<1>2. ScoreInv => Located
  BY DEF ScoreInv
<1>3. Init => Resolving
  BY BlankLocal DEF Init, TaskInit, Resolving, Resolves
<1> QED BY <1>1, <1>2, <1>3, AlwaysInv, AlwaysScored, NextResolving, PTL DEF Spec

(* A resolve that nothing overlapped answers only when its case is         *)
(* resolved, every signal of the case is done in the queue, and the task   *)
(* of the case, if it has one, is closed and scores nothing.               *)
THEOREM ResolveDone == Spec => ResolveSettles
<1> DEFINE Answers == \A r \in Request :
             LET q == req[r] IN
             q.op = "resolve" /\ q.alone /\ q.at # "view" /\ req'[r].at = "view" => Settled(q)
<1>1. ASSUME TypeInv, Located, Resolving, [Next]_vars PROVE Answers
  <2> SUFFICES ASSUME NEW r \in Request, Resolves(req[r]), req[r].at # "view",
                      req'[r].at = "view"
               PROVE Settled(req[r])
    BY DEF Resolves
  <2>1. ~UNCHANGED vars
    BY DEF vars, taskVars
  <2>2. Steps(r)
    BY <1>1, <2>1, AloneSteps
  <2>3. PICK n : req' = [req EXCEPT ![r] = n] /\ Outcome(req[r], n)
    BY <2>2 DEF Steps
  <2>4. req'[r] = n
    BY <1>1, <2>3 DEF TypeInv, ReqOK
  <2> QED BY <2>3, <2>4 DEF Outcome
<1>2. TypeInv /\ Located /\ Resolving /\ [Next]_vars => [Answers]_vars
  BY <1>1
<1>3. ResolveSettles <=> [][Answers]_vars
  BY PTL DEF ResolveSettles, Settled
<1> QED BY <1>2, <1>3, AlwaysResolving, PTL DEF Spec

=============================================================================
