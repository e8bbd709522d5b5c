------------------------------ MODULE MCVocDesk ------------------------------
(* Small instances of VocDesk for TLC: two analysts, a CVE signal and a     *)
(* post about the same CVE, and workloads of four or five requests each.    *)
EXTENDS VocDesk, TLC

CONSTANTS u1, u2, timer, x1, x2, cveSignal, post, bdu, scan, evidence

AllOps == {"create", "patch", "addCves", "removeCve", "open", "backfill", "resolve",
           "status", "step", "evidence", "regenerate", "get", "triage"}
Scores == (x1 :> 30) @@ (x2 :> 90)
Sources == (cveSignal :> "cve") @@ (post :> "tg") @@ (bdu :> "bdu")
About == (cveSignal :> {x1}) @@ (post :> {x1}) @@ (bdu :> {x2})
Ranks == (cveSignal :> "p2") @@ (post :> "p4") @@ (bdu :> "p1")

Builtin(S) == [ai |-> FALSE, steps |-> S]
Written(S) == [ai |-> TRUE, steps |-> S]

Count(ops) == [o \in AllOps |-> IF o \in DOMAIN ops THEN ops[o] ELSE 0]
NoFault == [crashes |-> 0, failures |-> 0]
Usual == [signals |-> {cveSignal, post}, wants |-> {TRUE}, statuses |-> {"in_progress"},
          patches |-> {"closed", "assign"}, marks |-> {"open"}, books |-> {Written({evidence})}]

(* Cases opened, merged, closed and opened again, by two analysts.          *)
Opening == [ops |-> Count([open |-> 2, status |-> 1, resolve |-> 1]), faults |-> NoFault,
            fired |-> TRUE, inputs |-> Usual]
(* The process dies, or a statement fails, anywhere on the way to a task.   *)
Crashing == [ops |-> Count([open |-> 1, status |-> 1]),
             faults |-> [crashes |-> 1, failures |-> 1], fired |-> FALSE,
             inputs |-> [Usual EXCEPT !.signals = {bdu}, !.statuses = {"open", "cancelled"}]]
(* Cases opened without a task get one from the backfill, and from signals  *)
(* that join.                                                               *)
Filling == [ops |-> Count([open |-> 2, backfill |-> 1]), faults |-> NoFault, fired |-> TRUE,
            inputs |-> [Usual EXCEPT !.wants = BOOLEAN]]
(* A task made from a case while others work on it.                         *)
Working == [ops |-> Count([open |-> 1, patch |-> 2, addCves |-> 1]), faults |-> NoFault,
            fired |-> TRUE, inputs |-> Usual]
(* A task without a case: an open race of links, and a failed statement.    *)
Tasking == [ops |-> Count([create |-> 1, addCves |-> 1, removeCve |-> 1]),
            faults |-> [crashes |-> 0, failures |-> 1], fired |-> TRUE, inputs |-> Usual]
(* The playbook of a case, read and written by everyone.                    *)
Marking == [ops |-> Count([open |-> 1, step |-> 1, evidence |-> 1, regenerate |-> 1, get |-> 1]),
            faults |-> NoFault, fired |-> TRUE,
            inputs |-> [Usual EXCEPT !.wants = {FALSE}, !.signals = {cveSignal},
                                     !.books = {Builtin({scan, evidence}), Builtin({scan}),
                                                Written({scan, evidence})}]]
(* Resolving while the queue is edited and the task is patched.             *)
Resolving == [ops |-> Count([open |-> 1, resolve |-> 1, triage |-> 1, patch |-> 1]),
              faults |-> NoFault, fired |-> TRUE,
              inputs |-> [Usual EXCEPT !.patches = {"new", "edit"}]]
(* Resolving a case without a task, which the start's backfill also finds.  *)
Starting == [ops |-> Count([open |-> 1, resolve |-> 1]), faults |-> NoFault, fired |-> FALSE,
             inputs |-> [Usual EXCEPT !.wants = {FALSE}]]

(* One case with a task, and one edit of the task.                          *)
Editing == {[ops |-> Count([open |-> 1, patch |-> 1]), faults |-> NoFault, fired |-> TRUE,
             inputs |-> [Usual EXCEPT !.patches = {"edit"}]]}

Workloads == {Opening, Crashing, Filling, Working, Tasking, Marking, Resolving,
              Starting}
=============================================================================
