------------------------ MODULE PlatformUpdateProofs ------------------------
(***************************************************************************)
(* Proofs about PlatformUpdate, for any number of requests and scripts:    *)
(* type correctness, one updater at a time, a truthful status file, that   *)
(* updating implements Installation, and that what goes live is what is    *)
(* checked out.                                                            *)
(***************************************************************************)
EXTENDS PlatformUpdate, FiniteSetTheorems, TLAPS

(* Fetching and merging keep the three branches in order. *)
Ordered == checkout <= origin /\ origin <= remote

(* As long as none slipped by, one request at most is past the busy test. *)
Lone == ~slipped => \A a, b \in Admin : Passed(a) /\ Passed(b) => a = b

(* Without a slow step the status file tells a running script, there is    *)
(* one, and there is none while a request is about to start it.            *)
Clear == ~slipped /\ ages = 0 =>
           /\ Running # {} => Busy
           /\ \A s, t \in Running : s = t
           /\ \A a \in Admin : asking[a] \in {"announce", "remove", "launch", "fail"}
                                 => Running = {}

(* The helper's container has one name; removing it makes way for the next. *)
Alone == mode = "compose-helper" =>
           /\ \A s \in Running : s = Container
           /\ ~slipped => /\ Running # {} => job \notin Terminal
                          /\ \A a \in Admin : asking[a] \in {"launch", "fail"}
                                                => Running = {}

Inv == TypeOK /\ Ordered /\ Lone /\ Clear /\ Alone

LEMMA Bounds == MaxRemote \in Nat /\ MaxOverlaps \in Nat /\ MaxAges \in Nat /\ MaxFaults \in Nat
  BY UpdateAssumption

LEMMA InitInv == Init => Inv
<1> SUFFICES ASSUME Init PROVE Inv
  OBVIOUS
<1>1. TypeOK
  <2>1. job \in Phase /\ 0 \in Version
    BY Bounds DEF Init, Phase, Terminal, Version
  <2>2. {locked, recent} \subseteq BOOLEAN /\ slipped \in BOOLEAN
    BY Zenon DEF Init
  <2> QED BY <2>1, <2>2, Bounds DEF Init, TypeOK
<1>2. Running = {}
  BY DEF Init, Running
<1>3. \A a \in Admin : asking[a] = "idle"
  BY DEF Init
<1>4. Ordered
  BY DEF Init, Ordered
<1> QED BY <1>1, <1>2, <1>3, <1>4 DEF Inv, Lone, Clear, Alone, Passed

-----------------------------------------------------------------------------
(* Type correctness. *)

LEMMA AnswerType ==
  ASSUME TypeOK, NEW a \in Admin, Ask(a) \/ Answer(a)
  PROVE TypeOK'
<1> USE Bounds
    DEF TypeOK, Version, Phase, Terminal, ScriptPhase, Place, shaVars, gitVars, raceVars,
        fileVars, stackVars, Step, Fault, WriteJob
<1>1. CASE Ask(a) BY <1>1 DEF Ask
<1>2. CASE Check(a) BY <1>2 DEF Check
<1>3. CASE Gate(a)
  <2>1. locked' \in BOOLEAN /\ slipped' \in BOOLEAN
    BY <1>3, Zenon DEF Gate
  <2>2. /\ asking' = [asking EXCEPT ![a] = "idle"] \/ asking' = [asking EXCEPT ![a] = "announce"]
        /\ faults' = faults \/ (faults < MaxFaults /\ faults' = faults + 1)
    BY <1>3, Zenon DEF Gate
  <2>3. UNCHANGED <<recent, job, script, before, built, mode, remote, origin, checkout, deployed,
                    overlaps, ages>>
    BY <1>3 DEF Gate
  <2> QED BY <2>1, <2>2, <2>3
<1>4. CASE Announce(a) BY <1>4 DEF Announce
<1>5. CASE RemoveContainer(a)
  <2>1. Container \in Slot /\ 0 \in Version
    BY UpdateAssumption
  <2>2. /\ script' \in [Slot -> Place \cup {"off"}]
        /\ before' \in [Slot -> Version] /\ built' \in [Slot -> Version]
    BY <1>5, <2>1 DEF RemoveContainer, Leave
  <2> QED BY <1>5, <2>2 DEF RemoveContainer
<1>6. ASSUME NEW s \in Slot, Launch(a, s) PROVE TypeOK' BY <1>6 DEF Launch
<1>7. CASE LaunchFails(a) BY <1>7 DEF LaunchFails
<1>8. CASE Confirm(a) BY <1>8 DEF Confirm
<1>9. CASE ReportFailure(a) BY <1>9 DEF ReportFailure
<1> QED BY <1>1, <1>2, <1>3, <1>4, <1>5, <1>6, <1>7, <1>8, <1>9 DEF Answer

LEMMA ScriptType ==
  ASSUME TypeOK, NEW s \in Slot, Proceed(s) \/ Die(s) \/ Killed(s)
  PROVE TypeOK'
<1> USE Bounds
    DEF TypeOK, Version, Phase, Terminal, ScriptPhase, Place, shaVars, Leave, gitVars, raceVars,
        apiVars, fileVars, stackVars, Fault, WriteJob, Advance
<1>1. CASE Backup(s) BY <1>1 DEF Backup
<1>2. CASE Fetch(s) BY <1>2 DEF Fetch
<1>3. CASE UpToDate(s) BY <1>3 DEF UpToDate
<1>4. CASE Pull(s) BY <1>4 DEF Pull
<1>5. CASE Merge(s) BY <1>5 DEF Merge
<1>6. CASE Capture(s) BY <1>6 DEF Capture
<1>7. CASE Replace(s)
  <2>1. /\ UNCHANGED asking \/ asking' = [a \in Admin |-> "idle"]
        /\ locked' \in BOOLEAN /\ slipped' = slipped /\ overlaps' = overlaps
    BY <1>7, Zenon DEF Replace
  <2>2. deployed' \in Version
    BY <1>7 DEF Replace
  <2> QED BY <1>7, <2>1, <2>2 DEF Replace
<1>8. CASE AwaitHealth(s) BY <1>8 DEF AwaitHealth
<1>9. CASE Finish(s) BY <1>9 DEF Finish
<1>10. CASE Die(s) BY <1>10 DEF Die
<1>11. CASE Killed(s) BY <1>11 DEF Killed
<1> QED
  BY <1>1, <1>2, <1>3, <1>4, <1>5, <1>6, <1>7, <1>8, <1>9, <1>10, <1>11 DEF Proceed

LEMMA TypeStep == TypeOK /\ [Next]_vars => TypeOK'
<1> SUFFICES ASSUME TypeOK, [Next]_vars PROVE TypeOK'
  OBVIOUS
<1> USE Bounds
    DEF TypeOK, Version, Phase, Terminal, ScriptPhase, Place, shaVars, gitVars, raceVars,
        apiVars, fileVars, stackVars, Fault
<1>1. CASE Unlock BY <1>1 DEF Unlock
<1>2. CASE ApiRestart
  <2>1. locked' \in BOOLEAN
    BY <1>2, Zenon DEF ApiRestart
  <2> QED BY <1>2, <2>1 DEF ApiRestart
<1>3. CASE JobAges
  <2>1. recent' \in BOOLEAN
    BY <1>3, Zenon DEF JobAges
  <2> QED BY <1>3, <2>1 DEF JobAges
<1>4. CASE Push BY <1>4 DEF Push
<1>5. CASE UNCHANGED vars BY <1>5 DEF vars
<1> QED BY <1>1, <1>2, <1>3, <1>4, <1>5, AnswerType, ScriptType DEF Next

(* Every variable keeps its type, for any bounds. *)
THEOREM UpdateTypeCorrect == Spec => []TypeOK
<1>1. Init => TypeOK BY InitInv DEF Inv
<1> QED BY <1>1, TypeStep, PTL DEF Spec

-----------------------------------------------------------------------------
(* Updating implements Installation. *)

(* The versions images are being built from, as Installation sees them. *)
Building == {built[s] : s \in {t \in Slot : script[t] = "images"}}

SoftwareStep == [Software!Next]_<<remote, checkout, Building, deployed>>

(* A step that leaves the scripts that build alone leaves the builds alone. *)
LEMMA SameBuilds ==
  ASSUME \A s \in Slot : /\ script'[s] = "images" <=> script[s] = "images"
                         /\ script[s] = "images" => built'[s] = built[s]
  PROVE Building' = Building
  BY DEF Building

(* A script that gives up building takes its own build with it at most. *)
LEMMA OneBuildLess ==
  ASSUME NEW s \in Slot, script'[s] # "images",
         \A t \in Slot \ {s} : script'[t] = script[t] /\ built'[t] = built[t]
  PROVE \/ script[s] # "images" /\ Building' = Building
        \/ /\ script[s] = "images" /\ built[s] \in Building
           /\ Building' \in {Building, Building \ {built[s]}}
<1>1. CASE script[s] # "images"
  BY <1>1 DEF Building
<1>2. CASE script[s] = "images"
  <2>1. built[s] \in Building /\ Building' \subseteq Building
    BY <1>2 DEF Building
  <2>2. \A v \in Building : v # built[s] => v \in Building'
    BY <1>2 DEF Building
  <2> QED BY <1>2, <2>1, <2>2
<1> QED BY <1>1, <1>2

LEMMA LeaveBuilds ==
  ASSUME TypeOK, NEW s \in Slot, Leave(s), UNCHANGED <<remote, checkout, deployed>>
  PROVE SoftwareStep
<1>1. script'[s] # "images" /\ \A t \in Slot \ {s} : script'[t] = script[t] /\ built'[t] = built[t]
  BY DEF Leave, TypeOK
<1>2. \/ Building' = Building
      \/ built[s] \in Building /\ Building' \in {Building, Building \ {built[s]}}
  BY <1>1, OneBuildLess
<1> QED BY <1>2 DEF SoftwareStep, Software!Next, Software!EndBuild, Building

(* Every step is one of the abstract update, or none of its business. *)
LEMMA ScriptSoftware ==
  ASSUME TypeOK, Ordered, NEW s \in Slot, Proceed(s) \/ Die(s) \/ Killed(s)
  PROVE SoftwareStep
<1>1. ASSUME UpToDate(s) \/ Finish(s) \/ Die(s) \/ Killed(s) PROVE SoftwareStep
  BY <1>1, LeaveBuilds DEF UpToDate, Finish, Die, Killed, gitVars, stackVars
<1>2. ASSUME Backup(s) \/ Fetch(s) \/ Pull(s) \/ AwaitHealth(s) PROVE SoftwareStep
  <2>1. UNCHANGED <<remote, checkout, deployed, built>>
    BY <1>2 DEF Backup, Fetch, Pull, AwaitHealth, gitVars, stackVars, shaVars
  <2>2. \A t \in Slot : script'[t] = "images" <=> script[t] = "images"
    BY <1>2 DEF Backup, Fetch, Pull, AwaitHealth, Advance, TypeOK
  <2>3. Building' = Building
    BY <2>1, <2>2, SameBuilds
  <2> QED BY <2>1, <2>3 DEF SoftwareStep
<1>3. CASE Merge(s)
  <2>1. checkout' = origin /\ UNCHANGED <<remote, deployed, built>>
    BY <1>3 DEF Merge, stackVars, shaVars
  <2>2. \A t \in Slot : script'[t] = "images" <=> script[t] = "images"
    BY <1>3 DEF Merge, Advance, TypeOK
  <2>3. Building' = Building
    BY <2>1, <2>2, SameBuilds
  <2>4. remote \in Nat /\ origin \in Nat /\ checkout \in Nat
    BY Bounds DEF TypeOK, Version
  <2>5. checkout' = checkout \/ checkout' \in (checkout + 1)..remote
    BY <2>1, <2>4 DEF Ordered
  <2> QED
    BY <2>1, <2>3, <2>5 DEF SoftwareStep, Software!Next, Software!Install, Building
<1>4. CASE Capture(s)
  <2>1. /\ UNCHANGED <<remote, checkout, deployed>>
        /\ script[s] # "images" /\ script'[s] = "images" /\ built'[s] = checkout
        /\ \A t \in Slot \ {s} : script'[t] = script[t] /\ built'[t] = built[t]
    BY <1>4 DEF Capture, gitVars, stackVars, TypeOK
  <2>2. Building' = Building \cup {checkout}
    BY <2>1 DEF Building
  <2> QED BY <2>1, <2>2 DEF SoftwareStep, Software!Next, Software!StartBuild, Building
<1>5. CASE Replace(s)
  <2>1. /\ UNCHANGED <<remote, checkout>> /\ deployed' = built[s]
        /\ script[s] = "images" /\ script'[s] # "images"
        /\ \A t \in Slot \ {s} : script'[t] = script[t] /\ built'[t] = built[t]
    BY <1>5 DEF Replace, gitVars, TypeOK
  <2>2. built[s] \in Building /\ Building' \in {Building, Building \ {built[s]}}
    BY <2>1, OneBuildLess
  <2> QED BY <2>1, <2>2 DEF SoftwareStep, Software!Next, Software!EndBuild, Building
<1> QED BY <1>1, <1>2, <1>3, <1>4, <1>5 DEF Proceed

LEMMA OrderedStep == TypeOK /\ Ordered /\ [Next]_vars => Ordered' /\ SoftwareStep
<1> SUFFICES ASSUME TypeOK, Ordered, [Next]_vars
             PROVE Ordered' /\ SoftwareStep
  OBVIOUS
<1>1. remote \in Nat /\ origin \in Nat /\ checkout \in Nat
  BY Bounds DEF TypeOK, Version
<1>2. ASSUME NEW a \in Admin, Ask(a) \/ Answer(a) PROVE Ordered' /\ SoftwareStep
  <2>1. /\ UNCHANGED <<remote, checkout, deployed>>
        /\ origin' = origin \/ origin' = remote
    BY <1>2 DEF Ask, Answer, Check, Gate, Announce, RemoveContainer, Launch, LaunchFails, Confirm,
                ReportFailure, gitVars, stackVars
  <2>2. CASE RemoveContainer(a)
    BY <1>1, <2>1, <2>2, LeaveBuilds, UpdateAssumption DEF RemoveContainer, Ordered
  <2>3. ASSUME NEW s \in Slot, Launch(a, s) PROVE Building' = Building
    <3>1. /\ \A t \in Slot : script'[t] = "images" <=> script[t] = "images"
          /\ built' = built
      BY <2>3 DEF Launch, Home, TypeOK, shaVars
    <3> QED BY <3>1, SameBuilds
  <2>4. ASSUME UNCHANGED <<script, built>> PROVE Building' = Building
    BY <2>4, SameBuilds
  <2>5. \/ RemoveContainer(a) \/ \E s \in Slot : Launch(a, s)
        \/ UNCHANGED <<script, built>>
    BY <1>2 DEF Ask, Answer, Check, Gate, Announce, LaunchFails, Confirm, ReportFailure, shaVars
  <2>6. Ordered'
    BY <1>1, <2>1 DEF Ordered
  <2> QED BY <2>1, <2>2, <2>3, <2>4, <2>5, <2>6 DEF SoftwareStep
<1>3. ASSUME NEW s \in Slot, Proceed(s) \/ Die(s) \/ Killed(s) PROVE Ordered' /\ SoftwareStep
  <2>1. /\ remote' = remote
        /\ \/ UNCHANGED <<origin, checkout>>
           \/ origin' = remote /\ checkout' = checkout
           \/ checkout' = origin /\ origin' = origin
    BY <1>3 DEF Proceed, Backup, Fetch, UpToDate, Pull, Merge, Capture, Replace, AwaitHealth,
                Finish, Die, Killed, gitVars
  <2>2. Ordered'
    BY <1>1, <2>1 DEF Ordered
  <2> QED BY <1>3, <2>2, ScriptSoftware
<1>4. CASE Push
  <2>1. /\ remote' = remote + 1 /\ UNCHANGED <<origin, checkout, deployed, script, built>>
    BY <1>4 DEF Push, stackVars, shaVars
  <2>2. Building' = Building
    BY <2>1, SameBuilds
  <2> QED
    BY <1>1, <2>1, <2>2 DEF Ordered, SoftwareStep, Software!Next, Software!Publish, Building
<1>5. CASE Unlock \/ ApiRestart \/ JobAges \/ UNCHANGED vars
  <2>1. UNCHANGED <<remote, origin, checkout, deployed, script, built>>
    BY <1>5 DEF Unlock, ApiRestart, JobAges, vars, gitVars, stackVars, shaVars
  <2>2. Building' = Building
    BY <2>1, SameBuilds
  <2> QED BY <2>1, <2>2 DEF Ordered, SoftwareStep
<1> QED BY <1>2, <1>3, <1>4, <1>5 DEF Next

(* Whatever the interleaving, the checkout moves forward to published      *)
(* versions and what runs is replaced by a build of what was checked out   *)
(* when that build began (merge --ff-only, compose up --build).            *)
THEOREM UpdateInstalls == Spec => Installs
<1>1. Init => TypeOK /\ Ordered
  BY InitInv DEF Inv
<1>2. Init => Software!Init
  BY DEF Init, Software!Init
<1>3. TypeOK /\ Ordered /\ [Next]_vars
        => TypeOK' /\ Ordered' /\ [Software!Next]_Software!vars
  BY TypeStep, OrderedStep DEF SoftwareStep, Software!vars, Building
<1> QED BY <1>1, <1>2, <1>3, PTL DEF Spec, Installs, Software!Spec

-----------------------------------------------------------------------------
(* One updater at a time, and a status file that tells of it. *)

Races == Lone /\ Clear /\ Alone

(* What a step of a script can do to the others' view of it. *)
LEMMA AdvanceRuns ==
  ASSUME TypeOK, NEW s \in Slot, NEW from \in ScriptPhase \cup {"up"}, NEW to \in ScriptPhase,
         Advance(s, from, to)
  PROVE Running # {} /\ Running' = Running /\ job' \notin Terminal /\ Busy'
<1>1. script[s] # "off" /\ script' = [script EXCEPT ![s] = to] /\ to # "off" /\ job' = to /\ recent'
  BY Zenon DEF Advance, WriteJob, ScriptPhase
<1>2. Running' = Running /\ s \in Running
  BY <1>1 DEF TypeOK, Running
<1>3. job' \notin Terminal
  BY <1>1 DEF ScriptPhase, Terminal
<1> QED BY <1>1, <1>2, <1>3 DEF Busy

LEMMA LeaveRuns ==
  ASSUME TypeOK, NEW s \in Slot, Leave(s)
  PROVE Running' = Running \ {s}
  BY DEF TypeOK, Running, Leave

(* A step that starts nothing, lets no request past the busy test and keeps *)
(* the file truthful keeps all three.                                       *)
LEMMA QuietStep ==
  ASSUME Races, Running' \subseteq Running, mode' = mode, slipped' = slipped,
         ages' = 0 => ages = 0,
         \A a \in Admin : asking'[a] = asking[a] \/ ~Passed(a)',
         Running' # {} => /\ job \notin Terminal => job' \notin Terminal
                          /\ Busy /\ ages' = 0 => Busy'
  PROVE Races'
<1>1. Lone'
  BY DEF Races, Lone, Passed
<1>2. Clear'
  BY DEF Races, Clear, Passed
<1>3. Alone'
  BY DEF Races, Alone, Passed
<1> QED BY <1>1, <1>2, <1>3 DEF Races

(* What one request does past the busy test, the only one there. *)
LEMMA GateRaces ==
  ASSUME TypeOK, Races, NEW a \in Admin, Gate(a)
  PROVE Races'
<1>1. /\ Running' = Running /\ mode' = mode /\ ages' = ages /\ job' = job /\ (Busy' <=> Busy)
      /\ asking[a] = "gate" /\ asking \in [Admin -> {"idle", "check", "gate", "announce",
                                  "remove", "launch", "confirm", "fail"}]
  BY Zenon DEF Gate, TypeOK, fileVars, stackVars, Running, Busy
<1>2. CASE asking' = [asking EXCEPT ![a] = "idle"] /\ slipped' = slipped
  <2>1. \A b \in Admin : asking'[b] = asking[b] \/ ~Passed(b)'
    BY <1>1, <1>2 DEF Passed
  <2> QED BY <1>1, <1>2, <2>1, QuietStep
<1>3. CASE /\ asking' = [asking EXCEPT ![a] = "announce"]
           /\ ~slipped' => /\ ~Busy
                           /\ \A b \in Admin : ~Passed(b)
                           /\ ~slipped \/ Running = {}
  <2>1. \A b \in Admin : b # a => asking'[b] = asking[b]
    BY <1>1, <1>3
  <2>2. asking'[a] = "announce"
    BY <1>1, <1>3
  <2>3. Lone'
    BY <1>3, <2>1 DEF Lone, Passed
  <2>4. Clear'
    BY <1>1, <1>3 DEF Races, Clear
  <2>5. Alone'
    BY <1>1, <1>3, <2>1, <2>2 DEF Races, Alone, Passed
  <2> QED BY <2>3, <2>4, <2>5 DEF Races
<1> QED BY <1>2, <1>3, Zenon DEF Gate, Step

LEMMA LaunchRaces ==
  ASSUME TypeOK, Races, NEW a \in Admin, NEW s \in Slot, Launch(a, s)
  PROVE Races'
<1>1. /\ asking[a] = "launch" /\ asking' = [asking EXCEPT ![a] = "confirm"]
      /\ script' = [script EXCEPT ![s] = "preflight"] /\ Home(s)
      /\ job' = "preflight" /\ recent' /\ mode' = mode /\ ages' = ages /\ slipped' = slipped
  BY Zenon DEF Launch, Step, WriteJob, raceVars, stackVars
<1>2. Running' = Running \cup {s}
  BY <1>1 DEF TypeOK, Running
<1>3. asking'[a] = "confirm" /\ \A b \in Admin : b # a => asking'[b] = asking[b]
  BY <1>1 DEF TypeOK
<1>4. Lone'
  BY <1>1, <1>3 DEF Races, Lone, Passed
<1>5. ~slipped => \A b \in Admin : asking'[b] \notin {"announce", "remove", "launch", "fail"}
  BY <1>1, <1>3 DEF Races, Lone, Passed
<1>6. job' \notin Terminal /\ Busy'
  BY <1>1 DEF Busy, Terminal
<1>7. Clear'
  BY <1>1, <1>2, <1>5, <1>6 DEF Races, Clear
<1>8. Alone'
  BY <1>1, <1>2, <1>5, <1>6 DEF Races, Alone, Home
<1> QED BY <1>4, <1>7, <1>8 DEF Races

(* The other steps of a request. *)
LEMMA PassRaces ==
  ASSUME TypeOK, Races, NEW a \in Admin,
         \/ Announce(a) \/ RemoveContainer(a) \/ LaunchFails(a)
         \/ Confirm(a) \/ ReportFailure(a)
  PROVE Races'
<1>1. /\ mode' = mode /\ ages' = ages /\ slipped' = slipped
      /\ \A b \in Admin : b # a => asking'[b] = asking[b]
      /\ asking \in [Admin -> {"idle", "check", "gate", "announce", "remove", "launch",
                               "confirm", "fail"}]
  BY DEF Announce, RemoveContainer, LaunchFails, Confirm, ReportFailure, Step, raceVars,
         stackVars, TypeOK
<1>2. Passed(a) /\ (asking'[a] = "idle" \/ Passed(a)')
  BY DEF Announce, RemoveContainer, LaunchFails, Confirm, ReportFailure, Step, Passed, TypeOK
<1>3. Lone'
  BY <1>1, <1>2 DEF Races, Lone, Passed
<1>4. CASE Announce(a) \/ Confirm(a)
  <2>1. Running' = Running /\ job' \notin Terminal /\ Busy'
    BY <1>4, Zenon DEF Announce, Confirm, WriteJob, Running, Busy, Terminal
  <2>2. \/ /\ asking[a] = "announce"
           /\ asking'[a] = IF mode = "compose-helper" THEN "remove" ELSE "launch"
        \/ asking'[a] = "idle"
    BY <1>1, <1>4 DEF Announce, Confirm, Step
  <2>3. Clear'
    BY <1>1, <2>1, <2>2 DEF Races, Clear
  <2>4. Alone'
    BY <1>1, <2>1, <2>2 DEF Races, Alone
  <2> QED BY <1>3, <2>3, <2>4 DEF Races
<1>5. CASE RemoveContainer(a)
  <2>1. Running' = Running \ {Container} /\ job' = job /\ (Busy' <=> Busy)
    BY <1>5, UpdateAssumption, LeaveRuns DEF RemoveContainer, fileVars, Busy
  <2>2. asking[a] = "remove" /\ asking'[a] = "launch"
    BY <1>1, <1>5 DEF RemoveContainer, Step
  <2>3. Clear'
    BY <1>1, <2>1, <2>2 DEF Races, Clear
  <2>4. Alone'
    BY <1>1, <2>1, <2>2 DEF Races, Alone
  <2> QED BY <1>3, <2>3, <2>4 DEF Races
<1>6. CASE LaunchFails(a)
  <2>1. Running' = Running /\ job' = job /\ (Busy' <=> Busy)
    BY <1>6, Zenon DEF LaunchFails, fileVars, Running, Busy
  <2>2. asking[a] = "launch" /\ asking'[a] = "fail"
    BY <1>1, <1>6 DEF LaunchFails, Step
  <2>3. Clear'
    BY <1>1, <2>1, <2>2 DEF Races, Clear
  <2>4. Alone'
    BY <1>1, <2>1, <2>2 DEF Races, Alone
  <2> QED BY <1>3, <2>3, <2>4 DEF Races
<1>7. CASE ReportFailure(a)
  <2>1. Running' = Running
    BY <1>7 DEF ReportFailure, Running
  <2>2. asking[a] = "fail" /\ asking'[a] = "idle"
    BY <1>1, <1>7 DEF ReportFailure, Step
  <2>3. Clear'
    BY <1>1, <2>1, <2>2 DEF Races, Clear
  <2>4. Alone'
    BY <1>1, <2>1, <2>2 DEF Races, Alone
  <2> QED BY <1>3, <2>3, <2>4 DEF Races
<1> QED BY <1>4, <1>5, <1>6, <1>7

LEMMA ScriptRaces ==
  ASSUME TypeOK, Races, NEW s \in Slot, Proceed(s) \/ Die(s) \/ Killed(s)
  PROVE Races'
<1>1. CASE /\ Running' = Running \ {s} /\ s \in Running
           /\ UNCHANGED <<asking, mode, slipped, ages>>
  <2>1. Clear'
    BY <1>1 DEF Races, Clear
  <2>2. Alone'
    BY <1>1 DEF Races, Alone
  <2>3. Lone'
    BY <1>1 DEF Races, Lone, Passed
  <2> QED BY <2>1, <2>2, <2>3 DEF Races
<1>2. CASE UpToDate(s) \/ Finish(s) \/ Die(s) \/ Killed(s)
  <2>1. s \in Running /\ Leave(s) /\ UNCHANGED <<asking, mode, slipped, ages>>
    BY <1>2 DEF UpToDate, Finish, Die, Killed, Running, apiVars, raceVars, stackVars
  <2> QED BY <1>1, <2>1, LeaveRuns
<1>3. /\ mode' = mode
      /\ Backup(s) \/ Fetch(s) \/ Pull(s) \/ Merge(s) \/ Capture(s) \/ Replace(s)
           \/ AwaitHealth(s) =>
           /\ slipped' = slipped /\ ages' = ages
           /\ \A a \in Admin : asking'[a] = asking[a] \/ ~Passed(a)'
  BY DEF Proceed, Die, Killed, Backup, Fetch, UpToDate, Pull, Merge, Capture, Replace,
         AwaitHealth, Finish, apiVars, raceVars, stackVars, Passed
<1>4. CASE Backup(s) \/ Fetch(s) \/ Pull(s) \/ Merge(s) \/ AwaitHealth(s)
  <2>1. \E from \in ScriptPhase \cup {"up"}, to \in ScriptPhase : Advance(s, from, to)
    BY <1>4 DEF Backup, Fetch, Pull, Merge, AwaitHealth, ScriptPhase
  <2>2. Running' = Running /\ job' \notin Terminal /\ Busy'
    BY <2>1, AdvanceRuns
  <2> QED BY <1>3, <1>4, <2>2, QuietStep
<1>5. CASE Capture(s) \/ Replace(s)
  <2>1. Running' = Running
    BY <1>5 DEF Capture, Replace, Running, TypeOK
  <2>2. job' = job /\ (Busy' <=> Busy)
    <3>1. UNCHANGED <<job, recent>>
      BY <1>5 DEF Capture, Replace, fileVars
    <3> QED BY <3>1, Zenon DEF Busy
  <2> QED BY <1>3, <1>5, <2>1, <2>2, QuietStep
<1> QED BY <1>2, <1>4, <1>5 DEF Proceed

LEMMA RaceStep == TypeOK /\ Races /\ [Next]_vars => Races'
<1> SUFFICES ASSUME TypeOK, Races, [Next]_vars PROVE Races'
  OBVIOUS
<1>1. ASSUME NEW a \in Admin, Ask(a) \/ Check(a) PROVE Races'
  <2>1. /\ Running' = Running /\ mode' = mode /\ slipped' = slipped /\ ages' = ages
        /\ job' = job /\ (Busy' <=> Busy)
    <3>1. UNCHANGED <<script, mode, slipped, ages, job, recent>>
      BY <1>1 DEF Ask, Check, fileVars, stackVars, raceVars
    <3> QED BY <3>1, Zenon DEF Running, Busy
  <2>2. \A b \in Admin : asking'[b] = asking[b] \/ ~Passed(b)'
    BY <1>1 DEF Ask, Check, Step, TypeOK, Passed
  <2> QED BY <2>1, <2>2, QuietStep
<1>2. CASE Unlock \/ ApiRestart \/ Push \/ UNCHANGED vars
  <2>1. /\ Running' = Running /\ mode' = mode /\ slipped' = slipped /\ ages' = ages
        /\ job' = job /\ (Busy' <=> Busy)
    <3>1. UNCHANGED <<script, mode, slipped, ages, job, recent>>
      BY <1>2 DEF Unlock, ApiRestart, Push, vars, apiVars, fileVars, stackVars, raceVars
    <3> QED BY <3>1, Zenon DEF Running, Busy
  <2>2. \A a \in Admin : asking'[a] = asking[a] \/ ~Passed(a)'
    BY <1>2 DEF Unlock, ApiRestart, Push, vars, apiVars, Passed
  <2> QED BY <2>1, <2>2, QuietStep
<1>3. CASE JobAges
  <2>1. /\ Running' = Running /\ mode' = mode /\ slipped' = slipped /\ job' = job
        /\ asking' = asking
    BY <1>3, Zenon DEF JobAges, apiVars, raceVars, stackVars, Running
  <2>2. ages' = 0 => ages = 0 /\ Running = {}
    BY <1>3, Bounds DEF JobAges, TypeOK
  <2> QED BY <2>1, <2>2, QuietStep
<1> QED BY <1>1, <1>2, <1>3, GateRaces, LaunchRaces, PassRaces, ScriptRaces DEF Next, Answer

(* The status file never says that none is at work while a script runs and *)
(* apply was never let past the busy test.                                 *)
LEMMA RacesTell == TypeOK /\ Races => RunningIsBusy
  BY DEF Races, Clear, Alone, RunningIsBusy, Busy

LEMMA RacesOne == TypeOK /\ Races => OneUpdater
<1> SUFFICES ASSUME TypeOK, Races, ages = 0, ~slipped PROVE Cardinality(Running) <= 1
  BY DEF OneUpdater
<1>1. CASE Running = {}
  BY <1>1, FS_EmptySet
<1>2. ASSUME NEW s \in Running PROVE Cardinality(Running) <= 1
  <2>1. Running = {s}
    BY <1>2 DEF Races, Clear
  <2> QED BY <2>1, FS_Singleton
<1> QED BY <1>1, <1>2

(* What is being built is what is checked out, as long as no other script  *)
(* can have merged since.                                                  *)
Current == (ages = 0 /\ ~slipped) \/ mode = "compose-helper" =>
             \A s \in Slot : script[s] = "images" => built[s] = checkout

(* With the excuses out of the way there is one script at most. *)
LEMMA Only == ASSUME Races, (ages = 0 /\ ~slipped) \/ mode = "compose-helper"
              PROVE \A s, t \in Running : s = t
  BY DEF Races, Clear, Alone

(* The excuses of a step are those of the state before it, unless there is *)
(* no script at all.                                                       *)
LEMMA ExcuseStep ==
  ASSUME TypeOK, Races, [Next]_vars,
         (ages' = 0 /\ ~slipped') \/ mode' = "compose-helper",
         \E s \in Slot : script[s] = "images"
  PROVE (ages = 0 /\ ~slipped) \/ mode = "compose-helper"
<1>1. mode' = mode /\ Running # {}
  BY DEF Next, Ask, Answer, Check, Gate, Announce, RemoveContainer, Launch, LaunchFails, Confirm,
         ReportFailure, Proceed, Backup, Fetch, UpToDate, Pull, Merge, Capture, Replace,
         AwaitHealth, Finish, Die, Killed, Unlock, ApiRestart, JobAges, Push, vars, stackVars,
         Running
<1>2. ages' = 0 => ages = 0
  <2>1. CASE JobAges
    BY <2>1, Bounds DEF JobAges, TypeOK
  <2>2. ASSUME ~JobAges PROVE ages' = ages
    BY <2>2
       DEF Next, Ask, Answer, Check, Gate, Announce, RemoveContainer, Launch, LaunchFails, Confirm,
           ReportFailure, Proceed, Backup, Fetch, UpToDate, Pull, Merge, Capture, Replace,
           AwaitHealth, Finish, Die, Killed, Unlock, ApiRestart, Push, vars
  <2> QED BY <2>1, <2>2
<1>3. ~slipped' => ~slipped
  <2>1. ASSUME NEW a \in Admin, Gate(a), ~slipped' PROVE ~slipped
    BY <1>1, <2>1, Zenon DEF Gate
  <2>2. ASSUME ~(\E a \in Admin : Gate(a)) PROVE slipped' = slipped
    BY <2>2
       DEF Next, Ask, Answer, Check, Announce, RemoveContainer, Launch, LaunchFails, Confirm,
           ReportFailure, Proceed, Backup, Fetch, UpToDate, Pull, Merge, Capture, Replace,
           AwaitHealth, Finish, Die, Killed, Unlock, ApiRestart, JobAges, Push, vars, apiVars,
           raceVars
  <2> QED BY <2>1, <2>2
<1> QED BY <1>1, <1>2, <1>3

LEMMA CurrentStep == TypeOK /\ Races /\ Current /\ [Next]_vars => Current'
<1> SUFFICES ASSUME TypeOK, Races, Current, [Next]_vars,
                    (ages' = 0 /\ ~slipped') \/ mode' = "compose-helper",
                    NEW s \in Slot, script'[s] = "images"
             PROVE built'[s] = checkout'
  BY DEF Current
<1>1. CASE Capture(s)
  BY <1>1 DEF Capture, gitVars, TypeOK
<1>2. ASSUME ~Capture(s) PROVE script[s] = "images" /\ built'[s] = built[s]
  <2>1. CASE UNCHANGED <<script, built>>
    BY <2>1
  <2>2. ASSUME NEW t \in Slot, Leave(t) PROVE script[s] = "images" /\ built'[s] = built[s]
    BY <2>2 DEF Leave, TypeOK
  <2>3. ASSUME NEW t \in Slot, t # s, Capture(t)
        PROVE script[s] = "images" /\ built'[s] = built[s]
    BY <2>3 DEF Capture, TypeOK
  <2>4. ASSUME NEW t \in Slot, Replace(t) PROVE script[s] = "images" /\ built'[s] = built[s]
    BY <2>4 DEF Replace, TypeOK
  <2>5. ASSUME NEW t \in Slot, Backup(t) \/ Fetch(t) \/ Pull(t) \/ Merge(t) \/ AwaitHealth(t)
        PROVE script[s] = "images" /\ built'[s] = built[s]
    BY <2>5 DEF Backup, Fetch, Pull, Merge, AwaitHealth, Advance, shaVars, TypeOK
  <2>6. ASSUME NEW a \in Admin, NEW t \in Slot, Launch(a, t)
        PROVE script[s] = "images" /\ built'[s] = built[s]
    BY <2>6 DEF Launch, shaVars, TypeOK
  <2>7. ASSUME NEW a \in Admin, Ask(a) \/ Answer(a)
        PROVE \/ UNCHANGED <<script, built>> \/ Leave(Container)
              \/ \E t \in Slot : Launch(a, t)
    BY <2>7 DEF Ask, Answer, Check, Gate, Announce, RemoveContainer, LaunchFails, Confirm,
                ReportFailure, shaVars
  <2>8. ASSUME NEW t \in Slot, Proceed(t) \/ Die(t) \/ Killed(t)
        PROVE \/ Leave(t) \/ Capture(t) \/ Replace(t)
              \/ Backup(t) \/ Fetch(t) \/ Pull(t) \/ Merge(t) \/ AwaitHealth(t)
    BY <2>8 DEF Proceed, UpToDate, Finish, Die, Killed
  <2>9. CASE Unlock \/ ApiRestart \/ JobAges \/ Push \/ UNCHANGED vars
    BY <2>1, <2>9 DEF Unlock, ApiRestart, JobAges, Push, vars, shaVars
  <2> QED
    BY <1>2, <2>1, <2>2, <2>3, <2>4, <2>5, <2>6, <2>7, <2>8, <2>9, UpdateAssumption DEF Next
<1>3. ASSUME ~Capture(s), checkout' # checkout PROVE FALSE
  <2>1. PICK t \in Slot : Merge(t)
    BY <1>3
       DEF Next, Ask, Answer, Check, Gate, Announce, RemoveContainer, Launch, LaunchFails, Confirm,
           ReportFailure, Proceed, Backup, Fetch, UpToDate, Pull, Capture, Replace, AwaitHealth,
           Finish, Die, Killed, Unlock, ApiRestart, JobAges, Push, vars, gitVars
  <2>2. script[t] = "pull" /\ script[s] = "images"
    BY <1>2, <1>3, <2>1 DEF Merge, Advance
  <2>3. {s, t} \subseteq Running /\ s # t
    BY <2>2 DEF Running
  <2> QED BY <2>2, <2>3, ExcuseStep, Only
<1> QED BY <1>1, <1>2, <1>3, ExcuseStep DEF Current

LEMMA DeployStep ==
  TypeOK /\ Races /\ Current /\ [Next]_vars =>
    [(ages = 0 /\ ~slipped) \/ mode = "compose-helper" => deployed' \in {deployed, checkout}]_vars
<1> SUFFICES ASSUME Current, [Next]_vars, (ages = 0 /\ ~slipped) \/ mode = "compose-helper"
             PROVE deployed' \in {deployed, checkout}
  OBVIOUS
<1>1. ASSUME NEW s \in Slot, Replace(s) PROVE deployed' = checkout
  BY <1>1 DEF Replace, Current
<1>2. ASSUME ~(\E s \in Slot : Replace(s)) PROVE deployed' = deployed
  BY <1>2
     DEF Next, Ask, Answer, Check, Gate, Announce, RemoveContainer, Launch, LaunchFails, Confirm,
         ReportFailure, Proceed, Backup, Fetch, UpToDate, Pull, Merge, Capture, AwaitHealth,
         Finish, Die, Killed, Unlock, ApiRestart, JobAges, Push, vars, stackVars
<1> QED BY <1>1, <1>2

LEMMA RacesHold == Spec => [](TypeOK /\ Races)
<1>1. Init => TypeOK /\ Races
  BY InitInv DEF Inv, Races
<1> QED BY <1>1, TypeStep, RaceStep, PTL DEF Spec

(* The status file is never finished while a script is at work, however    *)
(* many requests and scripts there are, as far as no request slipped by.   *)
THEOREM UpdateTellsRunning == Spec => []RunningIsBusy
  BY RacesHold, RacesTell, PTL

(* No two scripts are at work at once, however many requests and slots     *)
(* there are: the three ways the invariant names are the only ones.        *)
THEOREM UpdateAlone == Spec => []OneUpdater
  BY RacesHold, RacesOne, PTL

(* What goes live is what is checked out at that moment, however many      *)
(* requests and scripts there are: only a slow step or a request that      *)
(* slipped by lets a second script merge under a build, and on the host    *)
(* only (platform-update.sh, compose up --build).                          *)
THEOREM UpdateDeploysCheckout == Spec => DeploysCheckout
<1>1. Init => Current
  BY DEF Init, Current
<1> QED BY <1>1, RacesHold, CurrentStep, DeployStep, PTL DEF Spec, DeploysCheckout
=============================================================================
