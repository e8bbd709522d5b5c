--------------------------- MODULE PlatformUpdate ---------------------------
(***************************************************************************)
(* Updating the installation in place: administrators ask the API to       *)
(* apply, the API starts platform-update.sh (in a container of a fixed     *)
(* name, or as a detached host process), and the script fetches, merges,   *)
(* rebuilds and restarts the stack, the API included.  API and scripts     *)
(* share one status file that each of them overwrites whole.               *)
(*                                                                         *)
(* A version is a number: commits only ever move forward (ff-only).        *)
(***************************************************************************)
EXTENDS Integers, FiniteSets

CONSTANTS
  Admin,      \* concurrent POST /apply requests
  Slot,       \* updater scripts that may run at the same time
  Container,  \* the slot of the container vuln-intel-platform-updater
  Modes,      \* the ways apply may start the script, from evaluateApplyGate
  MaxRemote,  \* bound: versions pushed to the remote
  MaxOverlaps, \* bound: requests that come while another one is under way
  MaxAges,    \* bound: steps of a script that take more than 30 minutes
  MaxFaults   \* bound: failed steps, killed scripts, API restarts

ASSUME UpdateAssumption ==
  /\ Container \in Slot
  /\ Modes \subseteq {"compose-helper", "host-script"}
  /\ {MaxRemote, MaxOverlaps, MaxAges, MaxFaults} \subseteq Nat

VARIABLES
  asking,    \* where the apply request of an administrator stands
  locked,    \* Date.now() < applyLockUntil, in the API's memory
  job,       \* the phase in the status file
  recent,    \* the status file is younger than 30 minutes
  script,    \* the phase a script is in, or "off"
  before,    \* before_sha of a script that has fetched
  built,     \* the version a script's compose builds its images from
  remote,    \* the newest commit of the remote branch
  origin,    \* origin/<branch> in the checkout
  checkout,  \* HEAD of the checkout
  mode,      \* how this installation starts the script
  deployed,  \* the version the running containers were built from
  overlaps,  \* requests beside another one so far
  slipped,   \* history: apply passed the busy test beside another request
             \* that had, or on a status file caught half-written
  ages,      \* slow steps so far
  faults     \* failures so far

shaVars == <<before, built>>
gitVars == <<remote, origin, checkout>>
raceVars == <<overlaps, slipped>>
apiVars == <<asking, locked, raceVars>>
fileVars == <<job, recent>>
stackVars == <<mode, deployed>>
vars == <<asking, locked, job, recent, script, before, built, remote, origin, checkout,
          mode, deployed, overlaps, slipped, ages, faults>>

Terminal == {"idle", "done", "failed"}
ScriptPhase == {"preflight", "backup", "fetch", "pull", "build", "restart"}
Phase == Terminal \cup {"starting"} \cup ScriptPhase
Version == 0..MaxRemote
Place == ScriptPhase \cup {"images", "up"} \* in "build" compose first builds, then replaces

Running == {s \in Slot : script[s] # "off"}

Init == /\ asking = [a \in Admin |-> "idle"]
        /\ locked = FALSE
        /\ job = "idle" /\ recent = FALSE
        /\ script = [s \in Slot |-> "off"]
        /\ before = [s \in Slot |-> 0] /\ built = [s \in Slot |-> 0]
        /\ mode \in Modes
        /\ remote = 0 /\ origin = 0 /\ checkout = 0 /\ deployed = 0
        /\ overlaps = 0 /\ slipped = FALSE
        /\ ages = 0 /\ faults = 0

-----------------------------------------------------------------------------
(* Deviations: plausible slips in the definitions that follow. *)

(* The age of the status file is not looked at. *)
BusyWhateverAge == job \notin Terminal

(* The busy test is left out. *)
NeverBusy == FALSE

(* die writes its status and does not leave. *)
DieAndGoOn(s) == /\ script[s] \notin {"off", "restart"}
                 /\ faults < MaxFaults /\ faults' = faults + 1
                 /\ job' = "failed" /\ recent' = TRUE
                 /\ UNCHANGED <<apiVars, script, shaVars, remote, origin, checkout,
                                stackVars, ages>>

(* The script takes its own last status for a phase to go on from. *)
FinishAndStay(s) == /\ script[s] = "restart"
                    /\ script' = [script EXCEPT ![s] = "done"]
                    /\ job' = "done" /\ recent' = TRUE
                    /\ UNCHANGED <<apiVars, shaVars, remote, origin, checkout,
                                   stackVars, ages, faults>>

(* The images are built from what was fetched instead of what is checked   *)
(* out: not the same once another request or script has fetched.           *)
CaptureFetched(s) == /\ script[s] = "build"
                     /\ script' = [script EXCEPT ![s] = "images"]
                     /\ built' = [built EXCEPT ![s] = origin]
                     /\ UNCHANGED <<apiVars, fileVars, before, gitVars, stackVars, ages, faults>>

-----------------------------------------------------------------------------
WriteJob(phase) == job' = phase /\ recent' = TRUE

(* A script that ends takes what it noted with it. *)
Leave(s) == /\ script' = [script EXCEPT ![s] = "off"]
            /\ before' = [before EXCEPT ![s] = 0]
            /\ built' = [built EXCEPT ![s] = 0]

Fault == faults < MaxFaults /\ faults' = faults + 1

Step(a, to) == asking' = [asking EXCEPT ![a] = to]

(* The busy test of apply: an unfinished phase, written lately. *)
Busy == job \notin Terminal /\ recent

(* apply(), from the request to the answer. *)
Ask(a) == /\ asking[a] = "idle"
          /\ ~locked
          /\ IF \A b \in Admin : asking[b] = "idle"
             THEN UNCHANGED overlaps
             ELSE overlaps < MaxOverlaps /\ overlaps' = overlaps + 1
          /\ Step(a, "check")
          /\ UNCHANGED <<locked, slipped, fileVars, script, shaVars, gitVars, stackVars, ages, faults>>

(* The busy test is behind this request. *)
Passed(b) == asking[b] \notin {"idle", "check", "gate"}

(* check() fetches, which may fail; nothing ahead of the checkout: refused. *)
Check(a) == /\ asking[a] = "check"
            /\ \/ /\ origin' = remote
                  /\ Step(a, IF checkout = remote THEN "idle" ELSE "gate")
                  /\ UNCHANGED faults
               \/ Fault /\ Step(a, "idle") /\ UNCHANGED origin
            /\ UNCHANGED <<locked, raceVars, fileVars, script, shaVars, remote, checkout, stackVars, ages>>

(* The API and the script each overwrite the status file in place: read    *)
(* while a script writes, it does not parse, and counts as no job.         *)
Gate(a) == /\ asking[a] = "gate"
           /\ \/ /\ Busy
                 /\ Step(a, "idle")
                 /\ UNCHANGED <<locked, slipped, faults>>
              \/ /\ \/ ~Busy /\ UNCHANGED faults
                    \/ Busy /\ Running # {} /\ Fault
                 /\ Step(a, "announce") /\ locked' = TRUE
                 /\ slipped' = \/ Busy
                               \/ \E b \in Admin : Passed(b)
                               \/ slipped /\ Running # {}
           /\ UNCHANGED <<overlaps, fileVars, script, shaVars, gitVars, stackVars, ages>>

Announce(a) == /\ asking[a] = "announce"
               /\ WriteJob("starting")
               /\ Step(a, IF mode = "compose-helper" THEN "remove" ELSE "launch")
               /\ UNCHANGED <<locked, raceVars, script, shaVars, gitVars, stackVars, ages, faults>>

(* docker rm -f: whatever runs under the name is killed. *)
RemoveContainer(a) == /\ asking[a] = "remove"
                      /\ Leave(Container)
                      /\ Step(a, "launch")
                      /\ UNCHANGED <<locked, raceVars, fileVars, gitVars, stackVars, ages, faults>>

Home(s) == script[s] = "off" /\ (mode = "compose-helper" <=> s = Container)

(* The script's first line of status comes with its start; what can come   *)
(* between the two (the container's apk add) changes nothing else.         *)
Launch(a, s) == /\ asking[a] = "launch"
                /\ Home(s)
                /\ script' = [script EXCEPT ![s] = "preflight"]
                /\ WriteJob("preflight")
                /\ Step(a, "confirm")
                /\ UNCHANGED <<locked, raceVars, shaVars, gitVars, stackVars, ages, faults>>

(* docker run refuses a name in use, and may fail by itself. *)
LaunchFails(a) == /\ asking[a] = "launch"
                  /\ IF mode = "compose-helper" /\ script[Container] # "off"
                     THEN UNCHANGED faults ELSE Fault
                  /\ Step(a, "fail")
                  /\ UNCHANGED <<locked, raceVars, fileVars, script, shaVars, gitVars, stackVars, ages>>

(* Once the script is under way, the API writes "starting" a second time. *)
Confirm(a) == /\ asking[a] = "confirm"
              /\ WriteJob("starting")
              /\ Step(a, "idle")
              /\ UNCHANGED <<locked, raceVars, script, shaVars, gitVars, stackVars, ages, faults>>

ReportFailure(a) == /\ asking[a] = "fail"
                    /\ WriteJob("failed")
                    /\ Step(a, "idle")
                    /\ UNCHANGED <<locked, raceVars, script, shaVars, gitVars, stackVars, ages, faults>>

Unlock == /\ locked
          /\ locked' = FALSE
          /\ UNCHANGED <<asking, raceVars, fileVars, script, shaVars, gitVars, stackVars, ages, faults>>

ApiRestart == /\ Fault
              /\ asking' = [a \in Admin |-> "idle"]
              /\ locked' = FALSE
              /\ UNCHANGED <<raceVars, fileVars, script, shaVars, gitVars, stackVars, ages>>

-----------------------------------------------------------------------------
(* platform-update.sh: each step writes its phase first. *)
Advance(s, from, to) == /\ script[s] = from
                        /\ script' = [script EXCEPT ![s] = to]
                        /\ WriteJob(to)

Backup(s) == /\ Advance(s, "preflight", "backup")
             /\ UNCHANGED <<apiVars, shaVars, gitVars, stackVars, ages, faults>>

Fetch(s) == /\ Advance(s, "backup", "fetch")
            /\ before' = [before EXCEPT ![s] = checkout]
            /\ origin' = remote
            /\ UNCHANGED <<apiVars, built, remote, checkout, stackVars, ages, faults>>

UpToDate(s) == /\ script[s] = "fetch"
               /\ before[s] = origin
               /\ Leave(s)
               /\ WriteJob("done")
               /\ UNCHANGED <<apiVars, gitVars, stackVars, ages, faults>>

(* From here on only messages use before_sha. *)
Pull(s) == /\ before[s] # origin
           /\ Advance(s, "fetch", "pull")
           /\ before' = [before EXCEPT ![s] = 0]
           /\ UNCHANGED <<apiVars, built, gitVars, stackVars, ages, faults>>

Merge(s) == /\ Advance(s, "pull", "build")
            /\ checkout' = origin
            /\ UNCHANGED <<apiVars, shaVars, remote, origin, stackVars, ages, faults>>

(* compose up --build first builds the images, from the files of the       *)
(* checkout as they are when the build begins; that takes minutes.         *)
Capture(s) == /\ script[s] = "build"
              /\ script' = [script EXCEPT ![s] = "images"]
              /\ built' = [built EXCEPT ![s] = checkout]
              /\ UNCHANGED <<apiVars, fileVars, before, gitVars, stackVars, ages, faults>>

(* Then it replaces the containers; an API that runs in the stack, as with *)
(* the helper, is restarted with them.                                     *)
Replace(s) == /\ script[s] = "images"
              /\ script' = [script EXCEPT ![s] = "up"]
              /\ deployed' = built[s]
              /\ built' = [built EXCEPT ![s] = 0]
              /\ IF mode = "compose-helper"
                 THEN asking' = [a \in Admin |-> "idle"] /\ locked' = FALSE /\ UNCHANGED raceVars
                 ELSE UNCHANGED apiVars
              /\ UNCHANGED <<fileVars, before, gitVars, mode, ages, faults>>

AwaitHealth(s) == /\ Advance(s, "up", "restart")
                  /\ UNCHANGED <<apiVars, shaVars, gitVars, stackVars, ages, faults>>

Finish(s) == /\ script[s] = "restart"
             /\ Leave(s)
             /\ WriteJob("done")
             /\ UNCHANGED <<apiVars, gitVars, stackVars, ages, faults>>

(* die: the step failed and the script says so. *)
Die(s) == /\ script[s] \notin {"off", "restart"}
          /\ Fault
          /\ Leave(s)
          /\ WriteJob("failed")
          /\ UNCHANGED <<apiVars, gitVars, stackVars, ages>>

(* A command outside the guards fails under set -e, or the host goes down. *)
Killed(s) == /\ script[s] # "off"
             /\ Fault
             /\ Leave(s)
             /\ UNCHANGED <<apiVars, fileVars, gitVars, stackVars, ages>>

-----------------------------------------------------------------------------
(* Half an hour without a write; while a script runs, a bounded number of  *)
(* its steps are that slow.                                                *)
JobAges == /\ recent
           /\ recent' = FALSE
           /\ IF Running = {} THEN UNCHANGED ages ELSE ages < MaxAges /\ ages' = ages + 1
           /\ UNCHANGED <<apiVars, job, script, shaVars, gitVars, stackVars, faults>>

Push == /\ remote < MaxRemote
        /\ remote' = remote + 1
        /\ UNCHANGED <<apiVars, fileVars, script, shaVars, origin, checkout, stackVars,
                       ages, faults>>

Answer(a) == \/ Check(a) \/ Gate(a) \/ Announce(a) \/ RemoveContainer(a)
             \/ \E s \in Slot : Launch(a, s)
             \/ LaunchFails(a) \/ Confirm(a) \/ ReportFailure(a)

Proceed(s) == Backup(s) \/ Fetch(s) \/ UpToDate(s) \/ Pull(s) \/ Merge(s)
              \/ Capture(s) \/ Replace(s) \/ AwaitHealth(s) \/ Finish(s)

Next == \/ \E a \in Admin : Ask(a) \/ Answer(a)
        \/ \E s \in Slot : Proceed(s) \/ Die(s) \/ Killed(s)
        \/ Unlock \/ ApiRestart \/ JobAges \/ Push

Spec == Init /\ [][Next]_vars

(* Time passes, processes go on, and an administrator keeps asking. *)
FairSpec == /\ Spec
            /\ \A a \in Admin : WF_vars(Ask(a)) /\ WF_vars(Answer(a))
            /\ \A s \in Slot : WF_vars(Proceed(s))
            /\ WF_vars(Unlock) /\ WF_vars(JobAges /\ Running = {})
-----------------------------------------------------------------------------
(* Correctness. *)

(* Type invariant. *)
TypeOK == /\ asking \in [Admin -> {"idle", "check", "gate", "announce", "remove", "launch",
                                   "confirm", "fail"}]
          /\ {locked, recent} \subseteq BOOLEAN
          /\ job \in Phase
          /\ script \in [Slot -> Place \cup {"off"}]
          /\ {before, built} \subseteq [Slot -> Version]
          /\ mode \in Modes
          /\ {remote, origin, checkout, deployed} \subseteq Version
          /\ overlaps \in 0..MaxOverlaps /\ slipped \in BOOLEAN
          /\ ages \in 0..MaxAges /\ faults \in 0..MaxFaults

(* While a script runs, the status file does not say that none does: what  *)
(* apply ("already running") and the daily housekeeping go by.  On the host *)
(* as long as no step was slower than the 30 minutes apply waits; with the *)
(* helper always, since a new one kills the old one first.  Two requests   *)
(* that passed the busy test together may end in "failed" beside a script. *)
RunningIsBusy ==
  ~slipped /\ (ages = 0 \/ mode = "compose-helper") /\ Running # {} => job \notin Terminal

(* No two update scripts work on the checkout at the same time ("wait      *)
(* until it has finished", the conflict apply answers with), unless a step *)
(* was slower than the 30 minutes apply waits for one, the status file was *)
(* caught half-written, or two requests passed the busy test together,     *)
(* while the first was still between check() and its announcement.         *)
OneUpdater == ages = 0 /\ ~slipped => Cardinality(Running) <= 1

(* A finished update leaves the stack built from the checkout ("no updates *)
(* - already at <sha>", the last status of a script with nothing to do).   *)
DoneMeansDeployed == job = "done" /\ Running = {} => deployed = checkout

(* Updating implements Installation: no interleaving of requests, scripts, *)
(* fetches and failures takes the checkout back, to something that was not *)
(* published, or runs a version that was not checked out when its build    *)
(* began (platform-update.sh, merge --ff-only and compose up --build).     *)
Software == INSTANCE Installation
              WITH published <- remote, installed <- checkout, running <- deployed,
                   building <- {built[s] : s \in {t \in Slot : script[t] = "images"}}

Installs == Software!Spec

(* What goes live is the checkout, so that the stack never goes back to an *)
(* older version: with the helper always, on the host unless a step took   *)
(* more than 30 minutes or a request slipped past the busy test.  There a  *)
(* second script may merge while the first still builds what it found.     *)
DeploysCheckout ==
  [][(ages = 0 /\ ~slipped) \/ mode = "compose-helper" => deployed' \in {deployed, checkout}]_vars

(* A killed script or a restart never keeps updates out for good: the      *)
(* checkout reaches the remote while an administrator keeps asking.        *)
UpdateLands == []<>(checkout = remote)
=============================================================================
