------------------------------- MODULE WebTls -------------------------------
(***************************************************************************)
(* The HTTPS certificate of the web front (web-tls.service.ts, with        *)
(* letsencrypt-certbot.service.ts and local-https-proxy.service.ts).       *)
(*                                                                         *)
(* Three files stand on disk, cert.pem, key.pem and the marker issuer.json;*)
(* administrators generate a self-signed pair or ask Let's Encrypt for     *)
(* one, a timer renews the latter, and each of them ends by having the     *)
(* listener (Caddy, or the proxy inside the API) take the files over.      *)
(* Nothing locks the files: every step below is one await of its request.  *)
(*                                                                         *)
(* Time is counted in checks of the timer, six hours each.  What a request *)
(* does takes minutes, so no time passes while one is under way.           *)
(***************************************************************************)
EXTENDS Integers

CONSTANTS
  Admin,      \* requests of administrators under way at the same time
  Timer,      \* the auto-renew loop, and the start of the process
  Mat,        \* bound: key pairs that exist at one time
  Life,       \* of a Let's Encrypt certificate, in checks
  Threshold,  \* of the remaining life, under which the timer renews
  Pause,      \* after a failed attempt, in checks
  Patience,   \* bound: attempts that fail between two installed certificates
  Workload,   \* bounds, one of them in a behaviour: files, what is on disk
              \* at first; docker, whether Caddy is set up; forced, whether
              \* the certificate is short-lived; ops, the requests of each
              \* kind; crashes, writes (failed ones), refusals (of Caddy)
  None

ASSUME TlsAssumption ==
  /\ Life \in Nat /\ Threshold \in 1..Life /\ Pause \in Nat /\ Patience \in Nat
  /\ Timer \notin Admin /\ None \notin Mat

(* Patience attempts, each with its pause, fit into the renewal time.      *)
ASSUME PatienceAssumption == (Patience + 1) * (Pause + 1) <= Threshold

(* The process starts on files that belong together; a certificate of      *)
(* Let's Encrypt is known to certbot and not yet due.                      *)
ASSUME WorkloadAssumption ==
  \A w \in Workload :
    /\ w.disk \in [cert : Mat \cup {None}, key : Mat \cup {None},
                   mark : {"none", "selfsigned", "letsencrypt"}]
    /\ w.mats \in [Mat -> [le : BOOLEAN, life : 0..Life]]
    /\ w.live \in Mat \cup {None}
    /\ w.bounds \in [docker : BOOLEAN, forced : BOOLEAN, crashes : Nat, writes : Nat,
                     refusals : Nat, ops : [{"generate", "issue", "renew"} -> Nat]]
    /\ w.live # None => w.mats[w.live].le
    /\ w.disk.cert = w.disk.key
    /\ w.disk.cert # None =>
         IF w.mats[w.disk.cert].le
         THEN /\ w.disk.mark = "letsencrypt" /\ w.live # None
              /\ w.mats[w.disk.cert].life >= Threshold
         ELSE w.disk.mark = "selfsigned"

VARIABLES
  disk,      \* cert.pem, key.pem and the marker issuer.json
  mats,      \* what each pair is: from Let's Encrypt or not, its remaining life
  live,      \* certbot's latest pair
  caddy,     \* the pair Caddy serves
  port,      \* the pair the local proxy listens with
  server,    \* LocalHttpsProxyService.server is set
  proc,      \* what each request, and the timer, is doing
  due,       \* the timer has a check to make
  pause,     \* checks left until leAutoRenewRetryAt has passed
  fails,     \* attempts that failed since a certificate was last installed
  bounds,    \* bound: what is left of the workload
  mixed,     \* history: the files were last written by several, or cut short
  unapplied  \* history: the last request to serve them failed, or was raced

files == <<disk, mixed>>
pki == <<mats, live, fails>>
serving == <<caddy, port, server, unapplied>>
clock == <<due, pause>>
vars == <<files, pki, serving, clock, proc, bounds>>

Actor == Admin \cup {Timer}
Blank == [op |-> "idle", at |-> "idle", cert |-> None, key |-> None,
          alone |-> FALSE, informed |-> FALSE]
Idle(p) == proc[p].op = "idle"
AllIdle == \A p \in Actor : Idle(p)
Booted == proc[Timer].op # "boot"

Absent == [le |-> FALSE, life |-> 0]
Pair(c, k) == [cert |-> c, key |-> k]
OnDisk == Pair(disk.cert, disk.key)
Torn == disk.cert # disk.key
HasFiles == disk.cert # None /\ disk.key # None
LetsEncrypt(m) == m # None /\ mats[m].le

InUse == {disk.cert, disk.key, live, caddy.cert, caddy.key, port.cert, port.key}
         \cup {proc[p].cert : p \in Actor} \cup {proc[p].key : p \in Actor}
New == CHOOSE m \in Mat : m \notin InUse

(* A new pair m; the pairs nothing refers to are forgotten. *)
Create(what) ==
  /\ ~(Mat \subseteq InUse)
  /\ mats' = [m \in Mat |-> IF m = New THEN what ELSE IF m \in InUse THEN mats[m] ELSE Absent]
FromCA == [le |-> TRUE, life |-> Life]

-----------------------------------------------------------------------------
(* Deviations: plausible slips in the definitions that follow. *)

(* Half a day more of pause than the code asks for. *)
WaitADay == Pause + 3

(* Lives are counted on, past the end. *)
AgedOn(m) == IF mats[m].le THEN [mats[m] EXCEPT !.life = @ - 1] ELSE mats[m]

(* generateAndApply leaves issuer.json as it was. *)
MarkKept(p) == IF proc[p].op = "generate" THEN disk.mark ELSE "letsencrypt"

(* The files are written, and the listener is not told. *)
HandoverNothing(p) == Blank

(* renewLetsEncrypt trusts what its caller knew of the marker. *)
MayRenewAlways == TRUE

(* The key is taken to be the same after a renewal. *)
LiveKeyReused(p) == IF proc[p].op = "renew" /\ disk.key # None THEN disk.key ELSE live

-----------------------------------------------------------------------------
(* Where a request stands. *)

Go(p, next) == proc' = [proc EXCEPT ![p] = next]

(* p goes on, and those at the given points are not alone at it. *)
Beside(p, next, points) ==
  proc' = [q \in Actor |-> IF q = p THEN next
                           ELSE [proc[q] EXCEPT !.alone = @ /\ proc[q].at \notin points]]

(* p writes a file, which others copy, write or hand over; what they knew  *)
(* of the files is outdated.                                               *)
Serve == {"stop", "listen", "listening"}
Write(p, next) ==
  proc' = [q \in Actor |-> IF q = p THEN next ELSE [proc[q] EXCEPT !.alone = FALSE,
                                                                   !.informed = FALSE]]

(* Checks that fall into a pause: it begins after the check that failed    *)
(* did, so the check exactly Pause later still falls into it.              *)
Wait == Pause + 1

(* A request answers; the timer notes how its renewal went. *)
PauseAfter(p, ok) == IF p # Timer \/ proc[p].op = "boot" THEN pause ELSE IF ok THEN 0 ELSE Wait
Answer(p, ok) == /\ Go(p, Blank)
                 /\ pause' = PauseAfter(p, ok)
                 /\ UNCHANGED due

Request(p, op, q) ==
  /\ p \in Admin /\ Idle(p) /\ Booted
  /\ bounds.ops[op] > 0
  /\ bounds' = [bounds EXCEPT !.ops[op] = @ - 1]
  /\ Go(p, [q EXCEPT !.op = op])

-----------------------------------------------------------------------------
(* Getting a pair. *)

(* POST generate: openssl makes a pair aside. *)
Generate(p) ==
  /\ Request(p, "generate", [Blank EXCEPT !.at = "key", !.cert = New, !.key = New,
                                          !.alone = TRUE])
  /\ Create(Absent)
  /\ UNCHANGED <<files, live, fails, serving, clock>>

(* POST lets-encrypt *)
AskIssue(p) == /\ Request(p, "issue", [Blank EXCEPT !.at = "certbot"])
               /\ UNCHANGED <<files, pki, serving, clock>>

(* POST renew *)
AskRenew(p) == /\ Request(p, "renew", [Blank EXCEPT !.at = "marker"])
               /\ UNCHANGED <<files, pki, serving, clock>>

(* What the timer renews: a certificate not self-signed, with the marker   *)
(* of Let's Encrypt, and little life left.                                 *)
Renewable == disk.mark = "letsencrypt" /\ LetsEncrypt(disk.cert)
Due == Renewable /\ mats[disk.cert].life < Threshold

(* The check. *)
Tick ==
  /\ due /\ Idle(Timer)
  /\ due' = FALSE
  /\ IF pause = 0 /\ Due
     THEN Go(Timer, [Blank EXCEPT !.op = "renew", !.at = "marker"])
     ELSE UNCHANGED proc
  /\ UNCHANGED <<files, pki, serving, pause, bounds>>

(* renewLetsEncrypt looks at the marker again. *)
MayRenew == disk.mark = "letsencrypt"
ReadMarker(p) ==
  /\ proc[p].at = "marker"
  /\ IF MayRenew
     THEN /\ Go(p, [proc[p] EXCEPT !.at = "certbot", !.informed = TRUE])
          /\ UNCHANGED clock
     ELSE Answer(p, FALSE)
  /\ UNCHANGED <<files, pki, serving, bounds>>

(* certbot brings a new pair ... *)
CertbotIssues(p) ==
  /\ proc[p].at = "certbot"
  /\ proc[p].op = "renew" => live # None /\ (bounds.forced \/ mats[live].life < Threshold)
  /\ Create(FromCA)
  /\ live' = New
  /\ Beside(p, [proc[p] EXCEPT !.at = "copyCert"], {"copyKey"})
  /\ UNCHANGED <<files, fails, serving, clock, bounds>>

(* ... or keeps the one it has, when that is far from its end and nobody   *)
(* forces it (renew only forces a short-lived one) ...                     *)
CertbotKeeps(p) ==
  /\ proc[p].at = "certbot"
  /\ live # None /\ mats[live].life >= Threshold
  /\ proc[p].op = "renew" => ~bounds.forced
  /\ Go(p, [proc[p] EXCEPT !.at = "copyCert"])
  /\ UNCHANGED <<files, pki, serving, clock, bounds>>

(* ... or fails, and the request with it. *)
CertbotFails(p) ==
  /\ proc[p].at = "certbot"
  /\ fails < Patience \/ (proc[p].op = "renew" /\ live = None)
  /\ fails' = IF fails < Patience THEN fails + 1 ELSE fails
  /\ Answer(p, FALSE)
  /\ UNCHANGED <<files, mats, live, serving, bounds>>

-----------------------------------------------------------------------------
(* Writing the files. *)

(* installIntoCertsDir copies certbot's certificate, then its key. *)
CopyCert(p) ==
  /\ proc[p].at = "copyCert"
  /\ Go(p, [proc[p] EXCEPT !.at = "copyKey", !.cert = live, !.alone = TRUE])
  /\ UNCHANGED <<files, pki, serving, clock, bounds>>

LiveKey(p) == live
CopyKey(p) ==
  /\ proc[p].at = "copyKey"
  /\ Go(p, [proc[p] EXCEPT !.at = "cert", !.key = LiveKey(p)])
  /\ UNCHANGED <<files, pki, serving, clock, bounds>>

(* Two renames: generateAndApply begins with the key, the other with the   *)
(* certificate.                                                            *)
RenameCert(p) ==
  /\ proc[p].at = "cert"
  /\ disk' = [disk EXCEPT !.cert = proc[p].cert]
  /\ Write(p, [proc[p] EXCEPT !.at = IF proc[p].op = "generate" THEN "mark" ELSE "key"])
  /\ UNCHANGED <<mixed, pki, serving, clock, bounds>>

RenameKey(p) ==
  /\ proc[p].at = "key"
  /\ disk' = [disk EXCEPT !.key = proc[p].key]
  /\ Write(p, [proc[p] EXCEPT !.at = IF proc[p].op = "generate" THEN "cert" ELSE "mark"])
  /\ UNCHANGED <<mixed, pki, serving, clock, bounds>>

(* The marker, issuer.json. *)
Mark(p) == IF proc[p].op = "generate" THEN "selfsigned" ELSE "letsencrypt"

(* Then the files are handed to the listener. *)
Handover(p) == [Blank EXCEPT !.op = proc[p].op, !.at = "apply"]
WriteMark(p) ==
  /\ proc[p].at = "mark"
  /\ disk' = [disk EXCEPT !.mark = Mark(p)]
  /\ mixed' = ~proc[p].alone
  /\ Write(p, Handover(p))
  /\ fails' = IF proc[p].op = "generate" THEN fails ELSE 0
  /\ UNCHANGED <<mats, live, serving, clock, bounds>>

(* One of these statements fails. *)
WriteFails(p) ==
  /\ proc[p].at \in {"copyCert", "copyKey", "cert", "key", "mark"}
  /\ bounds.writes > 0 /\ bounds' = [bounds EXCEPT !.writes = @ - 1]
  /\ fails < Patience /\ fails' = fails + 1
  /\ LET late == proc[p].at \in {"cert", "key", "mark"} IN
     mixed' = (mixed \/ late) /\ unapplied' = (unapplied \/ late)
  /\ Answer(p, FALSE)
  /\ UNCHANGED <<disk, mats, live, caddy, port, server>>

-----------------------------------------------------------------------------
(* Serving them. *)

StopLocal == /\ server' = FALSE
             /\ port' = IF server THEN Pair(None, None) ELSE port

(* applyToRuntime: Caddy takes the files, which it does only when they fit *)
(* together, and the local proxy stops.                                    *)
Reload(p) ==
  /\ proc[p].at = "apply" /\ bounds.docker
  /\ ~Torn
  /\ caddy' = OnDisk
  /\ StopLocal
  /\ unapplied' = FALSE
  /\ Answer(p, TRUE)
  /\ UNCHANGED <<files, pki, bounds>>

(* Caddy does not take them.  If it answers a probe it is left as it is;   *)
(* else the local proxy stands in.                                         *)
ReloadRefused(p) ==
  /\ proc[p].at = "apply" /\ bounds.docker
  /\ \/ Torn /\ UNCHANGED bounds
     \/ bounds.refusals > 0 /\ bounds' = [bounds EXCEPT !.refusals = @ - 1]
  /\ unapplied' = TRUE
  /\ \/ StopLocal /\ Answer(p, TRUE)
     \/ Go(p, [proc[p] EXCEPT !.at = "read"]) /\ UNCHANGED <<clock, port, server>>
  /\ UNCHANGED <<files, pki, caddy>>

NoDocker(p) ==
  /\ proc[p].at = "apply" /\ ~bounds.docker
  /\ Go(p, [proc[p] EXCEPT !.at = "read"])
  /\ UNCHANGED <<files, pki, serving, clock, bounds>>

(* ensureListening reads the files ... *)
ReadPair(p) ==
  /\ proc[p].at = "read"
  /\ Beside(p, [proc[p] EXCEPT !.at = "stop", !.cert = disk.cert, !.key = disk.key,
                               !.alone = TRUE], Serve)
  /\ UNCHANGED <<files, pki, serving, clock, bounds>>

(* ... stops the server it knows of ... *)
StopServer(p) ==
  /\ proc[p].at = "stop"
  /\ StopLocal
  /\ Beside(p, [proc[p] EXCEPT !.at = "listen"], Serve)
  /\ UNCHANGED <<files, pki, caddy, unapplied, clock, bounds>>

(* ... and starts one, unless the pair does not fit together or the port   *)
(* is taken by a server nobody knows of yet.                               *)
Listen(p) ==
  LET q == proc[p] IN
  /\ q.at = "listen"
  /\ IF q.cert = q.key /\ port.cert = None
     THEN /\ port' = Pair(q.cert, q.key)
          /\ Beside(p, [q EXCEPT !.at = "listening"], Serve)
          /\ UNCHANGED <<clock, unapplied>>
     ELSE /\ Answer(p, TRUE)
          /\ unapplied' = TRUE
          /\ UNCHANGED port
  /\ UNCHANGED <<files, pki, caddy, server, bounds>>

Listening(p) ==
  /\ proc[p].at = "listening"
  /\ server' = TRUE
  /\ unapplied' = (bounds.docker \/ ~proc[p].alone)
  /\ Answer(p, TRUE)
  /\ UNCHANGED <<files, pki, caddy, port, bounds>>

-----------------------------------------------------------------------------
(* Time, and the process. *)

Aged(m) == IF mats[m].life > 0 THEN [mats[m] EXCEPT !.life = @ - 1] ELSE mats[m]

(* Six hours go by. *)
Advance ==
  /\ AllIdle /\ ~due
  /\ mats' = [m \in Mat |-> IF m \in InUse THEN Aged(m) ELSE Absent]
  /\ pause' = IF pause > 0 THEN pause - 1 ELSE 0
  /\ due' = TRUE
  /\ UNCHANGED <<files, live, fails, serving, proc, bounds>>

(* The API process dies and starts again: the boot has the files served,   *)
(* then arms the timer.  A marker being written may be lost.               *)
Crash ==
  /\ bounds.crashes > 0
  /\ bounds' = [bounds EXCEPT !.crashes = @ - 1]
  /\ \E mark \in {disk.mark} \cup {"none" : p \in {q \in Actor : proc[q].at = "mark"}} :
       disk' = [disk EXCEPT !.mark = mark]
  /\ mixed' = (mixed \/ \E p \in Actor : proc[p].at \in {"cert", "key", "mark"})
  /\ proc' = [p \in Actor |-> IF p = Timer /\ HasFiles
                              THEN [Blank EXCEPT !.op = "boot", !.at = "apply"] ELSE Blank]
  /\ port' = Pair(None, None) /\ server' = FALSE
  /\ unapplied' = TRUE
  /\ due' = TRUE /\ pause' = 0
  /\ UNCHANGED <<pki, caddy>>

Init ==
  \E w \in Workload :
    /\ bounds = w.bounds
    /\ disk = w.disk /\ mats = w.mats /\ live = w.live
    /\ caddy = IF w.bounds.docker THEN Pair(w.disk.cert, w.disk.key) ELSE Pair(None, None)
    /\ port = IF w.bounds.docker THEN Pair(None, None) ELSE Pair(w.disk.cert, w.disk.key)
    /\ server = (port.cert # None)
    /\ proc = [p \in Actor |-> Blank]
    /\ due = TRUE /\ pause = 0 /\ fails = 0
    /\ mixed = FALSE /\ unapplied = FALSE

Step(p) ==
  \/ ReadMarker(p) \/ CertbotIssues(p) \/ CertbotKeeps(p) \/ CertbotFails(p)
  \/ CopyCert(p) \/ CopyKey(p) \/ RenameCert(p) \/ RenameKey(p) \/ WriteMark(p)
  \/ Reload(p) \/ ReloadRefused(p) \/ NoDocker(p)
  \/ ReadPair(p) \/ StopServer(p) \/ Listen(p) \/ Listening(p)

Next == \/ \E p \in Actor : Step(p) \/ WriteFails(p)
        \/ \E p \in Admin : Generate(p) \/ AskIssue(p) \/ AskRenew(p)
        \/ Tick \/ Advance \/ Crash

Spec == Init /\ [][Next]_vars

(* Requests run to their end, the timer fires, time goes by. *)
Fairness == WF_vars(\E p \in Actor : Step(p)) /\ WF_vars(Tick) /\ WF_vars(Advance)
FairSpec == Spec /\ Fairness

-----------------------------------------------------------------------------
(* Properties. *)

(* The types of the variables. *)
TypeOK ==
  LET pairs == [cert : Mat \cup {None}, key : Mat \cup {None}] IN
  /\ disk \in [cert : Mat \cup {None}, key : Mat \cup {None},
               mark : {"none", "selfsigned", "letsencrypt"}]
  /\ mats \in [Mat -> [le : BOOLEAN, life : 0..Life]]
  /\ live \in Mat \cup {None}
  /\ caddy \in pairs /\ port \in pairs
  /\ server \in BOOLEAN /\ due \in BOOLEAN /\ mixed \in BOOLEAN /\ unapplied \in BOOLEAN
  /\ pause \in 0..Wait /\ fails \in 0..Patience
  /\ DOMAIN proc = Actor

(* The certificate, the key and the marker belong together once everyone   *)
(* is done, unless two have written them at once or one was cut short: no  *)
(* failure before the first rename, of certbot or of a copy, no refused    *)
(* request and no order of the three operations leaves them apart.         *)
DiskWhole ==
  AllIdle /\ ~mixed =>
    /\ ~Torn
    /\ disk.cert # None =>
         disk.mark = IF mats[disk.cert].le THEN "letsencrypt" ELSE "selfsigned"

(* The listener has the files that are on disk, unless the last one to     *)
(* hand them over was told it could not or did so while another was at it. *)
ServedIsDisk ==
  AllIdle /\ ~unapplied /\ HasFiles =>
    OnDisk = IF bounds.docker THEN caddy ELSE port

(* web-tls.service.ts:90-95: as long as at most Patience attempts fail     *)
(* between two certificates, the one the timer looks after is renewed      *)
(* before its life ends, whatever requests and crashes come in between.    *)
NeverExpires == AllIdle /\ ~due /\ Renewable => mats[disk.cert].life > 0

(* The timer puts a certificate over a self-signed one only when that came *)
(* while it was renewing: never over one an administrator had settled on.  *)
ChoiceStays ==
  [][proc[Timer].at = "cert" /\ proc'[Timer].at = "key" /\ disk.mark = "selfsigned"
       => ~proc[Timer].informed]_vars

(* A certificate and a key that do not fit together, which keep the local  *)
(* proxy from starting, are replaced at the latest when the certificate is *)
(* renewed.                                                                *)
TornHeals == (Torn /\ Renewable) ~> (~Torn \/ ~Renewable)
=============================================================================
