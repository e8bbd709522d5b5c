---------------------------- MODULE WebTlsProofs ----------------------------
(***************************************************************************)
(* Proofs about WebTls, for any administrators, workloads, lives and       *)
(* pauses: type correctness, files that belong together, a listener that   *)
(* serves them, a choice that stays, and a certificate renewed before its  *)
(* end.                                                                    *)
(***************************************************************************)
EXTENDS WebTls, TLAPS

-----------------------------------------------------------------------------
(* The invariant. *)

(* Where the operations may stand. *)
AskCA == {"issue", "renew"}
Handing == {"apply", "read", "stop", "listen", "listening"}
Writing == {"key", "cert", "mark"}
PointsOf(op) ==
  CASE op = "idle" -> {"idle"}
    [] op = "boot" -> Handing
    [] op = "generate" -> Handing \cup Writing
    [] op = "issue" -> Handing \cup Writing \cup {"certbot", "copyCert", "copyKey"}
    [] op = "renew" -> Handing \cup Writing \cup {"certbot", "copyCert", "copyKey", "marker"}
OpsOf(p) == IF p = Timer THEN {"idle", "boot", "renew"} ELSE {"idle", "generate", "issue", "renew"}

Op == {"idle", "boot", "generate", "issue", "renew"}
Point == {"idle", "marker", "certbot", "copyCert", "copyKey"} \cup Writing \cup Handing
Row == [op : Op, at : Point, cert : Mat \cup {None}, key : Mat \cup {None},
        alone : BOOLEAN, informed : BOOLEAN]

(* A pair of Let's Encrypt that is not due yet, and one made by openssl.   *)
Fresh(m) == m \in Mat /\ mats[m].le /\ mats[m].life >= Threshold
SelfMade(m) == m \in Mat /\ ~mats[m].le

(* What a request has in hand where it stands. *)
Sound(p, q) ==
  /\ q \in Row /\ q.op \in OpsOf(p) /\ q.at \in PointsOf(q.op)
  /\ q.op = "generate" /\ q.at \in Writing => SelfMade(q.cert) /\ q.key = q.cert
  /\ q.op \in AskCA =>
       /\ q.at = "copyCert" => Fresh(live)
       /\ q.at \in Writing \cup {"copyKey"} => live # None /\ Fresh(q.cert)
       /\ q.at \in Writing => q.key # None
  /\ q.informed => disk.mark = "letsencrypt"

(* certbot knows the certificate on disk when it is one of its own. *)
Known == /\ live # None => mats[live].le
         /\ LetsEncrypt(disk.cert) => live # None

Limits == [docker : BOOLEAN, forced : BOOLEAN, crashes : Nat, writes : Nat, refusals : Nat,
           ops : [{"generate", "issue", "renew"} -> Nat]]

Typed == /\ TypeOK
         /\ bounds \in Limits
         /\ proc \in [Actor -> Row]
         /\ \A p \in Actor : Sound(p, proc[p])
         /\ Known

(* A request has written one of the files, and not yet all of them. *)
Wrote(q) == \/ q.op \in AskCA /\ q.at \in {"key", "mark"}
            \/ q.op = "generate" /\ q.at \in {"cert", "mark"}

(* What a request knows that has been alone with the files. *)
Alike(q) == q.alone =>
  /\ q.at = "copyKey" => q.cert = live
  /\ q.at \in Writing => q.cert = q.key
  /\ Wrote(q) /\ q.at # "cert" => disk.cert = q.cert
  /\ Wrote(q) /\ q.at # "key" => disk.key = q.key
  /\ q.at \in Serve => disk.cert = q.cert /\ disk.key = q.key
  /\ q.at = "listening" /\ ~bounds.docker => port = Pair(q.cert, q.key)
AllAlike == \A p \in Actor : Alike(proc[p])

(* The files belong together unless somebody is in the middle of them. *)
Whole == /\ ~Torn
         /\ disk.cert # None =>
              disk.mark = IF mats[disk.cert].le THEN "letsencrypt" ELSE "selfsigned"
DiskKept == ~mixed /\ (\A p \in Actor : ~Wrote(proc[p])) => Whole

(* They are served unless somebody is about to hand them over. *)
Busy(q) == Wrote(q) \/ q.at \in Handing
Served == OnDisk = IF bounds.docker THEN caddy ELSE port
ServeKept == ~unapplied /\ (\A p \in Actor : ~Busy(proc[p])) /\ HasFiles => Served

(* A certificate that is due has been there before this hour: whoever has  *)
(* written one has put a fresh one over it.                                *)
Low == LetsEncrypt(disk.cert) /\ mats[disk.cert].life < Threshold
Past(q) == q.op \in AskCA /\ q.at \in {"key", "mark"} \cup Handing
Renewed == \A p \in Actor : Past(proc[p]) => ~Low

(* Every failed attempt costs a certificate that is due a pause at most;   *)
(* one more is lost to a pause that was left from before it was due.       *)
Ends == /\ Renewable /\ Low => mats[disk.cert].life >= Threshold - (fails + 1) * Wait + pause
        /\ ~due /\ pause = 0 /\ Renewable /\ Low => proc[Timer].op = "renew"
        /\ proc[Timer].op = "renew" => ~due /\ pause = 0

Inv == Typed /\ AllAlike /\ DiskKept /\ ServeKept /\ Renewed /\ Ends

-----------------------------------------------------------------------------
(* Steps of one request leave the others where they are. *)

(* n is q, knowing at most as much. *)
Less(n, q) == /\ n \in Row /\ n.op = q.op /\ n.at = q.at /\ n.cert = q.cert /\ n.key = q.key
              /\ n.alone => q.alone
              /\ n.informed => q.informed
Turn(p, n) == /\ proc' \in [Actor -> Row] /\ proc'[p] = n
              /\ \A q \in Actor \ {p} : Less(proc'[q], proc[q])

LEMMA LessRow ==
  ASSUME NEW q, q \in Row, NEW a \in BOOLEAN, NEW b \in BOOLEAN
  PROVE /\ Less(q, q)
        /\ LET n == [q EXCEPT !.alone = q.alone /\ a]
           IN  Less(n, q) /\ (~a => ~n.alone)
        /\ LET n == [q EXCEPT !.alone = FALSE, !.informed = FALSE]
           IN  Less(n, q) /\ ~n.alone /\ ~n.informed
<1>1. Less(q, q)
  BY DEF Less
<1>2. /\ q.alone \in BOOLEAN /\ (q.alone /\ a) \in BOOLEAN
  BY DEF Row
<1>3. LET n == [q EXCEPT !.alone = q.alone /\ a] IN Less(n, q) /\ (~a => ~n.alone)
  BY <1>2 DEF Less, Row
<1>4. LET n == [q EXCEPT !.alone = FALSE, !.informed = FALSE]
      IN  Less(n, q) /\ ~n.alone /\ ~n.informed
  BY DEF Less, Row
<1> QED BY <1>1, <1>3, <1>4

LEMMA GoTurn ==
  ASSUME proc \in [Actor -> Row], NEW p \in Actor, NEW n \in Row, Go(p, n)
  PROVE Turn(p, n) /\ \A q \in Actor \ {p} : proc'[q] = proc[q]
<1>1. \A q \in Actor \ {p} : proc'[q] = proc[q] /\ proc[q] \in Row
  BY DEF Go
<1>2. \A q \in Actor \ {p} : Less(proc'[q], proc[q])
  BY <1>1, LessRow
<1> QED BY <1>1, <1>2 DEF Go, Turn

LEMMA BesideTurn ==
  ASSUME proc \in [Actor -> Row], NEW p \in Actor, NEW n \in Row, NEW points, Beside(p, n, points)
  PROVE Turn(p, n) /\ \A q \in Actor \ {p} : proc[q].at \in points => ~proc'[q].alone
<1>1. ASSUME NEW q \in Actor \ {p}
      PROVE Less(proc'[q], proc[q]) /\ (proc[q].at \in points => ~proc'[q].alone)
  <2>1. PICK a \in BOOLEAN : a = (proc[q].at \notin points)
    OBVIOUS
  <2>2. proc'[q] = [proc[q] EXCEPT !.alone = proc[q].alone /\ a] /\ proc[q] \in Row
    BY <2>1 DEF Beside
  <2> QED BY <2>1, <2>2, LessRow
<1>2. proc' = [q \in Actor |-> proc'[q]] /\ proc'[p] = n
  BY DEF Beside
<1>3. proc' \in [Actor -> Row]
  BY <1>1, <1>2 DEF Less
<1> QED BY <1>1, <1>2, <1>3 DEF Turn

LEMMA WriteTurn ==
  ASSUME proc \in [Actor -> Row], NEW p \in Actor, NEW n \in Row, Write(p, n)
  PROVE Turn(p, n) /\ \A q \in Actor \ {p} : ~proc'[q].alone /\ ~proc'[q].informed
<1>1. ASSUME NEW q \in Actor \ {p}
      PROVE Less(proc'[q], proc[q]) /\ ~proc'[q].alone /\ ~proc'[q].informed
  <2>1. proc'[q] = [proc[q] EXCEPT !.alone = FALSE, !.informed = FALSE] /\ proc[q] \in Row
    BY DEF Write
  <2> QED BY <2>1, LessRow
<1>2. proc' = [q \in Actor |-> proc'[q]] /\ proc'[p] = n
  BY DEF Write
<1>3. proc' \in [Actor -> Row]
  BY <1>1, <1>2 DEF Less
<1> QED BY <1>1, <1>2, <1>3 DEF Turn

LEMMA BlankSound ==
  /\ Blank \in Row /\ Blank.op = "idle" /\ Blank.at = "idle" /\ ~Blank.alone /\ ~Blank.informed
  /\ \A p : Sound(p, Blank)
<1>1. Blank \in Row /\ Blank.op = "idle" /\ Blank.at = "idle" /\ ~Blank.alone /\ ~Blank.informed
  BY DEF Blank, Row, Op, Point
<1> QED BY <1>1 DEF Sound, OpsOf, PointsOf, Writing, AskCA

LEMMA Where ==
  ASSUME Typed, NEW p \in Actor
  PROVE LET q == proc[p] IN
        /\ q \in Row
        /\ q.at = "marker" => q.op = "renew"
        /\ q.at \in {"certbot", "copyCert", "copyKey"} => q.op \in AskCA
        /\ q.at \in Writing => q.op \in AskCA \/ q.op = "generate"
        /\ q.op = "idle" <=> q.at = "idle"
<1> DEFINE q == proc[p]
<1>1. q \in Row /\ q.op \in Op /\ q.at \in PointsOf(q.op)
  BY DEF Typed, Sound, Row
<1>2. /\ q.op = "idle" => q.at = "idle"
      /\ q.op = "boot" => q.at \in Handing
      /\ q.op = "generate" => q.at \in Handing \cup Writing
      /\ q.op = "issue" => q.at \in Handing \cup Writing \cup {"certbot", "copyCert", "copyKey"}
      /\ q.op = "renew" =>
           q.at \in Handing \cup Writing \cup {"certbot", "copyCert", "copyKey", "marker"}
  BY <1>1 DEF PointsOf
<1> HIDE DEF q
<1>3. /\ q.at = "marker" => q.op = "renew"
      /\ q.at \in {"certbot", "copyCert", "copyKey"} => q.op \in AskCA
      /\ q.at \in Writing => q.op \in AskCA \/ q.op = "generate"
      /\ q.op = "idle" <=> q.at = "idle"
  BY <1>1, <1>2 DEF Op, Handing, Writing, AskCA
<1> QED BY <1>1, <1>3 DEF q

-----------------------------------------------------------------------------
(* Pairs that something refers to stay as they are, but for their age. *)

MatsKept == \A m \in InUse \cap Mat : mats'[m] = mats[m]

LEMMA CreateKeeps ==
  ASSUME TypeOK, NEW what, what \in [le : BOOLEAN, life : 0..Life], Create(what)
  PROVE /\ mats' \in [Mat -> [le : BOOLEAN, life : 0..Life]]
        /\ New \in Mat /\ New \notin InUse /\ mats'[New] = what
        /\ MatsKept
<1>1. New \in Mat /\ New \notin InUse
  <2>1. \E m \in Mat : m \notin InUse
    BY DEF Create
  <2> QED BY <2>1 DEF New
<1>2. Absent \in [le : BOOLEAN, life : 0..Life]
  BY TlsAssumption DEF Absent
<1>3. mats \in [Mat -> [le : BOOLEAN, life : 0..Life]]
  BY DEF TypeOK
<1> QED BY <1>1, <1>2, <1>3 DEF Create, MatsKept

LEMMA Used ==
  ASSUME Typed
  PROVE /\ disk.cert \in InUse /\ live \in InUse
        /\ \A p \in Actor : proc[p].cert \in InUse /\ proc[p].key \in InUse
  BY DEF InUse

LEMMA FreshKept ==
  ASSUME MatsKept, NEW m \in InUse
  PROVE (Fresh(m) => Fresh(m)') /\ (SelfMade(m) => SelfMade(m)')
  BY DEF MatsKept, Fresh, SelfMade

(* The requests that do not move keep what they have in hand. *)
LEMMA OthersSound ==
  ASSUME Typed, NEW p \in Actor, NEW n, Turn(p, n), MatsKept,
         live' = live \/ Fresh(live)',
         disk'.mark = disk.mark \/ \A q \in Actor \ {p} : ~proc'[q].informed
  PROVE \A q \in Actor \ {p} : Sound(q, proc[q])'
<1> TAKE q \in Actor \ {p}
<1>1. Sound(q, proc[q]) /\ Less(proc'[q], proc[q])
  BY DEF Typed, Turn
<1>2. PICK old : old = proc[q]
  OBVIOUS
<1>3. PICK new : new = proc'[q]
  OBVIOUS
<1>4. Sound(q, old) /\ Less(new, old)
  BY <1>1, <1>2, <1>3 DEF Sound
<1>5. new \in Row /\ new.op \in OpsOf(q) /\ new.at \in PointsOf(new.op)
  BY <1>4 DEF Sound, Less
<1>6. /\ Fresh(old.cert) => Fresh(old.cert)'
      /\ SelfMade(old.cert) => SelfMade(old.cert)'
  BY <1>2, Used, FreshKept
<1>7. new.op = "generate" /\ new.at \in Writing => SelfMade(new.cert)' /\ new.key = new.cert
  BY <1>4, <1>6 DEF Sound, Less
<1>8. ASSUME new.op \in AskCA
      PROVE /\ new.at = "copyCert" => Fresh(live)'
            /\ new.at \in Writing \cup {"copyKey"} => live' # None /\ Fresh(new.cert)'
            /\ new.at \in Writing => new.key # None
  <2>1. Fresh(live)' => live' # None
    BY TlsAssumption DEF Fresh
  <2>2. Fresh(live) /\ live' = live => Fresh(live)'
    BY Used DEF MatsKept, Fresh
  <2> QED BY <1>4, <1>8, <1>6, <2>1, <2>2 DEF Sound, Less
<1>9. new.informed => disk'.mark = "letsencrypt"
  BY <1>3, <1>4 DEF Sound, Less
<1>10. Sound(q, new)'
  BY <1>5, <1>7, <1>8, <1>9 DEF Sound
<1> QED BY <1>3, <1>10 DEF Sound, Fresh, SelfMade

-----------------------------------------------------------------------------
(* What a step of one request has to show of each part. *)

(* Nothing that is in use has changed but certbot's latest pair. *)
Steady == MatsKept /\ (live' = live \/ Fresh(live)')

LEMMA SameSteady ==
  ASSUME mats' = mats, live' = live
  PROVE Steady
  BY DEF Steady, MatsKept

LEMMA StepTyped ==
  ASSUME Typed, NEW p \in Actor, NEW n, Turn(p, n), Steady,
         TypeOK', bounds' \in Limits, Sound(p, n)',
         disk'.cert = disk.cert \/ Known',
         disk'.mark = disk.mark \/ \A q \in Actor \ {p} : ~proc'[q].informed
  PROVE Typed'
<1>1. \A q \in Actor \ {p} : Sound(q, proc[q])'
  BY OthersSound DEF Steady
<1>2. Sound(p, proc[p])'
  BY DEF Turn, Sound, Fresh, SelfMade
<1>3. Known'
  <2>1. live # None => live \in Mat
    BY DEF Typed, TypeOK
  <2>2. live' # None => mats'[live'].le
    BY <2>1, Used DEF Typed, Known, Steady, MatsKept, Fresh
  <2>3. CASE disk'.cert = disk.cert
    <3>1. disk.cert # None => disk.cert \in Mat
      BY DEF Typed, TypeOK
    <3>2. LetsEncrypt(disk.cert)' => LetsEncrypt(disk.cert)
      BY <2>3, <3>1, Used DEF LetsEncrypt, Steady, MatsKept
    <3>3. live # None => live' # None
      BY TlsAssumption DEF Steady, Fresh
    <3> QED BY <2>2, <3>2, <3>3 DEF Typed, Known
  <2> QED BY <2>3
<1> QED BY <1>1, <1>2, <1>3 DEF Typed, Turn

LEMMA StepAlike ==
  ASSUME AllAlike, NEW p \in Actor, NEW n, Turn(p, n), Alike(n)',
         bounds'.docker = bounds.docker,
         \A q \in Actor \ {p} : proc'[q].alone =>
           /\ disk'.cert = disk.cert /\ disk'.key = disk.key
           /\ proc[q].at = "copyKey" => live' = live
           /\ proc[q].at = "listening" /\ ~bounds.docker => port' = port
  PROVE AllAlike'
<1>1. ASSUME NEW q \in Actor \ {p} PROVE Alike(proc[q])'
  <2>1. PICK old : old = proc[q]
    OBVIOUS
  <2>2. PICK new : new = proc'[q]
    OBVIOUS
  <2>3. Alike(old) /\ Less(new, old)
    BY <2>1, <2>2 DEF AllAlike, Turn, Alike
  <2>4. Alike(new)'
    BY <2>1, <2>2, <2>3 DEF Alike, Less, Wrote
  <2> QED BY <2>2, <2>4 DEF Alike
<1>2. Alike(proc[p])'
  BY DEF Turn, Alike
<1> QED BY <1>1, <1>2 DEF AllAlike

LEMMA StepDisk ==
  ASSUME Typed, DiskKept, NEW p \in Actor, NEW n, Turn(p, n), Steady,
         disk' = disk, mixed => mixed', Wrote(proc[p]) => Wrote(n) \/ mixed'
  PROVE DiskKept'
<1> SUFFICES ASSUME ~mixed', \A q \in Actor : ~Wrote(proc'[q])
             PROVE Whole'
  BY DEF DiskKept, Wrote
<1>1. \A q \in Actor : ~Wrote(proc[q])
  BY DEF Turn, Less, Wrote
<1>2. Whole
  BY <1>1 DEF DiskKept
<1>3. disk.cert # None => disk.cert \in Mat
  BY DEF Typed, TypeOK
<1> QED BY <1>2, <1>3, Used DEF Whole, Torn, Steady, MatsKept

LEMMA StepServe ==
  ASSUME ServeKept, NEW p \in Actor, NEW n, Turn(p, n), bounds'.docker = bounds.docker,
         disk'.cert = disk.cert, disk'.key = disk.key,
         caddy' = caddy, port' = port, unapplied => unapplied',
         Busy(proc[p]) => Busy(n) \/ unapplied'
  PROVE ServeKept'
<1> SUFFICES ASSUME ~unapplied', \A q \in Actor : ~Busy(proc'[q]), HasFiles'
             PROVE Served'
  BY DEF ServeKept, Busy, Wrote
<1>1. \A q \in Actor : ~Busy(proc[q])
  BY DEF Turn, Less, Busy, Wrote
<1> QED BY <1>1 DEF ServeKept, Served, HasFiles, OnDisk, Pair

LEMMA BusyServe ==
  ASSUME NEW p \in Actor, NEW n, Turn(p, n), Busy(n) \/ unapplied'
  PROVE ServeKept'
<1>1. Busy(n) => Busy(proc[p])'
  BY DEF Turn, Busy, Wrote
<1> QED BY <1>1 DEF ServeKept, Busy, Wrote

LEMMA LowKept ==
  ASSUME Typed, Steady, disk'.cert = disk.cert
  PROVE /\ Low' <=> Low
        /\ LetsEncrypt(disk.cert)' <=> LetsEncrypt(disk.cert)
        /\ Low => mats'[disk'.cert] = mats[disk.cert]
<1>1. disk.cert # None => disk.cert \in Mat
  BY DEF Typed, TypeOK
<1> QED BY <1>1, Used DEF Low, LetsEncrypt, Steady, MatsKept

LEMMA StepRenewed ==
  ASSUME Typed, Renewed, NEW p \in Actor, NEW n, Turn(p, n), Steady,
         disk'.cert = disk.cert, Past(n) => Past(proc[p]) \/ ~Low
  PROVE Renewed'
<1>1. ASSUME NEW q \in Actor, Past(proc[q])' PROVE ~Low'
  <2>1. Past(proc[q]) \/ ~Low
    BY <1>1 DEF Turn, Less, Past
  <2> QED BY <2>1, LowKept DEF Renewed
<1> QED BY <1>1 DEF Renewed

LEMMA Waits == Wait \in Nat /\ Wait >= 1
  BY TlsAssumption DEF Wait

(* One attempt more costs one more pause. *)
LEMMA MoreAttempts ==
  ASSUME NEW f \in Nat, NEW g \in Nat, f <= g
  PROVE /\ (f + 1) * Wait \in Nat /\ (f + 1) * Wait <= (g + 1) * Wait
        /\ (f + 2) * Wait = (f + 1) * Wait + Wait
        /\ (f + 1) * Wait >= Wait
<1>1. ASSUME NEW w \in Nat
      PROVE /\ (f + 1) * w \in Nat /\ (f + 1) * w <= (g + 1) * w
            /\ (f + 2) * w = (f + 1) * w + w
            /\ (f + 1) * w >= w
  OBVIOUS
<1> QED BY <1>1, Waits

(* The steps that leave the timer to what it does. *)
LEMMA StepEnds ==
  ASSUME Typed, TypeOK', Ends, NEW p \in Actor, NEW n, Turn(p, n), Steady, UNCHANGED clock,
         p = Timer => n.op = proc[p].op,
         Renewable' /\ Low' => disk'.cert = disk.cert /\ disk'.mark = disk.mark /\ fails <= fails'
  PROVE Ends'
<1>1. Timer \in Actor /\ (proc'[Timer].op = "renew" <=> proc[Timer].op = "renew")
  BY DEF Actor, Turn, Less
<1>2. due' = due /\ pause' = pause /\ pause \in Nat /\ fails \in Nat /\ fails' \in Nat
  BY TlsAssumption, Waits DEF clock, Typed, TypeOK
<1>3. ASSUME Renewable', Low'
      PROVE /\ Renewable /\ Low /\ mats'[disk'.cert] = mats[disk.cert] /\ fails <= fails'
            /\ mats[disk.cert].life \in Nat
  <2>1. Low /\ mats'[disk'.cert] = mats[disk.cert]
    BY <1>3, LowKept
  <2>2. mats[disk.cert].life \in Nat
    BY <2>1, TlsAssumption DEF Low, LetsEncrypt, Typed, TypeOK
  <2> QED BY <1>3, <2>1, <2>2 DEF Renewable, Low
<1>4. ASSUME Renewable', Low'
      PROVE mats'[disk'.cert].life >= Threshold - (fails' + 1) * Wait + pause'
  <2>1. mats[disk.cert].life >= Threshold - (fails + 1) * Wait + pause
    BY <1>3, <1>4 DEF Ends
  <2>2. /\ (fails + 1) * Wait \in Nat /\ (fails' + 1) * Wait \in Nat
        /\ (fails + 1) * Wait <= (fails' + 1) * Wait
    BY <1>2, <1>3, <1>4, MoreAttempts
  <2>3. mats'[disk'.cert].life = mats[disk.cert].life /\ mats[disk.cert].life \in Nat
    BY <1>3, <1>4
  <2> QED BY <1>2, <2>1, <2>2, <2>3, TlsAssumption
<1> QED BY <1>1, <1>2, <1>3, <1>4 DEF Ends

(* A request that answers has put a fresh certificate there, or is one     *)
(* more that failed.                                                       *)
LEMMA AnswerEnds ==
  ASSUME Typed, TypeOK', Ends, NEW p \in Actor, NEW ok \in BOOLEAN, Answer(p, ok), Steady,
         proc[p].at # "idle", disk' = disk,
         Renewable /\ Low =>
           /\ fails <= fails'
           /\ proc[p].op = "renew" => ~ok /\ fails' = fails + 1
  PROVE Ends'
<1>1. /\ p = Timer => proc'[Timer].op = "idle"
      /\ p # Timer => proc'[Timer].op = proc[Timer].op
  BY BlankSound DEF Answer, Go, Typed, Actor
<1>2. /\ due' = due /\ pause \in Nat /\ pause' \in Nat /\ fails \in Nat /\ fails' \in Nat
      /\ Threshold \in Nat
  BY TlsAssumption, Waits DEF Answer, clock, Typed, TypeOK
<1>3. /\ Renewable' /\ Low' => Renewable /\ Low /\ mats'[disk'.cert] = mats[disk.cert]
      /\ Low => mats[disk.cert].life \in Nat
  BY LowKept DEF Renewable, Low, LetsEncrypt, Typed, TypeOK
<1>4. CASE p # Timer \/ proc[p].op = "boot"
  <2>1. pause' = pause
    BY <1>4 DEF Answer, PauseAfter
  <2>2. ASSUME Renewable', Low'
        PROVE mats'[disk'.cert].life >= Threshold - (fails' + 1) * Wait + pause'
    <3>1. mats[disk.cert].life >= Threshold - (fails + 1) * Wait + pause /\ fails <= fails'
      BY <2>2, <1>3 DEF Ends
    <3>2. /\ (fails + 1) * Wait \in Nat /\ (fails' + 1) * Wait \in Nat
          /\ (fails + 1) * Wait <= (fails' + 1) * Wait
      BY <1>2, <3>1, MoreAttempts
    <3>3. mats'[disk'.cert].life = mats[disk.cert].life /\ mats[disk.cert].life \in Nat
      BY <1>3, <2>2
    <3> QED BY <1>2, <2>1, <3>1, <3>2, <3>3
  <2>3. p = Timer => ~(~due /\ pause = 0 /\ Renewable /\ Low)
    BY <1>4 DEF Ends
  <2> QED BY <1>1, <1>2, <1>3, <2>1, <2>2, <2>3 DEF Ends
<1>5. CASE p = Timer /\ proc[p].op = "renew"
  <2>1. pause' = IF ok THEN 0 ELSE Wait
    BY <1>5 DEF Answer, PauseAfter
  <2>2. ASSUME Renewable', Low'
        PROVE /\ pause' >= 1
              /\ mats'[disk'.cert].life >= Threshold - (fails' + 1) * Wait + pause'
    <3>1. /\ ~ok /\ fails' = fails + 1 /\ pause = 0
          /\ mats[disk.cert].life >= Threshold - (fails + 1) * Wait + pause
      BY <2>2, <1>3, <1>5 DEF Ends
    <3>2. (fails' + 1) * Wait = (fails + 1) * Wait + Wait /\ (fails + 1) * Wait \in Nat
      <4>1. fails' + 1 = fails + 2
        BY <1>2, <3>1
      <4>2. fails <= fails
        BY <1>2
      <4>3. (fails + 2) * Wait = (fails + 1) * Wait + Wait /\ (fails + 1) * Wait \in Nat
        BY <1>2, <4>2, MoreAttempts
      <4> QED BY <4>1, <4>3
    <3>3. mats'[disk'.cert].life = mats[disk.cert].life /\ mats[disk.cert].life \in Nat
      BY <1>3, <2>2
    <3>4. pause' = Wait
      BY <2>1, <3>1
    <3> QED BY <1>2, <3>1, <3>2, <3>3, <3>4, Waits
  <2>3. (pause' # 0 /\ proc'[Timer].op = "idle") \/ ~(Renewable' /\ Low')
    BY <1>1, <1>2, <1>5, <2>2
  <2> QED BY <1>1, <1>5, <2>2, <2>3 DEF Ends
<1>6. p # Timer \/ proc[p].op \in {"boot", "renew"}
  BY Where DEF Typed, Sound, OpsOf
<1> QED BY <1>4, <1>5, <1>6

(* Those at the given points know no longer that they are alone. *)
Apart(p) == \A q \in Actor \ {p} : proc'[q].alone =>
              /\ proc[q].at = "copyKey" => live' = live
              /\ proc[q].at = "listening" /\ ~bounds.docker => port' = port

(* A step that leaves the files, the attempts and the timer alone. *)
LEMMA QuietStep ==
  ASSUME Inv, TypeOK', NEW p \in Actor, NEW n, Turn(p, n), Sound(p, n)', Alike(n)', Steady,
         Apart(p), UNCHANGED <<files, fails, clock>>,
         bounds' \in Limits, bounds'.docker = bounds.docker,
         p = Timer => n.op = proc[p].op,
         Wrote(proc[p]) => Wrote(n), Past(n) => Past(proc[p]),
         \/ Busy(n) \/ unapplied'
         \/ ~Busy(proc[p]) /\ caddy' = caddy /\ port' = port /\ unapplied' = unapplied
  PROVE Inv'
<1>1. /\ disk' = disk /\ mixed' = mixed /\ fails' = fails
      /\ Typed /\ AllAlike /\ DiskKept /\ ServeKept /\ Renewed /\ Ends
  BY DEF files, Inv
<1>2. Typed'
  BY <1>1, StepTyped
<1>3. AllAlike'
  BY <1>1, StepAlike DEF Apart
<1>4. DiskKept'
  BY <1>1, StepDisk
<1>5. ServeKept'
  BY <1>1, StepServe, BusyServe
<1>6. Renewed'
  BY <1>1, StepRenewed
<1>7. Ends'
  <2>1. fails <= fails'
    BY <1>1, TlsAssumption DEF Typed, TypeOK
  <2> QED BY <1>1, <2>1, StepEnds DEF clock
<1> QED BY <1>2, <1>3, <1>4, <1>5, <1>6, <1>7 DEF Inv

(* A request answers. *)
LEMMA AnswerStep ==
  ASSUME Inv, TypeOK', NEW p \in Actor, NEW ok \in BOOLEAN, Answer(p, ok),
         disk' = disk, mats' = mats, live' = live,
         bounds' \in Limits, bounds'.docker = bounds.docker,
         Apart(p), proc[p].at # "idle",
         mixed => mixed', Wrote(proc[p]) => mixed',
         Renewable /\ Low =>
           fails <= fails' /\ (proc[p].op = "renew" => ~ok /\ fails' = fails + 1),
         \/ unapplied' \/ Served'
         \/ ~Busy(proc[p]) /\ caddy' = caddy /\ port' = port /\ unapplied' = unapplied
  PROVE Inv'
<1>1. Typed /\ AllAlike /\ DiskKept /\ ServeKept /\ Renewed /\ Ends /\ Steady
  BY SameSteady DEF Inv
<1>2. PICK n : n = Blank
  OBVIOUS
<1>3. n \in Row /\ n.op = "idle" /\ n.at = "idle" /\ ~n.alone /\ ~n.informed
  BY <1>2, BlankSound
<1>4. Turn(p, n) /\ \A q \in Actor \ {p} : proc'[q] = proc[q]
  BY <1>1, <1>2, <1>3, GoTurn DEF Answer, Typed
<1>5. Sound(p, n)' /\ Alike(n)'
  BY <1>3 DEF Sound, Alike, OpsOf, PointsOf, AskCA, Writing
<1>6. ~Wrote(n) /\ ~Busy(n) /\ ~Past(n)
  BY <1>3 DEF Wrote, Busy, Past, AskCA, Handing
<1>7. Typed'
  BY <1>1, <1>4, <1>5, StepTyped
<1>8. AllAlike'
  BY <1>1, <1>4, <1>5, StepAlike DEF Apart
<1>9. DiskKept'
  BY <1>1, <1>4, StepDisk
<1>10. ServeKept'
  <2>1. unapplied' \/ Served' => ServeKept'
    BY DEF ServeKept
  <2>2. ASSUME ~Busy(proc[p]), caddy' = caddy, port' = port, unapplied' = unapplied
        PROVE ServeKept'
    BY <1>1, <1>4, <2>2, StepServe
  <2> QED BY <2>1, <2>2
<1>11. Renewed'
  BY <1>1, <1>4, <1>6, StepRenewed
<1>12. Ends'
  BY <1>1, AnswerEnds
<1> QED BY <1>7, <1>8, <1>9, <1>10, <1>11, <1>12 DEF Inv

-----------------------------------------------------------------------------
(* Every step of a request preserves the invariant. *)

LEMMA ApartSame ==
  ASSUME NEW p, live' = live, port' = port
  PROVE Apart(p)
  BY DEF Apart

LEMMA AlikeFree ==
  ASSUME NEW n, n.at \notin {"copyKey"} \cup Writing \cup Serve
  PROVE Alike(n)' /\ ~Wrote(n)
  BY DEF Alike, Wrote, Writing, Serve

(* The operations of a request that is at a point. *)
LEMMA Stands ==
  ASSUME Inv, NEW p \in Actor, NEW q, q = proc[p]
  PROVE /\ q \in Row /\ Sound(p, q) /\ Alike(q)
        /\ q.op \in OpsOf(p)
        /\ q.op \in AskCA => q.op \in {"issue", "renew"}
        /\ q.at = "marker" => q.op = "renew"
        /\ q.at \in {"certbot", "copyCert", "copyKey"} => q.op \in AskCA
        /\ q.at \in Writing => q.op \in AskCA \/ q.op = "generate"
        /\ q.at # "idle" => q.op \in {"boot", "generate", "issue", "renew"}
<1>1. Typed /\ AllAlike
  BY DEF Inv
<1>2. q \in Row /\ Sound(p, q) /\ Alike(q)
  BY <1>1 DEF Typed, AllAlike, Sound, Fresh, SelfMade, Alike
<1>3. q.op \in OpsOf(p)
  BY <1>2 DEF Sound
<1> QED BY <1>1, <1>2, <1>3, Where DEF AskCA, Row, Op

(* The next point of an operation. *)
LEMMA Goes ==
  ASSUME NEW o, NEW a
  PROVE /\ o = "renew" /\ a = "certbot" => a \in PointsOf(o)
        /\ o \in AskCA /\ a \in {"copyCert", "copyKey"} \cup Writing => a \in PointsOf(o)
        /\ o = "generate" /\ a \in Writing => a \in PointsOf(o)
        /\ o \in {"boot", "generate", "issue", "renew"} /\ a \in Handing => a \in PointsOf(o)
        /\ o \in Op /\ a \in PointsOf(o) => a \in Point
  BY DEF PointsOf, AskCA, Op, Point

LEMMA ReadMarkerInv ==
  ASSUME Inv, NEW p \in Actor, ReadMarker(p)
  PROVE Inv'
<1>1. PICK old : old = proc[p]
  OBVIOUS
<1>2. old \in Row /\ Sound(p, old) /\ old.op = "renew" /\ old.at = "marker"
  BY <1>1, Stands DEF ReadMarker
<1>3. /\ disk' = disk /\ mixed' = mixed /\ mats' = mats /\ live' = live /\ fails' = fails
      /\ caddy' = caddy /\ port' = port /\ server' = server /\ unapplied' = unapplied
      /\ bounds' = bounds
  BY DEF ReadMarker, files, pki, serving
<1>4. Steady /\ Apart(p) /\ ~Wrote(old) /\ ~Busy(old) /\ Typed /\ bounds \in Limits
  BY <1>2, <1>3, SameSteady, ApartSame DEF Wrote, Busy, Handing, Inv, Typed
<1>5. CASE MayRenew
  <2>1. PICK n : n = [old EXCEPT !.at = "certbot", !.informed = TRUE]
    OBVIOUS
  <2>2. n.at \in PointsOf(n.op) /\ n \in Row /\ n.op = old.op /\ n.at = "certbot"
    <3>1. "certbot" \in PointsOf(old.op) /\ "certbot" \in Point
      BY <1>2, Goes DEF Op
    <3>2. n \in Row /\ n.op = old.op /\ n.at = "certbot"
      BY <1>2, <2>1, <3>1 DEF Row
    <3> QED BY <3>1, <3>2
  <2>3. Turn(p, n) /\ UNCHANGED clock
    BY <1>1, <1>4, <1>5, <2>1, <2>2, GoTurn DEF ReadMarker, Typed
  <2>4. Sound(p, n)'
    BY <1>2, <1>3, <1>5, <2>2 DEF Sound, Writing, AskCA, MayRenew
  <2>5. Alike(n)' /\ ~Past(n)
    BY <2>2, AlikeFree DEF Past, Writing, Serve, Handing
  <2>6. TypeOK'
    BY <1>3, <1>4, <2>3 DEF Typed, TypeOK, Turn, clock
  <2> QED BY <1>1, <1>2, <1>3, <1>4, <2>2, <2>3, <2>4, <2>5, <2>6, QuietStep DEF files
<1>6. CASE ~MayRenew
  <2>1. Answer(p, FALSE)
    BY <1>6 DEF ReadMarker
  <2>2. TypeOK'
    BY <1>3, <1>4, <2>1, Waits DEF Typed, TypeOK, Answer, PauseAfter, Go
  <2>3. ~Renewable
    BY <1>6 DEF MayRenew, Renewable
  <2> QED BY <1>1, <1>2, <1>3, <1>4, <2>1, <2>2, <2>3, AnswerStep
<1> QED BY <1>5, <1>6

LEMMA CertbotIssuesInv ==
  ASSUME Inv, NEW p \in Actor, CertbotIssues(p)
  PROVE Inv'
<1>1. PICK old : old = proc[p]
  OBVIOUS
<1>2. old \in Row /\ Sound(p, old) /\ old.op \in AskCA /\ old.at = "certbot"
  BY <1>1, Stands DEF CertbotIssues
<1>3. /\ disk' = disk /\ mixed' = mixed /\ fails' = fails /\ UNCHANGED clock
      /\ caddy' = caddy /\ port' = port /\ server' = server /\ unapplied' = unapplied
      /\ bounds' = bounds /\ live' = New
  BY DEF CertbotIssues, files, serving
<1>4. ~Wrote(old) /\ ~Busy(old) /\ Typed /\ TypeOK /\ bounds \in Limits
  BY <1>2 DEF Wrote, Busy, Handing, Inv, Typed
<1>5. PICK n : n = [old EXCEPT !.at = "copyCert"]
  OBVIOUS
<1>6. /\ n.at \in PointsOf(n.op) /\ n \in Row /\ n.op = old.op /\ n.at = "copyCert"
      /\ n.informed = old.informed
  <2>1. "copyCert" \in PointsOf(old.op) /\ old.op \in Op
    BY <1>2, Goes DEF Op, AskCA
  <2>2. "copyCert" \in Point
    BY <2>1, Goes
  <2> QED BY <1>2, <1>5, <2>1, <2>2 DEF Row
<1>7. Turn(p, n) /\ \A q \in Actor \ {p} : proc[q].at \in {"copyKey"} => ~proc'[q].alone
  BY <1>1, <1>4, <1>5, <1>6, BesideTurn DEF CertbotIssues, Typed
<1>8. /\ mats' \in [Mat -> [le : BOOLEAN, life : 0..Life]]
      /\ New \in Mat /\ mats'[New] = FromCA /\ MatsKept
  <2>1. FromCA \in [le : BOOLEAN, life : 0..Life]
    BY TlsAssumption DEF FromCA
  <2> QED BY <1>4, <2>1, CreateKeeps DEF CertbotIssues
<1>9. Fresh(live)'
  BY <1>3, <1>8, TlsAssumption DEF Fresh, FromCA
<1>10. Steady /\ Apart(p)
  BY <1>3, <1>7, <1>8, <1>9 DEF Steady, Apart
<1>11. Sound(p, n)'
  BY <1>2, <1>3, <1>6, <1>9 DEF Sound, Writing, AskCA
<1>12. Alike(n)' /\ ~Past(n)
  BY <1>6, AlikeFree DEF Past, Writing, Serve, Handing
<1>13. TypeOK'
  BY <1>3, <1>4, <1>7, <1>8 DEF TypeOK, Turn, clock
<1> QED BY <1>1, <1>3, <1>4, <1>6, <1>7, <1>10, <1>11, <1>12, <1>13, QuietStep DEF files

LEMMA CertbotKeepsInv ==
  ASSUME Inv, NEW p \in Actor, CertbotKeeps(p)
  PROVE Inv'
<1>1. PICK old : old = proc[p]
  OBVIOUS
<1>2. old \in Row /\ Sound(p, old) /\ old.op \in AskCA /\ old.at = "certbot"
  BY <1>1, Stands DEF CertbotKeeps
<1>3. /\ disk' = disk /\ mixed' = mixed /\ mats' = mats /\ live' = live /\ fails' = fails
      /\ caddy' = caddy /\ port' = port /\ server' = server /\ unapplied' = unapplied
      /\ bounds' = bounds /\ UNCHANGED clock
  BY DEF CertbotKeeps, files, pki, serving
<1>4. /\ ~Wrote(old) /\ ~Busy(old) /\ Typed /\ TypeOK /\ Known /\ bounds \in Limits
      /\ Steady /\ Apart(p)
  BY <1>2, <1>3, SameSteady, ApartSame DEF Wrote, Busy, Handing, Inv, Typed
<1>5. PICK n : n = [old EXCEPT !.at = "copyCert"]
  OBVIOUS
<1>6. /\ n.at \in PointsOf(n.op) /\ n \in Row /\ n.op = old.op /\ n.at = "copyCert"
      /\ n.informed = old.informed
  <2>1. "copyCert" \in PointsOf(old.op) /\ old.op \in Op
    BY <1>2, Goes DEF Op, AskCA
  <2>2. "copyCert" \in Point
    BY <2>1, Goes
  <2> QED BY <1>2, <1>5, <2>1, <2>2 DEF Row
<1>7. Turn(p, n)
  BY <1>1, <1>4, <1>5, <1>6, GoTurn DEF CertbotKeeps, Typed
<1>8. Fresh(live)'
  BY <1>3, <1>4 DEF Fresh, TypeOK, Known, CertbotKeeps
<1>9. Sound(p, n)'
  BY <1>2, <1>3, <1>6, <1>8 DEF Sound, Writing, AskCA
<1>10. Alike(n)' /\ ~Past(n)
  BY <1>6, AlikeFree DEF Past, Writing, Serve, Handing
<1>11. TypeOK'
  BY <1>3, <1>4, <1>7 DEF TypeOK, Turn, clock
<1> QED BY <1>1, <1>3, <1>4, <1>6, <1>7, <1>9, <1>10, <1>11, QuietStep DEF files

LEMMA CertbotFailsInv ==
  ASSUME Inv, NEW p \in Actor, CertbotFails(p)
  PROVE Inv'
<1>1. proc[p].at = "certbot"
  BY DEF CertbotFails
<1>2. /\ disk' = disk /\ mixed' = mixed /\ mats' = mats /\ live' = live
      /\ caddy' = caddy /\ port' = port /\ server' = server /\ unapplied' = unapplied
      /\ bounds' = bounds /\ Answer(p, FALSE)
      /\ fails' = IF fails < Patience THEN fails + 1 ELSE fails
      /\ fails < Patience \/ live = None
  BY DEF CertbotFails, files, serving
<1>3. /\ ~Wrote(proc[p]) /\ ~Busy(proc[p]) /\ Typed /\ TypeOK /\ Known /\ bounds \in Limits
      /\ Apart(p)
  BY <1>1, <1>2, ApartSame DEF Wrote, Busy, Handing, Inv, Typed
<1>4. fails \in 0..Patience /\ fails' \in 0..Patience /\ fails <= fails'
  BY <1>2, <1>3, TlsAssumption DEF TypeOK
<1>5. Low => fails' = fails + 1
  BY <1>2, <1>3 DEF Low, Known
<1>6. TypeOK'
  BY <1>2, <1>3, <1>4, Waits DEF TypeOK, Answer, PauseAfter, Go
<1> QED BY <1>1, <1>2, <1>3, <1>4, <1>5, <1>6, AnswerStep

LEMMA CopyCertInv ==
  ASSUME Inv, NEW p \in Actor, CopyCert(p)
  PROVE Inv'
<1>1. PICK old : old = proc[p]
  OBVIOUS
<1>2. old \in Row /\ Sound(p, old) /\ old.op \in AskCA /\ old.at = "copyCert"
  BY <1>1, Stands DEF CopyCert
<1>3. /\ disk' = disk /\ mixed' = mixed /\ mats' = mats /\ live' = live /\ fails' = fails
      /\ caddy' = caddy /\ port' = port /\ server' = server /\ unapplied' = unapplied
      /\ bounds' = bounds /\ UNCHANGED clock
  BY DEF CopyCert, files, pki, serving
<1>4. /\ ~Wrote(old) /\ ~Busy(old) /\ Typed /\ TypeOK /\ bounds \in Limits
      /\ Steady /\ Apart(p)
  BY <1>2, <1>3, SameSteady, ApartSame DEF Wrote, Busy, Handing, Inv, Typed
<1>5. PICK n : n = [old EXCEPT !.at = "copyKey", !.cert = live, !.alone = TRUE]
  OBVIOUS
<1>6. /\ n.at \in PointsOf(n.op) /\ n \in Row /\ n.op = old.op /\ n.at = "copyKey"
      /\ n.cert = live /\ n.informed = old.informed
  <2>1. "copyKey" \in PointsOf(old.op) /\ old.op \in Op /\ live \in Mat \cup {None}
    BY <1>2, <1>4, Goes DEF Op, AskCA, TypeOK
  <2>2. "copyKey" \in Point
    BY <2>1, Goes
  <2>3. n \in Row /\ n.op = old.op /\ n.at = "copyKey" /\ n.cert = live
        /\ n.informed = old.informed
    BY <1>2, <1>5, <2>1, <2>2 DEF Row
  <2> QED BY <2>1, <2>3
<1>7. Turn(p, n)
  BY <1>1, <1>4, <1>5, <1>6, GoTurn DEF CopyCert, Typed
<1>8. Fresh(n.cert)' /\ live' # None
  BY <1>2, <1>3, <1>6, TlsAssumption DEF Sound, Fresh
<1>9. Sound(p, n)'
  BY <1>2, <1>3, <1>6, <1>8 DEF Sound, Writing, AskCA
<1>10. Alike(n)' /\ ~Past(n)
  BY <1>3, <1>6 DEF Alike, Wrote, Past, Writing, Serve, Handing
<1>11. TypeOK'
  BY <1>3, <1>4, <1>7 DEF TypeOK, Turn, clock
<1> QED BY <1>1, <1>3, <1>4, <1>6, <1>7, <1>9, <1>10, <1>11, QuietStep DEF files

LEMMA CopyKeyInv ==
  ASSUME Inv, NEW p \in Actor, CopyKey(p)
  PROVE Inv'
<1>1. PICK old : old = proc[p]
  OBVIOUS
<1>2. old \in Row /\ Sound(p, old) /\ Alike(old) /\ old.op \in AskCA /\ old.at = "copyKey"
  BY <1>1, Stands DEF CopyKey
<1>3. /\ disk' = disk /\ mixed' = mixed /\ mats' = mats /\ live' = live /\ fails' = fails
      /\ caddy' = caddy /\ port' = port /\ server' = server /\ unapplied' = unapplied
      /\ bounds' = bounds /\ UNCHANGED clock
  BY DEF CopyKey, files, pki, serving
<1>4. /\ ~Wrote(old) /\ ~Busy(old) /\ Typed /\ TypeOK /\ bounds \in Limits
      /\ Steady /\ Apart(p)
  BY <1>2, <1>3, SameSteady, ApartSame DEF Wrote, Busy, Handing, Inv, Typed
<1>5. PICK n : n = [old EXCEPT !.at = "cert", !.key = live]
  OBVIOUS
<1>6. /\ n.at \in PointsOf(n.op) /\ n \in Row /\ n.op = old.op /\ n.at = "cert"
      /\ n.cert = old.cert /\ n.key = live /\ n.alone = old.alone /\ n.informed = old.informed
  <2>1. "cert" \in PointsOf(old.op) /\ old.op \in Op /\ live \in Mat \cup {None}
    BY <1>2, <1>4, Goes DEF Op, AskCA, TypeOK, Writing
  <2>2. "cert" \in Point
    BY <2>1, Goes
  <2>3. n \in Row /\ n.op = old.op /\ n.at = "cert" /\ n.cert = old.cert /\ n.key = live
        /\ n.alone = old.alone /\ n.informed = old.informed
    BY <1>2, <1>5, <2>1, <2>2 DEF Row
  <2> QED BY <2>1, <2>3
<1>7. Turn(p, n)
  BY <1>1, <1>4, <1>5, <1>6, GoTurn DEF CopyKey, LiveKey, Typed
<1>8. Fresh(n.cert)' /\ live' # None
  BY <1>2, <1>3, <1>6 DEF Sound, Fresh
<1>9. Sound(p, n)'
  BY <1>2, <1>3, <1>6, <1>8 DEF Sound, Writing, AskCA
<1>10. Alike(n)' /\ ~Past(n)
  BY <1>2, <1>3, <1>6 DEF Alike, Wrote, Past, Writing, Serve, Handing, AskCA
<1>11. TypeOK'
  BY <1>3, <1>4, <1>7 DEF TypeOK, Turn, clock
<1> QED BY <1>1, <1>3, <1>4, <1>6, <1>7, <1>9, <1>10, <1>11, QuietStep DEF files

(* The first file that a request writes ends what a request without the    *)
(* others could know; a certificate that it puts there is not due.         *)
LEMMA RenameCertInv ==
  ASSUME Inv, NEW p \in Actor, RenameCert(p)
  PROVE Inv'
<1>1. PICK old : old = proc[p]
  OBVIOUS
<1>2. /\ old \in Row /\ Sound(p, old) /\ Alike(old) /\ old.at = "cert"
      /\ old.op \in AskCA \/ old.op = "generate"
  BY <1>1, Stands DEF RenameCert, Writing
<1>3. /\ disk' = [disk EXCEPT !.cert = old.cert] /\ mixed' = mixed
      /\ mats' = mats /\ live' = live /\ fails' = fails
      /\ caddy' = caddy /\ port' = port /\ server' = server /\ unapplied' = unapplied
      /\ bounds' = bounds /\ UNCHANGED clock
  BY <1>1 DEF RenameCert, pki, serving
<1>4. /\ Typed /\ TypeOK /\ Known /\ AllAlike /\ Renewed /\ Ends /\ bounds \in Limits /\ Steady
  BY <1>3, SameSteady DEF Inv, Typed
<1>5. PICK n : n = [old EXCEPT !.at = IF old.op = "generate" THEN "mark" ELSE "key"]
  OBVIOUS
<1>6. /\ n.at \in PointsOf(n.op) /\ n \in Row /\ n.op = old.op
      /\ n.at = IF old.op = "generate" THEN "mark" ELSE "key"
      /\ n.cert = old.cert /\ n.key = old.key /\ n.alone = old.alone
      /\ n.informed = old.informed
  <2>1. PICK a : a = IF old.op = "generate" THEN "mark" ELSE "key"
    OBVIOUS
  <2>2. a \in PointsOf(old.op) /\ a \in Point
    <3>1. old.op \in Op /\ a \in Writing
      BY <1>2, <2>1 DEF Op, AskCA, Writing
    <3> QED BY <1>2, <3>1, Goes
  <2>3. n \in Row /\ n.op = old.op /\ n.at = a /\ n.cert = old.cert /\ n.key = old.key
        /\ n.alone = old.alone /\ n.informed = old.informed
    BY <1>2, <1>5, <2>1, <2>2 DEF Row
  <2> QED BY <2>1, <2>2, <2>3
<1>7. Turn(p, n) /\ \A q \in Actor \ {p} : ~proc'[q].alone /\ ~proc'[q].informed
  BY <1>1, <1>4, <1>5, <1>6, WriteTurn DEF RenameCert, Typed
<1>8. /\ old.op \in AskCA => Fresh(old.cert) /\ live # None
      /\ old.op = "generate" => SelfMade(old.cert) /\ old.key = old.cert
      /\ old.op \in AskCA => old.key # None
      /\ disk'.cert = old.cert /\ disk'.key = disk.key /\ disk'.mark = disk.mark
  BY <1>2, <1>3, <1>4 DEF Sound, TypeOK, Writing
<1>9. Sound(p, n)'
  BY <1>2, <1>3, <1>6, <1>8 DEF Sound, Fresh, SelfMade, Writing, AskCA
<1>10. TypeOK'
  <2>1. old.cert \in Mat \cup {None}
    BY <1>2 DEF Row
  <2> QED BY <1>3, <1>4, <1>7, <2>1 DEF TypeOK, Turn, clock
<1>11. ~Low' /\ Known'
  <2>1. CASE old.op \in AskCA
    <3>1. mats'[disk'.cert].life \in Int /\ mats'[disk'.cert].life >= Threshold
      BY <1>3, <1>4, <1>8, <2>1 DEF Fresh, TypeOK
    <3> QED BY <1>3, <1>4, <1>8, <2>1, <3>1, TlsAssumption DEF Low, LetsEncrypt, Known
  <2>2. CASE old.op = "generate"
    <3>1. ~LetsEncrypt(disk.cert)'
      BY <1>3, <1>8, <2>2 DEF LetsEncrypt, SelfMade
    <3> QED BY <1>3, <1>4, <3>1 DEF Low, Known
  <2> QED BY <1>2, <2>1, <2>2
<1>12. Wrote(n) /\ Busy(n)
  BY <1>2, <1>6 DEF Wrote, Busy, AskCA
<1>13. Typed'
  BY <1>3, <1>4, <1>7, <1>9, <1>10, <1>11, StepTyped
<1>14. AllAlike'
  <2>1. Alike(n)'
    BY <1>2, <1>6, <1>8 DEF Alike, Wrote, Writing, Serve, AskCA
  <2> QED BY <1>3, <1>4, <1>7, <2>1, StepAlike
<1>15. DiskKept'
  BY <1>7, <1>12 DEF DiskKept, Turn, Wrote
<1>16. ServeKept'
  BY <1>7, <1>12, BusyServe
<1>17. Renewed'
  BY <1>11 DEF Renewed
<1>18. Ends'
  BY <1>1, <1>4, <1>3, <1>6, <1>7, <1>10, <1>11, StepEnds DEF clock
<1> QED BY <1>13, <1>14, <1>15, <1>16, <1>17, <1>18 DEF Inv

LEMMA RenameKeyInv ==
  ASSUME Inv, NEW p \in Actor, RenameKey(p)
  PROVE Inv'
<1>1. PICK old : old = proc[p]
  OBVIOUS
<1>2. /\ old \in Row /\ Sound(p, old) /\ Alike(old) /\ old.at = "key"
      /\ old.op \in AskCA \/ old.op = "generate"
  BY <1>1, Stands DEF RenameKey, Writing
<1>3. /\ disk' = [disk EXCEPT !.key = old.key] /\ mixed' = mixed
      /\ mats' = mats /\ live' = live /\ fails' = fails
      /\ caddy' = caddy /\ port' = port /\ server' = server /\ unapplied' = unapplied
      /\ bounds' = bounds /\ UNCHANGED clock
  BY <1>1 DEF RenameKey, pki, serving
<1>4. /\ Typed /\ TypeOK /\ AllAlike /\ Renewed /\ Ends /\ bounds \in Limits /\ Steady
  BY <1>3, SameSteady DEF Inv, Typed
<1>5. PICK n : n = [old EXCEPT !.at = IF old.op = "generate" THEN "cert" ELSE "mark"]
  OBVIOUS
<1>6. /\ n.at \in PointsOf(n.op) /\ n \in Row /\ n.op = old.op
      /\ n.at = IF old.op = "generate" THEN "cert" ELSE "mark"
      /\ n.cert = old.cert /\ n.key = old.key /\ n.alone = old.alone
      /\ n.informed = old.informed
  <2>1. PICK a : a = IF old.op = "generate" THEN "cert" ELSE "mark"
    OBVIOUS
  <2>2. a \in PointsOf(old.op) /\ a \in Point
    <3>1. old.op \in Op /\ a \in Writing
      BY <1>2, <2>1 DEF Op, AskCA, Writing
    <3> QED BY <1>2, <3>1, Goes
  <2>3. n \in Row /\ n.op = old.op /\ n.at = a /\ n.cert = old.cert /\ n.key = old.key
        /\ n.alone = old.alone /\ n.informed = old.informed
    BY <1>2, <1>5, <2>1, <2>2 DEF Row
  <2> QED BY <2>1, <2>2, <2>3
<1>7. Turn(p, n) /\ \A q \in Actor \ {p} : ~proc'[q].alone /\ ~proc'[q].informed
  BY <1>1, <1>4, <1>5, <1>6, WriteTurn DEF RenameKey, Typed
<1>8. /\ old.op \in AskCA => Fresh(old.cert) /\ live # None
      /\ old.op = "generate" => SelfMade(old.cert) /\ old.key = old.cert
      /\ old.op \in AskCA => old.key # None
      /\ disk'.cert = disk.cert /\ disk'.key = old.key /\ disk'.mark = disk.mark
  BY <1>2, <1>3, <1>4 DEF Sound, TypeOK, Writing
<1>9. Sound(p, n)'
  BY <1>2, <1>3, <1>6, <1>8 DEF Sound, Fresh, SelfMade, Writing, AskCA
<1>10. TypeOK'
  <2>1. old.key \in Mat \cup {None}
    BY <1>2 DEF Row
  <2> QED BY <1>3, <1>4, <1>7, <2>1 DEF TypeOK, Turn, clock
<1>11. Wrote(n) /\ Busy(n) /\ (Past(n) => Past(old))
  BY <1>2, <1>6 DEF Wrote, Busy, Past, AskCA
<1>12. Typed'
  BY <1>3, <1>4, <1>7, <1>8, <1>9, <1>10, StepTyped
<1>13. AllAlike'
  <2>1. Alike(n)'
    BY <1>2, <1>6, <1>8 DEF Alike, Wrote, Writing, Serve, AskCA
  <2> QED BY <1>3, <1>4, <1>7, <2>1, StepAlike
<1>14. DiskKept'
  BY <1>7, <1>11 DEF DiskKept, Turn, Wrote
<1>15. ServeKept'
  BY <1>7, <1>11, BusyServe
<1>16. Renewed'
  BY <1>1, <1>4, <1>7, <1>8, <1>11, StepRenewed
<1>17. Ends'
  <2>1. fails <= fails'
    BY <1>3, <1>4, TlsAssumption DEF TypeOK
  <2> QED BY <1>1, <1>4, <1>3, <1>6, <1>7, <1>8, <1>10, <2>1, StepEnds DEF clock
<1> QED BY <1>12, <1>13, <1>14, <1>15, <1>16, <1>17 DEF Inv

LEMMA WriteMarkInv ==
  ASSUME Inv, NEW p \in Actor, WriteMark(p)
  PROVE Inv'
<1>1. PICK old : old = proc[p]
  OBVIOUS
<1>2. /\ old \in Row /\ Sound(p, old) /\ Alike(old) /\ old.at = "mark"
      /\ old.op \in {"issue", "renew", "generate"}
  BY <1>1, Stands DEF WriteMark, Writing
<1>3. /\ disk' = [disk EXCEPT !.mark = IF old.op = "generate" THEN "selfsigned"
                                       ELSE "letsencrypt"]
      /\ mixed' = ~old.alone
      /\ fails' = IF old.op = "generate" THEN fails ELSE 0
      /\ mats' = mats /\ live' = live
      /\ caddy' = caddy /\ port' = port /\ server' = server /\ unapplied' = unapplied
      /\ bounds' = bounds /\ UNCHANGED clock
  BY <1>1 DEF WriteMark, Mark, serving
<1>4. /\ Typed /\ TypeOK /\ AllAlike /\ Renewed /\ Ends /\ bounds \in Limits /\ Steady
  BY <1>3, SameSteady DEF Inv, Typed
<1>5. PICK n : n = [Blank EXCEPT !.op = old.op, !.at = "apply"]
  OBVIOUS
<1>6. /\ n.at \in PointsOf(n.op) /\ n \in Row /\ n.op = old.op /\ n.at = "apply"
      /\ ~n.alone /\ ~n.informed
  <2>1. "apply" \in PointsOf(old.op) /\ "apply" \in Point /\ old.op \in Op
    BY <1>2, Goes DEF Op, Handing
  <2>2. n \in Row /\ n.op = old.op /\ n.at = "apply" /\ ~n.alone /\ ~n.informed
    BY <1>5, <2>1 DEF Row, Blank
  <2> QED BY <2>1, <2>2
<1>7. Turn(p, n) /\ \A q \in Actor \ {p} : ~proc'[q].alone /\ ~proc'[q].informed
  BY <1>1, <1>4, <1>5, <1>6, WriteTurn DEF WriteMark, Handover, Typed
<1>8. /\ old.op \in AskCA => Fresh(old.cert) /\ old.key # None /\ Past(old)
      /\ old.op = "generate" => SelfMade(old.cert)
      /\ disk'.cert = disk.cert /\ disk'.key = disk.key
      /\ disk'.mark = IF old.op = "generate" THEN "selfsigned" ELSE "letsencrypt"
  BY <1>2, <1>3, <1>4 DEF Sound, TypeOK, Writing, Past
<1>9. Sound(p, n)'
  BY <1>2, <1>6 DEF Sound, Writing, AskCA
<1>10. TypeOK'
  BY <1>3, <1>4, <1>7, TlsAssumption DEF TypeOK, Turn, clock
<1>11. Busy(n) /\ (Past(n) => Past(old))
  BY <1>2, <1>6 DEF Busy, Past, AskCA, Handing
<1>12. Typed'
  BY <1>3, <1>4, <1>7, <1>8, <1>9, <1>10, StepTyped
<1>13. AllAlike'
  <2>1. Alike(n)'
    BY <1>6 DEF Alike
  <2> QED BY <1>3, <1>4, <1>7, <2>1, StepAlike
<1>14. DiskKept'
  <2> SUFFICES ASSUME old.alone PROVE Whole'
    BY <1>3 DEF DiskKept
  <2>1. disk.cert = old.cert /\ disk.key = old.cert
    BY <1>2 DEF Alike, Wrote, AskCA, Writing
  <2> QED BY <1>2, <1>3, <1>8, <2>1 DEF Whole, Torn, Fresh, SelfMade, AskCA
<1>15. ServeKept'
  BY <1>7, <1>11, BusyServe
<1>16. Renewed'
  BY <1>1, <1>4, <1>7, <1>8, <1>11, StepRenewed
<1>17. Ends'
  <2>1. ~(Renewable' /\ Low')
    BY <1>1, <1>2, <1>4, <1>8, LowKept DEF Renewed, Renewable, AskCA
  <2> QED BY <1>1, <1>4, <1>3, <1>6, <1>7, <1>10, <2>1, StepEnds DEF clock
<1> QED BY <1>12, <1>13, <1>14, <1>15, <1>16, <1>17 DEF Inv

LEMMA WriteFailsInv ==
  ASSUME Inv, NEW p \in Actor, WriteFails(p)
  PROVE Inv'
<1>1. proc[p].at \in {"copyCert", "copyKey"} \cup Writing
  BY DEF WriteFails, Writing
<1>2. PICK late \in BOOLEAN : late <=> proc[p].at \in Writing
  BY DEF Writing
<1>3. /\ disk' = disk /\ mats' = mats /\ live' = live
      /\ caddy' = caddy /\ port' = port /\ server' = server
      /\ bounds' = [bounds EXCEPT !.writes = @ - 1] /\ bounds.writes > 0
      /\ fails < Patience /\ fails' = fails + 1 /\ Answer(p, FALSE)
      /\ mixed' = (mixed \/ late) /\ unapplied' = (unapplied \/ late)
  BY <1>2 DEF WriteFails, Writing
<1>4. Typed /\ TypeOK /\ bounds \in Limits /\ Apart(p)
  BY <1>3, ApartSame DEF Inv, Typed
<1>5. bounds' \in Limits /\ bounds'.docker = bounds.docker
  BY <1>3, <1>4 DEF Limits
<1>6. /\ Wrote(proc[p]) => late
      /\ Busy(proc[p]) => late
      /\ proc[p].at # "idle"
  BY <1>1, <1>2 DEF Wrote, Busy, Writing, Handing
<1>7. /\ mixed' \in BOOLEAN /\ unapplied' \in BOOLEAN /\ fails' \in 0..Patience /\ fails <= fails'
      /\ mixed => mixed'
      /\ late => mixed' /\ unapplied'
      /\ ~late => unapplied' = unapplied
  BY <1>3, <1>4, TlsAssumption DEF TypeOK
<1>8. TypeOK'
  BY <1>3, <1>4, <1>7, Waits DEF TypeOK, Answer, PauseAfter, Go
<1>9. \/ unapplied'
      \/ ~Busy(proc[p]) /\ caddy' = caddy /\ port' = port /\ unapplied' = unapplied
  BY <1>3, <1>6, <1>7
<1>10. Answer(p, FALSE) /\ (mixed => mixed') /\ (Wrote(proc[p]) => mixed')
  BY <1>3, <1>6, <1>7
<1> QED BY <1>3, <1>4, <1>5, <1>6, <1>7, <1>8, <1>9, <1>10, AnswerStep

(* No certificate is due while the timer hands one over. *)
LEMMA HandingNotDue ==
  ASSUME Inv, NEW p \in Actor, proc[p].at \in Handing
  PROVE proc[p].op = "renew" => ~Low
  BY DEF Inv, Renewed, Past, AskCA

LEMMA StopLocalType ==
  ASSUME TypeOK, StopLocal
  PROVE server' \in BOOLEAN /\ port' \in [cert : Mat \cup {None}, key : Mat \cup {None}]
  BY DEF TypeOK, StopLocal, Pair

LEMMA ReloadInv ==
  ASSUME Inv, NEW p \in Actor, Reload(p)
  PROVE Inv'
<1>1. proc[p].at = "apply" /\ bounds.docker
  BY DEF Reload
<1>2. /\ disk' = disk /\ mixed' = mixed /\ mats' = mats /\ live' = live /\ fails' = fails
      /\ caddy' = OnDisk /\ StopLocal /\ unapplied' = FALSE /\ bounds' = bounds
      /\ Answer(p, TRUE)
  BY DEF Reload, files, pki
<1>3. Typed /\ TypeOK /\ bounds \in Limits
  BY DEF Inv, Typed
<1>4. Apart(p)
  BY <1>1, <1>2 DEF Apart
<1>5. Served'
  BY <1>1, <1>2 DEF Served, OnDisk
<1>6. ~Wrote(proc[p]) /\ ~(proc[p].op = "renew" /\ Low)
  BY <1>1, HandingNotDue DEF Wrote, Handing
<1>7. TypeOK'
  <2>1. caddy' \in [cert : Mat \cup {None}, key : Mat \cup {None}]
    BY <1>2, <1>3 DEF OnDisk, Pair, TypeOK
  <2>2. server' \in BOOLEAN /\ port' \in [cert : Mat \cup {None}, key : Mat \cup {None}]
    BY <1>2, <1>3, StopLocalType
  <2>3. pause' \in 0..Wait /\ due' \in BOOLEAN /\ DOMAIN proc' = Actor
    BY <1>2, <1>3, Waits DEF TypeOK, Answer, PauseAfter, Go
  <2> QED BY <1>2, <1>3, <2>1, <2>2, <2>3 DEF TypeOK
<1>8. fails <= fails'
  BY <1>2, <1>3, TlsAssumption DEF TypeOK
<1> QED BY <1>1, <1>2, <1>3, <1>4, <1>5, <1>6, <1>7, <1>8, AnswerStep

LEMMA ReloadRefusedInv ==
  ASSUME Inv, NEW p \in Actor, ReloadRefused(p)
  PROVE Inv'
<1>1. PICK old : old = proc[p]
  OBVIOUS
<1>2. /\ old \in Row /\ Sound(p, old) /\ old.at = "apply" /\ bounds.docker
      /\ old.op \in {"boot", "generate", "issue", "renew"}
  BY <1>1, Stands DEF ReloadRefused
<1>3. /\ disk' = disk /\ mixed' = mixed /\ mats' = mats /\ live' = live /\ fails' = fails
      /\ caddy' = caddy /\ unapplied' = TRUE
      /\ \/ bounds' = bounds
         \/ bounds.refusals > 0 /\ bounds' = [bounds EXCEPT !.refusals = @ - 1]
  BY DEF ReloadRefused, files, pki
<1>4. Typed /\ TypeOK /\ bounds \in Limits /\ Steady
  BY <1>3, SameSteady DEF Inv, Typed
<1>5. bounds' \in Limits /\ bounds'.docker = bounds.docker
  BY <1>3, <1>4 DEF Limits
<1>6. Apart(p) /\ ~Wrote(old) /\ ~(old.op = "renew" /\ Low)
  BY <1>1, <1>2, <1>3, HandingNotDue DEF Apart, Wrote, Handing
<1>7. fails <= fails'
  BY <1>3, <1>4, TlsAssumption DEF TypeOK
<1>8. CASE StopLocal /\ Answer(p, TRUE)
  <2>1. TypeOK'
    BY <1>3, <1>4, <1>8, StopLocalType, Waits DEF TypeOK, Answer, PauseAfter, Go
  <2> QED BY <1>1, <1>2, <1>3, <1>5, <1>6, <1>7, <1>8, <2>1, AnswerStep
<1>9. CASE Go(p, [old EXCEPT !.at = "read"]) /\ UNCHANGED <<clock, port, server>>
  <2>1. PICK n : n = [old EXCEPT !.at = "read"]
    OBVIOUS
  <2>2. "read" \in PointsOf(old.op) /\ "read" \in Point
    BY <1>2, Goes DEF Op, Handing
  <2>3. /\ n \in Row /\ n.op = old.op /\ n.at = "read" /\ n.informed = old.informed
        /\ n.at \in PointsOf(n.op)
    BY <1>2, <2>1, <2>2 DEF Row
  <2>4. Turn(p, n)
    BY <1>1, <1>4, <1>9, <2>1, <2>3, GoTurn DEF Typed
  <2>5. Sound(p, n)' /\ Alike(n)' /\ Busy(n) /\ (Past(n) => Past(old))
    BY <1>2, <1>3, <2>3 DEF Sound, Alike, Wrote, Busy, Past, Writing, Serve, Handing, AskCA
  <2>6. TypeOK'
    BY <1>3, <1>4, <1>9, <2>4 DEF TypeOK, Turn, clock
  <2> QED BY <1>1, <1>3, <1>4, <1>5, <1>6, <1>9, <2>3, <2>4, <2>5, <2>6, QuietStep DEF files
<1> QED BY <1>1, <1>8, <1>9 DEF ReloadRefused

LEMMA NoDockerInv ==
  ASSUME Inv, NEW p \in Actor, NoDocker(p)
  PROVE Inv'
<1>1. PICK old : old = proc[p]
  OBVIOUS
<1>2. /\ old \in Row /\ Sound(p, old) /\ old.at = "apply"
      /\ old.op \in {"boot", "generate", "issue", "renew"}
  BY <1>1, Stands DEF NoDocker
<1>3. /\ disk' = disk /\ mixed' = mixed /\ mats' = mats /\ live' = live /\ fails' = fails
      /\ caddy' = caddy /\ port' = port /\ server' = server /\ unapplied' = unapplied
      /\ bounds' = bounds /\ UNCHANGED clock
  BY DEF NoDocker, files, pki, serving
<1>4. /\ Typed /\ TypeOK /\ bounds \in Limits /\ Steady /\ Apart(p) /\ ~Wrote(old)
  BY <1>2, <1>3, SameSteady, ApartSame DEF Inv, Typed, Wrote
<1>5. PICK n : n = [old EXCEPT !.at = "read"]
  OBVIOUS
<1>6. "read" \in PointsOf(old.op) /\ "read" \in Point
  BY <1>2, Goes DEF Op, Handing
<1>7. /\ n \in Row /\ n.op = old.op /\ n.at = "read" /\ n.informed = old.informed
      /\ n.at \in PointsOf(n.op)
  BY <1>2, <1>5, <1>6 DEF Row
<1>8. Turn(p, n)
  BY <1>1, <1>4, <1>5, <1>7, GoTurn DEF NoDocker, Typed
<1>9. Sound(p, n)' /\ Alike(n)' /\ Busy(n) /\ (Past(n) => Past(old))
  BY <1>2, <1>3, <1>7 DEF Sound, Alike, Wrote, Busy, Past, Writing, Serve, Handing, AskCA
<1>10. TypeOK'
  BY <1>3, <1>4, <1>8 DEF TypeOK, Turn, clock
<1> QED BY <1>1, <1>3, <1>4, <1>7, <1>8, <1>9, <1>10, QuietStep DEF files

LEMMA ReadPairInv ==
  ASSUME Inv, NEW p \in Actor, ReadPair(p)
  PROVE Inv'
<1>1. PICK old : old = proc[p]
  OBVIOUS
<1>2. /\ old \in Row /\ Sound(p, old) /\ old.at = "read"
      /\ old.op \in {"boot", "generate", "issue", "renew"}
  BY <1>1, Stands DEF ReadPair
<1>3. /\ disk' = disk /\ mixed' = mixed /\ mats' = mats /\ live' = live /\ fails' = fails
      /\ caddy' = caddy /\ port' = port /\ server' = server /\ unapplied' = unapplied
      /\ bounds' = bounds /\ UNCHANGED clock
  BY DEF ReadPair, files, pki, serving
<1>4. /\ Typed /\ TypeOK /\ bounds \in Limits /\ Steady /\ Apart(p) /\ ~Wrote(old)
  BY <1>2, <1>3, SameSteady, ApartSame DEF Inv, Typed, Wrote
<1>5. PICK n : n = [old EXCEPT !.at = "stop", !.cert = disk.cert, !.key = disk.key,
                               !.alone = TRUE]
  OBVIOUS
<1>6. "stop" \in PointsOf(old.op) /\ "stop" \in Point
  BY <1>2, Goes DEF Op, Handing
<1>7. /\ n \in Row /\ n.op = old.op /\ n.at = "stop" /\ n.informed = old.informed
      /\ n.cert = disk.cert /\ n.key = disk.key /\ n.at \in PointsOf(n.op)
  <2>1. disk.cert \in Mat \cup {None} /\ disk.key \in Mat \cup {None}
    BY <1>4 DEF TypeOK
  <2> QED BY <1>2, <1>5, <1>6, <2>1 DEF Row
<1>8. Turn(p, n)
  BY <1>1, <1>4, <1>5, <1>7, BesideTurn DEF ReadPair, Typed
<1>9. Sound(p, n)' /\ Alike(n)' /\ Busy(n) /\ (Past(n) => Past(old))
  BY <1>2, <1>3, <1>7 DEF Sound, Alike, Wrote, Busy, Past, Writing, Serve, Handing, AskCA
<1>10. TypeOK'
  BY <1>3, <1>4, <1>8 DEF TypeOK, Turn, clock
<1> QED BY <1>1, <1>3, <1>4, <1>7, <1>8, <1>9, <1>10, QuietStep DEF files

LEMMA StopServerInv ==
  ASSUME Inv, NEW p \in Actor, StopServer(p)
  PROVE Inv'
<1>1. PICK old : old = proc[p]
  OBVIOUS
<1>2. /\ old \in Row /\ Sound(p, old) /\ Alike(old) /\ old.at = "stop"
      /\ old.op \in {"boot", "generate", "issue", "renew"}
  BY <1>1, Stands DEF StopServer
<1>3. /\ disk' = disk /\ mixed' = mixed /\ mats' = mats /\ live' = live /\ fails' = fails
      /\ caddy' = caddy /\ unapplied' = unapplied /\ StopLocal
      /\ bounds' = bounds /\ UNCHANGED clock
  BY DEF StopServer, files, pki
<1>4. /\ Typed /\ TypeOK /\ bounds \in Limits /\ Steady /\ ~Wrote(old)
  BY <1>2, <1>3, SameSteady DEF Inv, Typed, Wrote
<1>5. PICK n : n = [old EXCEPT !.at = "listen"]
  OBVIOUS
<1>6. "listen" \in PointsOf(old.op) /\ "listen" \in Point
  BY <1>2, Goes DEF Op, Handing
<1>7. /\ n \in Row /\ n.op = old.op /\ n.at = "listen" /\ n.informed = old.informed
      /\ n.alone = old.alone /\ n.cert = old.cert /\ n.key = old.key /\ n.at \in PointsOf(n.op)
  BY <1>2, <1>5, <1>6 DEF Row
<1>8. Turn(p, n) /\ \A q \in Actor \ {p} : proc[q].at \in Serve => ~proc'[q].alone
  BY <1>1, <1>4, <1>5, <1>7, BesideTurn DEF StopServer, Typed
<1>9. Apart(p)
  BY <1>3, <1>8 DEF Apart, Serve
<1>10. Sound(p, n)' /\ Alike(n)' /\ Busy(n) /\ (Past(n) => Past(old))
  BY <1>2, <1>3, <1>7 DEF Sound, Alike, Wrote, Busy, Past, Writing, Serve, Handing, AskCA
<1>11. TypeOK'
  <2>1. server' \in BOOLEAN /\ port' \in [cert : Mat \cup {None}, key : Mat \cup {None}]
    BY <1>3, <1>4, StopLocalType
  <2> QED BY <1>3, <1>4, <1>8, <2>1 DEF TypeOK, Turn, clock
<1> QED BY <1>1, <1>3, <1>4, <1>7, <1>8, <1>9, <1>10, <1>11, QuietStep DEF files

LEMMA ListenInv ==
  ASSUME Inv, NEW p \in Actor, Listen(p)
  PROVE Inv'
<1>1. PICK old : old = proc[p]
  OBVIOUS
<1>2. /\ old \in Row /\ Sound(p, old) /\ Alike(old) /\ old.at = "listen"
      /\ old.op \in {"boot", "generate", "issue", "renew"}
  BY <1>1, Stands DEF Listen
<1>3. /\ disk' = disk /\ mixed' = mixed /\ mats' = mats /\ live' = live /\ fails' = fails
      /\ caddy' = caddy /\ server' = server /\ bounds' = bounds
  BY DEF Listen, files, pki
<1>4. /\ Typed /\ TypeOK /\ bounds \in Limits /\ Steady /\ ~Wrote(old)
      /\ ~(old.op = "renew" /\ Low)
  BY <1>1, <1>2, <1>3, SameSteady, HandingNotDue DEF Inv, Typed, Wrote, Handing
<1>5. CASE old.cert = old.key /\ port.cert = None
  <2>1. PICK n : n = [old EXCEPT !.at = "listening"]
    OBVIOUS
  <2>2. /\ port' = Pair(old.cert, old.key) /\ UNCHANGED clock /\ unapplied' = unapplied
        /\ Beside(p, n, Serve)
    BY <1>1, <1>5, <2>1 DEF Listen
  <2>3. "listening" \in PointsOf(old.op) /\ "listening" \in Point
    BY <1>2, Goes DEF Op, Handing
  <2>4. /\ n \in Row /\ n.op = old.op /\ n.at = "listening" /\ n.informed = old.informed
        /\ n.alone = old.alone /\ n.cert = old.cert /\ n.key = old.key
        /\ n.at \in PointsOf(n.op)
    BY <1>2, <2>1, <2>3 DEF Row
  <2>5. Turn(p, n) /\ \A q \in Actor \ {p} : proc[q].at \in Serve => ~proc'[q].alone
    BY <1>4, <2>2, <2>4, BesideTurn DEF Typed
  <2>6. Apart(p)
    BY <1>3, <2>5 DEF Apart, Serve
  <2>7. Sound(p, n)' /\ Busy(n) /\ (Past(n) => Past(old))
    BY <1>2, <1>3, <2>4 DEF Sound, Busy, Past, Writing, Handing, AskCA
  <2>8. Alike(n)'
    BY <1>2, <1>3, <2>2, <2>4 DEF Alike, Wrote, Writing, Serve
  <2>9. TypeOK'
    <3>1. port' \in [cert : Mat \cup {None}, key : Mat \cup {None}]
      BY <1>2, <2>2 DEF Row, Pair
    <3> QED BY <1>3, <1>4, <2>2, <2>5, <3>1 DEF TypeOK, Turn, clock
  <2> QED BY <1>1, <1>3, <1>4, <2>2, <2>4, <2>5, <2>6, <2>7, <2>8, <2>9, QuietStep DEF files
<1>6. CASE ~(old.cert = old.key /\ port.cert = None)
  <2>1. Answer(p, TRUE) /\ unapplied' = TRUE /\ port' = port
    BY <1>1, <1>6 DEF Listen
  <2>2. TypeOK'
    BY <1>3, <1>4, <2>1, Waits DEF TypeOK, Answer, PauseAfter, Go
  <2>3. Apart(p) /\ fails <= fails'
    BY <1>3, <1>4, <2>1, ApartSame, TlsAssumption DEF TypeOK
  <2> QED BY <1>1, <1>2, <1>3, <1>4, <2>1, <2>2, <2>3, AnswerStep
<1> QED BY <1>5, <1>6

(* A server that starts is noted: the one who read the files alone has put *)
(* them there.                                                             *)
LEMMA ListeningInv ==
  ASSUME Inv, NEW p \in Actor, Listening(p)
  PROVE Inv'
<1>1. PICK old : old = proc[p]
  OBVIOUS
<1>2. old \in Row /\ Sound(p, old) /\ Alike(old) /\ old.at = "listening"
  BY <1>1, Stands DEF Listening
<1>3. /\ disk' = disk /\ mixed' = mixed /\ mats' = mats /\ live' = live /\ fails' = fails
      /\ caddy' = caddy /\ port' = port /\ server' = TRUE /\ bounds' = bounds
      /\ unapplied' = (bounds.docker \/ ~old.alone) /\ Answer(p, TRUE)
  BY <1>1 DEF Listening, files, pki
<1>4. /\ Typed /\ TypeOK /\ bounds \in Limits /\ ~Wrote(old) /\ Apart(p)
      /\ ~(old.op = "renew" /\ Low)
  BY <1>1, <1>2, <1>3, ApartSame, HandingNotDue DEF Inv, Typed, Wrote, Handing
<1>5. unapplied' \/ Served'
  BY <1>2, <1>3 DEF Alike, Served, OnDisk, Pair, Serve
<1>6. TypeOK'
  <2>1. unapplied' \in BOOLEAN
    BY <1>3
  <2>2. pause' \in 0..Wait /\ due' \in BOOLEAN /\ DOMAIN proc' = Actor
    BY <1>3, <1>4, Waits DEF TypeOK, Answer, PauseAfter, Go
  <2> QED BY <1>3, <1>4, <2>1, <2>2 DEF TypeOK
<1>7. fails <= fails'
  BY <1>3, <1>4, TlsAssumption DEF TypeOK
<1> QED BY <1>1, <1>2, <1>3, <1>4, <1>5, <1>6, <1>7, AnswerStep

-----------------------------------------------------------------------------
(* New requests, the timer, time and the process preserve the invariant.   *)

LEMMA RequestStarts ==
  ASSUME Inv, NEW p \in Admin, NEW op \in {"generate", "issue", "renew"}, NEW q,
         Request(p, op, q)
  PROVE /\ p \in Actor /\ p # Timer /\ op \in OpsOf(p)
        /\ proc[p].at = "idle" /\ ~Wrote(proc[p]) /\ ~Busy(proc[p])
        /\ bounds' \in Limits /\ bounds'.docker = bounds.docker
        /\ Go(p, [q EXCEPT !.op = op])
<1>1. p \in Actor /\ p # Timer /\ op \in OpsOf(p)
  BY TlsAssumption DEF Actor, OpsOf
<1>2. proc[p].at = "idle"
  BY <1>1, Where DEF Inv, Request, Idle
<1>3. bounds \in Limits /\ bounds' = [bounds EXCEPT !.ops[op] = @ - 1] /\ bounds.ops[op] > 0
  BY DEF Inv, Typed, Request
<1>4. bounds' \in Limits /\ bounds'.docker = bounds.docker
  BY <1>3 DEF Limits
<1> QED BY <1>1, <1>2, <1>4 DEF Request, Wrote, Busy, Handing

LEMMA GenerateInv ==
  ASSUME Inv, NEW p \in Admin, Generate(p)
  PROVE Inv'
<1> DEFINE row == [Blank EXCEPT !.at = "key", !.cert = New, !.key = New, !.alone = TRUE]
<1>1. /\ p \in Actor /\ p # Timer /\ "generate" \in OpsOf(p)
      /\ proc[p].at = "idle" /\ ~Wrote(proc[p]) /\ ~Busy(proc[p])
      /\ bounds' \in Limits /\ bounds'.docker = bounds.docker
      /\ Go(p, [row EXCEPT !.op = "generate"])
  BY RequestStarts DEF Generate
<1>2. /\ disk' = disk /\ mixed' = mixed /\ live' = live /\ fails' = fails
      /\ caddy' = caddy /\ port' = port /\ server' = server /\ unapplied' = unapplied
      /\ UNCHANGED clock
  BY DEF Generate, files, serving
<1>3. Typed /\ TypeOK
  BY DEF Inv, Typed
<1>4. /\ mats' \in [Mat -> [le : BOOLEAN, life : 0..Life]]
      /\ New \in Mat /\ mats'[New] = Absent /\ MatsKept
  <2>1. Absent \in [le : BOOLEAN, life : 0..Life]
    BY TlsAssumption DEF Absent
  <2> QED BY <1>3, <2>1, CreateKeeps DEF Generate
<1>5. Steady /\ Apart(p)
  BY <1>2, <1>4, ApartSame DEF Steady
<1>6. PICK n : n = [row EXCEPT !.op = "generate"]
  OBVIOUS
<1>7. /\ n \in Row /\ n.op = "generate" /\ n.at = "key" /\ n.cert = New /\ n.key = New
      /\ ~n.informed
  BY <1>4, <1>6 DEF Row, Blank, Op, Point, Writing
<1>8. Turn(p, n)
  BY <1>1, <1>3, <1>6, <1>7, GoTurn DEF Typed
<1>9. Sound(p, n)'
  <2>1. SelfMade(n.cert)'
    BY <1>4, <1>7 DEF SelfMade, Absent
  <2>2. n.at \in PointsOf(n.op)
    BY <1>7, Goes DEF Writing
  <2> QED BY <1>1, <1>7, <2>1, <2>2 DEF Sound, AskCA
<1>10. Alike(n)' /\ ~Past(n)
  BY <1>7 DEF Alike, Wrote, Past, Writing, Serve, Handing, AskCA
<1>11. TypeOK'
  BY <1>2, <1>3, <1>4, <1>8 DEF TypeOK, Turn, clock
<1> QED BY <1>1, <1>2, <1>5, <1>8, <1>9, <1>10, <1>11, QuietStep DEF files

LEMMA AskInv ==
  ASSUME Inv, NEW p \in Admin, AskIssue(p) \/ AskRenew(p)
  PROVE Inv'
<1>1. PICK op, at :
        /\ op \in {"issue", "renew"} /\ at \in PointsOf(op) /\ at \in {"certbot", "marker"}
        /\ Request(p, op, [Blank EXCEPT !.at = at])
  <2>1. "certbot" \in PointsOf("issue") /\ "marker" \in PointsOf("renew")
    BY DEF PointsOf
  <2> QED BY <2>1 DEF AskIssue, AskRenew
<1>2. /\ p \in Actor /\ p # Timer /\ op \in OpsOf(p)
      /\ proc[p].at = "idle" /\ ~Wrote(proc[p]) /\ ~Busy(proc[p])
      /\ bounds' \in Limits /\ bounds'.docker = bounds.docker
      /\ Go(p, [[Blank EXCEPT !.at = at] EXCEPT !.op = op])
  BY <1>1, RequestStarts
<1>3. /\ disk' = disk /\ mixed' = mixed /\ mats' = mats /\ live' = live /\ fails' = fails
      /\ caddy' = caddy /\ port' = port /\ server' = server /\ unapplied' = unapplied
      /\ UNCHANGED clock
  BY DEF AskIssue, AskRenew, files, pki, serving
<1>4. Typed /\ TypeOK /\ Steady /\ Apart(p)
  BY <1>3, SameSteady, ApartSame DEF Inv, Typed
<1>5. PICK n : n = [[Blank EXCEPT !.at = at] EXCEPT !.op = op]
  OBVIOUS
<1>6. n \in Row /\ n.op = op /\ n.at = at /\ ~n.alone /\ ~n.informed
  BY <1>1, <1>5 DEF Row, Blank, Op, Point
<1>7. Turn(p, n)
  BY <1>2, <1>4, <1>5, <1>6, GoTurn DEF Typed
<1>8. Sound(p, n)' /\ Alike(n)' /\ ~Past(n)
  BY <1>1, <1>2, <1>6 DEF Sound, Alike, Past, Writing, Handing, AskCA
<1>9. TypeOK'
  BY <1>3, <1>4, <1>7 DEF TypeOK, Turn, clock
<1> QED BY <1>2, <1>3, <1>4, <1>7, <1>8, <1>9, QuietStep DEF files

(* The requests as they were. *)
LEMMA SameProc ==
  ASSUME Inv, proc' = proc, disk' = disk, mats' = mats, live' = live, bounds' = bounds,
         mixed' = mixed, UNCHANGED serving, TypeOK'
  PROVE Typed' /\ AllAlike' /\ DiskKept' /\ ServeKept' /\ Renewed'
<1>1. Typed'
  BY DEF Inv, Typed, Sound, Fresh, SelfMade, Known, LetsEncrypt
<1>2. AllAlike'
  BY DEF Inv, AllAlike, Alike, serving
<1>3. DiskKept'
  BY DEF Inv, DiskKept, Whole, Torn, Wrote
<1>4. ServeKept'
  BY DEF Inv, ServeKept, Served, OnDisk, HasFiles, Busy, Wrote, serving
<1>5. Renewed'
  BY DEF Inv, Renewed, Past, Low, LetsEncrypt
<1> QED BY <1>1, <1>2, <1>3, <1>4, <1>5

(* The timer renews what is due as soon as no pause is left. *)
LEMMA TickInv ==
  ASSUME Inv, Tick
  PROVE Inv'
<1>1. /\ disk' = disk /\ mixed' = mixed /\ mats' = mats /\ live' = live /\ fails' = fails
      /\ caddy' = caddy /\ port' = port /\ server' = server /\ unapplied' = unapplied
      /\ bounds' = bounds /\ pause' = pause /\ due' = FALSE /\ Idle(Timer)
  BY DEF Tick, files, pki, serving
<1>2. Typed /\ TypeOK /\ Ends /\ bounds \in Limits /\ Timer \in Actor /\ Steady
  BY <1>1, SameSteady DEF Inv, Typed, Actor
<1>3. proc[Timer].at = "idle" /\ ~Wrote(proc[Timer]) /\ ~Busy(proc[Timer])
  <2>1. proc[Timer].at = "idle"
    BY <1>1, <1>2, Where DEF Idle
  <2> QED BY <2>1 DEF Wrote, Busy, Handing
<1>4. /\ Renewable' <=> Renewable
      /\ Low' <=> Low
      /\ Low => mats'[disk'.cert] = mats[disk.cert]
      /\ Due => Renewable /\ Low
      /\ Renewable /\ Low => Due
  BY <1>1 DEF Renewable, Low, LetsEncrypt, Due
<1>5. CASE pause = 0 /\ Due
  <2>1. PICK n : n = [Blank EXCEPT !.op = "renew", !.at = "marker"]
    OBVIOUS
  <2>2. n \in Row /\ n.op = "renew" /\ n.at = "marker" /\ ~n.alone /\ ~n.informed
    BY <2>1 DEF Row, Blank, Op, Point
  <2>3. Turn(Timer, n)
    BY <1>2, <1>5, <2>1, <2>2, GoTurn DEF Tick, Typed
  <2>4. Sound(Timer, n)' /\ Alike(n)' /\ ~Past(n) /\ Apart(Timer)
    BY <1>1, <2>2, ApartSame
       DEF Sound, OpsOf, PointsOf, Alike, Past, Writing, Handing, AskCA
  <2>5. TypeOK'
    BY <1>1, <1>2, <2>3 DEF TypeOK, Turn
  <2>6. Typed'
    BY <1>1, <1>2, <2>3, <2>4, <2>5, StepTyped
  <2>7. AllAlike'
    BY <1>1, <1>2, <2>3, <2>4, StepAlike DEF Inv
  <2>8. DiskKept'
    BY <1>1, <1>2, <1>3, <2>3, StepDisk DEF Inv
  <2>9. ServeKept'
    BY <1>1, <1>2, <1>3, <2>3, StepServe DEF Inv
  <2>10. Renewed'
    BY <1>1, <1>2, <2>3, <2>4, StepRenewed DEF Inv
  <2>11. Ends'
    <3>1. proc'[Timer].op = "renew"
      BY <2>2, <2>3 DEF Turn
    <3> QED BY <1>1, <1>2, <1>4, <1>5, <3>1 DEF Ends
  <2> QED BY <2>6, <2>7, <2>8, <2>9, <2>10, <2>11 DEF Inv
<1>6. CASE ~(pause = 0 /\ Due)
  <2>1. proc' = proc
    BY <1>6 DEF Tick
  <2>2. TypeOK'
    BY <1>1, <1>2, <2>1 DEF TypeOK
  <2>3. Typed' /\ AllAlike' /\ DiskKept' /\ ServeKept' /\ Renewed'
    BY <1>1, <2>1, <2>2, SameProc DEF serving
  <2>4. Ends'
    BY <1>1, <1>2, <1>4, <1>6, <2>1 DEF Ends, Idle
  <2> QED BY <2>3, <2>4 DEF Inv
<1> QED BY <1>5, <1>6

LEMMA IdleRows ==
  ASSUME Inv, AllIdle, NEW p \in Actor
  PROVE /\ proc[p].op = "idle" /\ proc[p].at = "idle"
        /\ ~Wrote(proc[p]) /\ ~Busy(proc[p]) /\ ~Past(proc[p])
<1>1. proc[p].op = "idle" /\ proc[p].at = "idle"
  BY Where DEF Inv, AllIdle, Idle
<1> QED BY <1>1 DEF Wrote, Busy, Past, AskCA, Handing

(* Six hours cost a certificate as much as they cost the pause; one that   *)
(* becomes due meets the whole of the pause that is left at most.          *)
LEMMA AdvanceEnds ==
  ASSUME Inv, Advance, mats' \in [Mat -> [le : BOOLEAN, life : 0..Life]]
  PROVE Ends'
<1>1. /\ disk' = disk /\ fails' = fails /\ proc' = proc /\ due' = TRUE /\ ~due
      /\ pause' = (IF pause > 0 THEN pause - 1 ELSE 0)
  BY DEF Advance, files
<1>2. Typed /\ TypeOK /\ Ends /\ Timer \in Actor
  BY DEF Inv, Typed, Actor
<1>3. proc[Timer].op = "idle"
  BY <1>2, IdleRows DEF Advance
<1>4. /\ pause \in Nat /\ pause <= Wait /\ fails \in Nat /\ Threshold \in Nat
      /\ Wait \in Nat /\ Wait >= 1
      /\ (fails + 1) * Wait \in Nat /\ (fails + 1) * Wait >= Wait
  <2>1. pause \in Nat /\ pause <= Wait /\ fails \in Nat /\ Threshold \in Nat /\ fails <= fails
    BY <1>2, Waits, TlsAssumption DEF TypeOK
  <2> QED BY <2>1, Waits, MoreAttempts
<1>5. ASSUME Renewable', Low'
      PROVE mats'[disk'.cert].life >= Threshold - (fails' + 1) * Wait + pause'
  <2>1. PICK m : m = disk.cert
    OBVIOUS
  <2>2. m \in Mat /\ m \in InUse /\ mats'[m] = Aged(m)
    BY <1>1, <1>2, <1>5, <2>1, Used DEF Advance, Renewable, LetsEncrypt, TypeOK
  <2>3. mats[m] \in [le : BOOLEAN, life : 0..Life]
    BY <1>2, <2>2 DEF TypeOK
  <2>4. /\ mats[m].life \in Nat /\ mats'[m].le = mats[m].le
        /\ mats'[m].life = IF mats[m].life > 0 THEN mats[m].life - 1 ELSE mats[m].life
    BY <2>2, <2>3, TlsAssumption DEF Aged
  <2>5. Renewable /\ LetsEncrypt(m)
    BY <1>1, <1>5, <2>1, <2>2, <2>4 DEF Renewable, LetsEncrypt
  <2>6. CASE mats[m].life < Threshold
    <3>1. Low
      BY <2>1, <2>5, <2>6 DEF Low
    <3>2. pause > 0 /\ mats[m].life >= Threshold - (fails + 1) * Wait + pause
      BY <1>1, <1>2, <1>3, <1>4, <2>1, <2>5, <3>1 DEF Ends
    <3> QED BY <1>1, <1>4, <2>1, <2>4, <3>2
  <2>7. CASE mats[m].life >= Threshold
    <3>1. mats'[m].life >= Threshold - 1
      BY <1>4, <2>4, <2>7
    <3>2. pause' <= Wait - 1 /\ pause' \in Nat
      BY <1>1, <1>4
    <3>3. mats'[m].life \in Int
      BY <2>4
    <3> QED BY <1>1, <1>4, <2>1, <3>1, <3>2, <3>3
  <2> QED BY <1>4, <2>4, <2>6, <2>7
<1> QED BY <1>1, <1>3, <1>5 DEF Ends

LEMMA AdvanceInv ==
  ASSUME Inv, Advance
  PROVE Inv'
<1>1. /\ disk' = disk /\ mixed' = mixed /\ live' = live /\ fails' = fails
      /\ caddy' = caddy /\ port' = port /\ server' = server /\ unapplied' = unapplied
      /\ bounds' = bounds /\ proc' = proc /\ due' = TRUE
  BY DEF Advance, files, serving
<1>2. Typed /\ TypeOK /\ Known /\ AllAlike /\ DiskKept /\ ServeKept
  BY DEF Inv, Typed
<1>3. \A m \in Mat : /\ m \in InUse => mats'[m].le = mats[m].le
                     /\ mats'[m] \in [le : BOOLEAN, life : 0..Life]
  <2> TAKE m \in Mat
  <2>1. mats[m] \in [le : BOOLEAN, life : 0..Life]
    BY <1>2 DEF TypeOK
  <2>2. mats'[m] = IF m \in InUse THEN Aged(m) ELSE Absent
    BY DEF Advance
  <2>3. /\ Absent \in [le : BOOLEAN, life : 0..Life]
        /\ Aged(m) \in [le : BOOLEAN, life : 0..Life] /\ Aged(m).le = mats[m].le
    BY <2>1, TlsAssumption DEF Absent, Aged
  <2> QED BY <2>2, <2>3
<1>4. mats' \in [Mat -> [le : BOOLEAN, life : 0..Life]]
  <2>1. mats' = [m \in Mat |-> IF m \in InUse THEN Aged(m) ELSE Absent]
    BY DEF Advance
  <2> QED BY <1>3, <2>1
<1>5. TypeOK'
  <2>1. pause' \in 0..Wait
    BY <1>2, Waits DEF TypeOK, Advance
  <2> QED BY <1>1, <1>2, <1>4, <2>1 DEF TypeOK
<1>6. Typed'
  <2>1. ASSUME NEW p \in Actor PROVE Sound(p, proc[p])'
    BY <1>1, <1>2, <2>1, IdleRows DEF Advance, Typed, Sound, AskCA
  <2>2. Known'
    BY <1>1, <1>2, <1>3, Used DEF Known, LetsEncrypt, TypeOK
  <2> QED BY <1>1, <1>2, <1>5, <2>1, <2>2 DEF Typed
<1>7. AllAlike'
  BY <1>1, <1>2 DEF AllAlike, Alike
<1>8. DiskKept'
  <2>1. disk.cert # None => disk.cert \in Mat
    BY <1>2 DEF TypeOK
  <2> QED BY <1>1, <1>2, <1>3, <2>1, Used DEF DiskKept, Whole, Torn, Wrote
<1>9. ServeKept'
  BY <1>1, <1>2 DEF ServeKept, Served, OnDisk, HasFiles, Busy, Wrote
<1>10. Renewed'
  BY <1>1, IdleRows DEF Advance, Renewed, Past
<1>11. Ends'
  BY <1>4, AdvanceEnds
<1> QED BY <1>6, <1>7, <1>8, <1>9, <1>10, <1>11 DEF Inv

LEMMA CrashInv ==
  ASSUME Inv, Crash
  PROVE Inv'
<1>1. PICK mark \in {disk.mark} \cup {"none" : p \in {q \in Actor : proc[q].at = "mark"}} :
        disk' = [disk EXCEPT !.mark = mark]
  BY DEF Crash
<1>2. /\ mixed' = (mixed \/ \E p \in Actor : proc[p].at \in {"cert", "key", "mark"})
      /\ mats' = mats /\ live' = live /\ fails' = fails /\ caddy' = caddy
      /\ port' = Pair(None, None) /\ server' = FALSE /\ unapplied' = TRUE
      /\ due' = TRUE /\ pause' = 0
      /\ bounds.crashes > 0 /\ bounds' = [bounds EXCEPT !.crashes = @ - 1]
  BY DEF Crash, pki
<1>3. Typed /\ TypeOK /\ Known /\ DiskKept /\ Ends /\ bounds \in Limits
  BY DEF Inv, Typed
<1>4. disk'.cert = disk.cert /\ disk'.key = disk.key /\ disk'.mark \in {disk.mark, "none"}
  BY <1>1, <1>3 DEF TypeOK
<1>5. ASSUME NEW p \in Actor
      PROVE /\ proc'[p] \in Row /\ ~proc'[p].alone /\ ~proc'[p].informed
            /\ \/ proc'[p].op = "idle" /\ proc'[p].at = "idle"
               \/ p = Timer /\ proc'[p].op = "boot" /\ proc'[p].at = "apply"
  <2>1. proc'[p] = IF p = Timer /\ HasFiles
                   THEN [Blank EXCEPT !.op = "boot", !.at = "apply"] ELSE Blank
    BY DEF Crash
  <2>2. /\ Blank \in Row /\ Blank.op = "idle" /\ Blank.at = "idle"
        /\ ~Blank.alone /\ ~Blank.informed
    BY BlankSound
  <2>3. PICK n : n = [Blank EXCEPT !.op = "boot", !.at = "apply"]
    OBVIOUS
  <2>4. n \in Row /\ n.op = "boot" /\ n.at = "apply" /\ ~n.alone /\ ~n.informed
    BY <2>3 DEF Blank, Row, Op, Point, Handing
  <2> QED BY <2>1, <2>2, <2>3, <2>4
<1>6. Typed'
  <2>1. ASSUME NEW p \in Actor PROVE Sound(p, proc[p])'
    BY <1>5 DEF Sound, OpsOf, PointsOf, Handing, AskCA
  <2>2. proc' \in [Actor -> Row]
    <3>1. proc' = [p \in Actor |-> proc'[p]]
      BY DEF Crash
    <3> QED BY <1>5, <3>1
  <2>3. Known'
    BY <1>2, <1>3, <1>4 DEF Known, LetsEncrypt
  <2>4. bounds' \in Limits
    BY <1>2, <1>3 DEF Limits
  <2>5. TypeOK'
    <3>1. disk' \in [cert : Mat \cup {None}, key : Mat \cup {None},
                     mark : {"none", "selfsigned", "letsencrypt"}]
      BY <1>1, <1>3 DEF TypeOK
    <3>2. mixed' \in BOOLEAN
      BY <1>2, <1>3 DEF TypeOK
    <3>3. port' \in [cert : Mat \cup {None}, key : Mat \cup {None}]
      BY <1>2 DEF Pair
    <3>4. pause' \in 0..Wait /\ DOMAIN proc' = Actor
      BY <1>2, <2>2, Waits
    <3> QED BY <1>2, <1>3, <3>1, <3>2, <3>3, <3>4 DEF TypeOK
  <2> QED BY <2>1, <2>2, <2>3, <2>4, <2>5 DEF Typed
<1>7. AllAlike'
  BY <1>5 DEF AllAlike, Alike
<1>8. DiskKept'
  <2> SUFFICES ASSUME ~mixed' PROVE Whole'
    BY DEF DiskKept
  <2>1. ~mixed /\ \A p \in Actor : proc[p].at \notin {"cert", "key", "mark"}
    BY <1>2
  <2>2. Whole
    BY <1>3, <2>1 DEF DiskKept, Wrote
  <2>3. disk'.mark = disk.mark
    BY <1>1, <1>3, <2>1 DEF TypeOK
  <2> QED BY <1>2, <1>4, <2>2, <2>3 DEF Whole, Torn
<1>9. ServeKept'
  BY <1>2 DEF ServeKept
<1>10. Renewed'
  BY <1>5 DEF Renewed, Past, AskCA
<1>11. Ends'
  <2>1. proc'[Timer].op # "renew"
    BY <1>5 DEF Actor
  <2>2. ASSUME Renewable', Low'
        PROVE mats'[disk'.cert].life >= Threshold - (fails' + 1) * Wait + pause'
    <3>1. Renewable /\ Low
      BY <1>2, <1>4, <2>2 DEF Renewable, Low, LetsEncrypt
    <3>2. mats[disk.cert].life >= Threshold - (fails + 1) * Wait + pause
      BY <1>3, <3>1 DEF Ends
    <3>3. /\ pause \in Nat /\ fails \in Nat /\ Threshold \in Nat /\ fails <= fails
          /\ mats[disk.cert].life \in Nat
      BY <1>3, <3>1, Waits, TlsAssumption DEF TypeOK, Low, LetsEncrypt
    <3>4. (fails + 1) * Wait \in Nat
      BY <3>3, MoreAttempts
    <3> QED BY <1>2, <1>4, <3>2, <3>3, <3>4
  <2> QED BY <1>2, <2>1, <2>2 DEF Ends
<1> QED BY <1>6, <1>7, <1>8, <1>9, <1>10, <1>11 DEF Inv

LEMMA InitInv == Init => Inv
<1> SUFFICES ASSUME Init PROVE Inv
  OBVIOUS
<1>1. PICK w \in Workload :
        /\ bounds = w.bounds /\ disk = w.disk /\ mats = w.mats /\ live = w.live
        /\ caddy = IF w.bounds.docker THEN Pair(w.disk.cert, w.disk.key) ELSE Pair(None, None)
        /\ port = IF w.bounds.docker THEN Pair(None, None) ELSE Pair(w.disk.cert, w.disk.key)
        /\ server = (port.cert # None)
        /\ proc = [p \in Actor |-> Blank]
        /\ due = TRUE /\ pause = 0 /\ fails = 0
        /\ mixed = FALSE /\ unapplied = FALSE
  BY DEF Init
<1>2. /\ disk \in [cert : Mat \cup {None}, key : Mat \cup {None},
                   mark : {"none", "selfsigned", "letsencrypt"}]
      /\ mats \in [Mat -> [le : BOOLEAN, life : 0..Life]]
      /\ live \in Mat \cup {None} /\ bounds \in Limits
      /\ live # None => mats[live].le
      /\ disk.cert = disk.key
      /\ disk.cert # None =>
           IF mats[disk.cert].le
           THEN disk.mark = "letsencrypt" /\ live # None /\ mats[disk.cert].life >= Threshold
           ELSE disk.mark = "selfsigned"
  BY <1>1, WorkloadAssumption DEF Limits
<1>3. \A p \in Actor : proc[p] = Blank
  BY <1>1
<1>4. Typed
  <2>1. TypeOK
    <3>1. /\ Pair(None, None) \in [cert : Mat \cup {None}, key : Mat \cup {None}]
          /\ Pair(disk.cert, disk.key) \in [cert : Mat \cup {None}, key : Mat \cup {None}]
      BY <1>2 DEF Pair
    <3>2. /\ caddy \in [cert : Mat \cup {None}, key : Mat \cup {None}]
          /\ port \in [cert : Mat \cup {None}, key : Mat \cup {None}]
      BY <1>1, <3>1
    <3>3. pause \in 0..Wait /\ fails \in 0..Patience /\ DOMAIN proc = Actor
      BY <1>1, Waits, TlsAssumption
    <3>4. /\ server \in BOOLEAN /\ due \in BOOLEAN /\ mixed \in BOOLEAN
          /\ unapplied \in BOOLEAN
      BY <1>1
    <3> QED BY <1>2, <3>2, <3>3, <3>4 DEF TypeOK
  <2>2. proc \in [Actor -> Row] /\ \A p \in Actor : Sound(p, proc[p])
    BY <1>1, <1>3, BlankSound DEF Sound
  <2>3. Known
    BY <1>2 DEF Known, LetsEncrypt
  <2> QED BY <1>2, <2>1, <2>2, <2>3 DEF Typed
<1>5. AllAlike
  BY <1>3, BlankSound DEF AllAlike, Alike
<1>6. DiskKept
  BY <1>2 DEF DiskKept, Whole, Torn
<1>7. ServeKept
  BY <1>1 DEF ServeKept, Served, OnDisk, Pair
<1>8. Renewed
  BY <1>3, BlankSound DEF Renewed, Past, AskCA
<1>9. ~Low
  <2>1. disk.cert # None => disk.cert \in Mat
    BY <1>2
  <2>2. LetsEncrypt(disk.cert) =>
          mats[disk.cert].life \in Int /\ mats[disk.cert].life >= Threshold
    BY <1>2, <2>1 DEF LetsEncrypt
  <2> QED BY <2>2, TlsAssumption DEF Low
<1>10. Ends
  BY <1>1, <1>3, <1>9, BlankSound DEF Ends, Actor
<1> QED BY <1>4, <1>5, <1>6, <1>7, <1>8, <1>10 DEF Inv

LEMMA StutterInv ==
  ASSUME Inv, UNCHANGED vars
  PROVE Inv'
<1>1. /\ disk' = disk /\ mixed' = mixed /\ mats' = mats /\ live' = live /\ fails' = fails
      /\ caddy' = caddy /\ port' = port /\ server' = server /\ unapplied' = unapplied
      /\ bounds' = bounds /\ proc' = proc /\ due' = due /\ pause' = pause
  BY DEF vars, files, pki, serving, clock
<1>2. TypeOK'
  BY <1>1 DEF Inv, Typed, TypeOK
<1>3. Ends'
  BY <1>1 DEF Inv, Ends, Renewable, Low, LetsEncrypt
<1> QED BY <1>1, <1>2, <1>3, SameProc DEF Inv, serving

-----------------------------------------------------------------------------
(* The theorems. *)

LEMMA NextInv ==
  ASSUME Inv, [Next]_vars
  PROVE Inv'
<1>1. ASSUME NEW p \in Actor, Step(p) PROVE Inv'
  BY <1>1, ReadMarkerInv, CertbotIssuesInv, CertbotKeepsInv, CertbotFailsInv, CopyCertInv,
     CopyKeyInv, RenameCertInv, RenameKeyInv, WriteMarkInv, ReloadInv, ReloadRefusedInv,
     NoDockerInv, ReadPairInv, StopServerInv, ListenInv, ListeningInv DEF Step
<1>2. ASSUME NEW p \in Actor, WriteFails(p) PROVE Inv'
  BY <1>2, WriteFailsInv
<1>3. ASSUME NEW p \in Admin, Generate(p) \/ AskIssue(p) \/ AskRenew(p) PROVE Inv'
  BY <1>3, GenerateInv, AskInv
<1>4. CASE Tick \/ Advance \/ Crash
  BY <1>4, TickInv, AdvanceInv, CrashInv
<1>5. CASE UNCHANGED vars
  BY <1>5, StutterInv
<1> QED BY <1>1, <1>2, <1>3, <1>4, <1>5 DEF Next

(* In every behaviour of the certificate's files, its requests, its timer  *)
(* and its listener, whatever the workload, the invariant holds.           *)
THEOREM TlsInvariant == Spec => []Inv
BY InitInv, NextInv, PTL DEF Spec

(* Every variable has its type. *)
THEOREM TlsTypeCorrect == Spec => []TypeOK
<1>1. Inv => TypeOK
  BY DEF Inv, Typed
<1> QED BY <1>1, TlsInvariant, PTL

(* cert.pem, key.pem and issuer.json belong together whenever nobody is at *)
(* work, unless two requests wrote them at once or one was cut short, for  *)
(* any number of administrators and requests.                              *)
THEOREM FilesWhole == Spec => []DiskWhole
<1>1. Inv => DiskWhole
  <2> SUFFICES ASSUME Inv, AllIdle, ~mixed PROVE Whole
    BY DEF DiskWhole, Whole
  <2> QED BY IdleRows DEF Inv, DiskKept
<1> QED BY <1>1, TlsInvariant, PTL

(* The listener has the files that are on disk whenever nobody is at work, *)
(* unless the last hand-over failed or was raced.                          *)
THEOREM ServesDisk == Spec => []ServedIsDisk
<1>1. Inv => ServedIsDisk
  <2> SUFFICES ASSUME Inv, AllIdle, ~unapplied, HasFiles PROVE Served
    BY DEF ServedIsDisk, Served
  <2> QED BY IdleRows DEF Inv, ServeKept
<1> QED BY <1>1, TlsInvariant, PTL

(* A certificate that the timer renews does not reach its end, for every   *)
(* life, threshold and pause such that the failed attempts and their       *)
(* pauses fit into the threshold (PatienceAssumption).                     *)
THEOREM RenewedInTime == Spec => []NeverExpires
<1>1. Inv => NeverExpires
  <2> SUFFICES ASSUME Inv, AllIdle, ~due, Renewable PROVE mats[disk.cert].life > 0
    BY DEF NeverExpires
  <2>1. TypeOK /\ Ends /\ Timer \in Actor
    BY DEF Inv, Typed, Actor
  <2>2. proc[Timer].op = "idle"
    BY <2>1, IdleRows
  <2>3. mats[disk.cert].life \in Nat /\ LetsEncrypt(disk.cert)
    BY <2>1, TlsAssumption DEF Renewable, LetsEncrypt, TypeOK
  <2>4. Threshold \in Nat /\ Threshold >= 1
    BY TlsAssumption
  <2>5. CASE mats[disk.cert].life >= Threshold
    BY <2>3, <2>4, <2>5
  <2>6. CASE mats[disk.cert].life < Threshold
    <3>1. Low
      BY <2>3, <2>6 DEF Low
    <3>2. pause # 0 /\ mats[disk.cert].life >= Threshold - (fails + 1) * Wait + pause
      BY <2>1, <2>2, <3>1 DEF Ends
    <3>3. pause \in Nat /\ fails \in Nat /\ fails <= Patience /\ Patience \in Nat
      BY <2>1, Waits, TlsAssumption DEF TypeOK
    <3>4. /\ (fails + 1) * Wait \in Nat /\ (Patience + 1) * Wait \in Nat
          /\ (fails + 1) * Wait <= (Patience + 1) * Wait
      <4>1. Patience <= Patience
        BY <3>3
      <4> QED BY <3>3, <4>1, MoreAttempts
    <3>5. (Patience + 1) * Wait <= Threshold
      BY PatienceAssumption DEF Wait
    <3> QED BY <2>3, <2>4, <3>2, <3>3, <3>4, <3>5
  <2> QED BY <2>3, <2>4, <2>5, <2>6
<1> QED BY <1>1, TlsInvariant, PTL

(* The timer puts its certificate over a self-signed one only when that    *)
(* came after the timer had read the marker.                               *)
THEOREM ChoiceKept == Spec => ChoiceStays
<1>1. Inv => (proc[Timer].informed => disk.mark = "letsencrypt")
  BY DEF Inv, Typed, Sound, Actor
<1>2. Inv /\ [Next]_vars =>
        [proc[Timer].at = "cert" /\ proc'[Timer].at = "key" /\ disk.mark = "selfsigned"
           => ~proc[Timer].informed]_vars
  BY <1>1
<1> QED BY <1>2, TlsInvariant, PTL DEF Spec, ChoiceStays

=============================================================================
