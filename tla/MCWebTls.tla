------------------------------ MODULE MCWebTls ------------------------------
(* Small instances of WebTls for TLC: a short-lived certificate, renewed    *)
(* under three days and checked every six hours, with twelve hours of pause *)
(* (the first of its six days, in which nothing is due, are left out), two  *)
(* administrators, and workloads of one or two requests beside the timer.   *)
EXTENDS WebTls, TLC, FiniteSets

CONSTANTS m1

Requests(ops) == [o \in {"generate", "issue", "renew"} |-> IF o \in ops THEN 1 ELSE 0]
Only(m, what) == [x \in Mat |-> IF x = m THEN what ELSE Absent]
Bounds == [docker |-> FALSE, forced |-> TRUE, ops |-> Requests({}), crashes |-> 0,
           writes |-> 0, refusals |-> 0]

(* What may be on disk: nothing, a self-signed pair, one of Let's Encrypt.  *)
Bare == [disk |-> [cert |-> None, key |-> None, mark |-> "none"],
         mats |-> [x \in Mat |-> Absent], live |-> None, bounds |-> Bounds]
SelfSigned == [Bare EXCEPT !.disk = [cert |-> m1, key |-> m1, mark |-> "selfsigned"]]
Trusted == [disk |-> [cert |-> m1, key |-> m1, mark |-> "letsencrypt"],
            mats |-> Only(m1, FromCA), live |-> m1, bounds |-> Bounds]

(* The first certificates, of two administrators at once.                   *)
First == [Bare EXCEPT !.bounds.ops = Requests({"generate", "issue"})]
(* The timer renews while an administrator generates, and the process dies. *)
Choosing == [Trusted EXCEPT !.bounds.ops = Requests({"generate"}), !.bounds.crashes = 1]
(* The timer renews while an administrator issues anew.                     *)
Reissuing == [Trusted EXCEPT !.bounds.ops = Requests({"issue"})]
(* The same with Caddy, which refuses once.                                 *)
Docker == [Trusted EXCEPT !.bounds.ops = Requests({"renew"}), !.bounds.docker = TRUE,
                          !.bounds.refusals = 1]
(* A certificate that is not forced, and a statement that fails.            *)
Domain == [Trusted EXCEPT !.bounds.ops = Requests({"renew"}), !.bounds.forced = FALSE,
                          !.bounds.writes = 1]
(* From self-signed to Let's Encrypt.                                       *)
Changing == [SelfSigned EXCEPT !.bounds.ops = Requests({"issue"}), !.bounds.writes = 1,
                               !.bounds.docker = TRUE]

Workloads == {First, Choosing, Reissuing, Docker, Domain, Changing}

(* Mat is large enough: no pair has to wait for a free identity.            *)
RoomForAll == ~(Mat \subseteq InUse)
=============================================================================
