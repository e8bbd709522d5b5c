---------------------------- MODULE NvdWatermark ----------------------------
(***************************************************************************)
(* The incremental NVD ingest: each run asks NVD for the CVEs modified in  *)
(* a window that starts a little before the last watermark, pages through  *)
(* the answer by offset while NVD keeps changing, stores every item and    *)
(* writes the end of the window as the new watermark into audit_log.       *)
(*                                                                         *)
(* A version of a CVE is its lastModified time.  NVD shows a modification  *)
(* up to Lag after that time.  A tick is a minute in the code's defaults.  *)
(***************************************************************************)
EXTENDS Integers, FiniteSets

CONSTANTS
  Cve,        \* vulnerabilities, numbers: NVD answers in their order
  PageSize,   \* NVD_RESULTS_PER_PAGE
  Overlap,    \* NVD_WATERMARK_OVERLAP_MS
  MaxWindow,  \* NVD_WATERMARK_MAX_WINDOW_HOURS
  Slack,      \* how far behind now a window ends to count as a chunk
  Back,       \* the look-back without a watermark (90 days)
  Retention,  \* age at which maintenance prunes audit_log (90 days)
  Lag,        \* how late NVD shows a modification
  MaxEmpty,   \* NVD_EMPTY_PAGE_RETRIES
  Importing,  \* whether a search may import an unknown CVE on demand
  MaxNow,     \* bound: minutes that pass
  MaxMods,    \* bound: modifications at NVD
  MaxFaults   \* bound: empty pages, failed upserts, aborted runs

ASSUME WatermarkAssumption ==
  /\ Cve \subseteq Nat /\ IsFiniteSet(Cve)
  /\ {PageSize, MaxWindow} \subseteq Nat \ {0}
  /\ {Overlap, Slack, Back, Retention, Lag, MaxEmpty, MaxNow, MaxMods, MaxFaults}
       \subseteq Nat
  /\ Importing \in BOOLEAN
ASSUME OverlapAssumption == Overlap < MaxWindow /\ Lag <= Overlap

VARIABLES
  now,      \* minutes since the start
  stamp,    \* the lastModified time NVD shows for a CVE
  stored,   \* the version in the cve table, or Missing
  mark,     \* the newest nvd.watermark in audit_log, or None
  written,  \* ts of that row
  at,       \* where the run stands
  since,    \* the window of the run ...
  until,    \* ... its end
  chunked,  \* ... and windowChunked: it ends well before now
  start,    \* startIndex
  page,     \* the versions on the page being stored ...
  total,    \* ... and the totalResults it came with
  tries,    \* emptyRetries
  some,     \* processed > 0
  gaveUp,   \* the page loop was left because of empty pages
  import,   \* versions an on-demand import has fetched and not yet stored
  taken,    \* history: CVEs this run has seen on some page
  failed,   \* history: CVEs whose upsert failed in this run
  shifted,  \* history: a CVE left the window while it was paged
  excused,  \* history: CVEs whose version was passed over for a known reason
  mods,     \* modifications so far
  faults    \* failures so far

nvdVars == <<stamp, mods>>
markVars == <<mark, written>>
runVars == <<since, until, chunked, start, page, total, tries, some, gaveUp, taken, failed>>
vars == <<now, stamp, stored, mark, written, at, since, until, chunked, start, page, total,
          tries, some, gaveUp, import, taken, failed, shifted, excused, mods, faults>>

Missing == -1
None == -1
Time == 0..MaxNow
Nothing == [c \in {} |-> 0]

Later(x, y) == IF x > y THEN x ELSE y
Sooner(x, y) == IF x < y THEN x ELSE y

Init == /\ now = 0
        /\ stamp = [c \in Cve |-> 0]
        /\ stored \in [Cve -> {Missing, 0}]
        /\ mark = None /\ written = 0
        /\ at = "idle"
        /\ since = 0 /\ until = 0 /\ chunked = FALSE /\ start = 0
        /\ page = Nothing /\ total = 0
        /\ tries = 0
        /\ some = FALSE /\ gaveUp = FALSE
        /\ import = Nothing
        /\ taken = {} /\ failed = {}
        /\ shifted = FALSE
        /\ excused = {}
        /\ mods = 0 /\ faults = 0

-----------------------------------------------------------------------------
(* Deviations: plausible slips in the definitions that follow. *)

(* The window starts at the watermark itself. *)
SinceNoOverlap == IF mark = None THEN (IF now > Back THEN now - Back ELSE 0) ELSE mark

(* A run that stored nothing leaves the watermark where it is. *)
SyncCompleteWhenSome == some

-----------------------------------------------------------------------------
(* NVD. *)

Results(a, b) == {c \in Cve : a <= stamp[c] /\ stamp[c] <= b}

Rank(c, S) == Cardinality({d \in S : d < c})

PageAt(i, S) == {c \in S : i <= Rank(c, S) /\ Rank(c, S) < i + PageSize}

Fault == faults < MaxFaults /\ faults' = faults + 1

(* A modification appears: a new version, stamped up to Lag in the past.   *)
Modify(c, t) ==
  /\ mods < MaxMods
  /\ t > stamp[c] /\ t <= now /\ now - t <= Lag
  /\ mods' = mods + 1
  /\ stamp' = [stamp EXCEPT ![c] = t]
  /\ shifted' = (shifted \/ (at # "idle" /\ c \in Results(since, until)))
  /\ excused' = excused \ {c}
  /\ UNCHANGED <<now, stored, markVars, at, runVars, import, faults>>

Tick == /\ now < MaxNow
        /\ now' = now + 1
        /\ UNCHANGED <<nvdVars, stored, markVars, at, runVars, import, shifted, excused, faults>>

-----------------------------------------------------------------------------
(* The run. *)

Since == IF mark = None THEN Later(0, now - Back) ELSE Later(0, mark - Overlap)

(* Deviation: the window is not cut at the present. *)
UntilAhead == Since + MaxWindow

Until == Sooner(now, Since + MaxWindow)

(* Without a watermark, what lies before the look-back is not asked for.   *)
StartRun ==
  /\ at = "idle"
  /\ Since < Until
  /\ since' = Since /\ until' = Until /\ chunked' = (Until < now - Slack)
  /\ start' = 0 /\ tries' = 0 /\ page' = Nothing /\ total' = 0
  /\ some' = FALSE /\ gaveUp' = FALSE
  /\ taken' = {} /\ failed' = {} /\ shifted' = FALSE
  /\ excused' = IF mark = None
                THEN excused \cup {c \in Cve : stamp[c] < Since /\ stored[c] # stamp[c]}
                ELSE excused
  /\ at' = "fetch"
  /\ UNCHANGED <<now, nvdVars, stored, markVars, import, faults>>

(* An empty window: only the publication sync runs. *)
SkipRun == /\ at = "idle"
           /\ Since >= Until
           /\ at' = "sync"
           /\ UNCHANGED <<now, nvdVars, stored, markVars, runVars, import, shifted, excused, faults>>

FetchPage ==
  /\ at = "fetch"
  /\ page' = [c \in PageAt(start, Results(since, until)) |-> stamp[c]]
  /\ total' = Cardinality(Results(since, until))
  /\ taken' = taken \cup PageAt(start, Results(since, until))
  /\ tries' = 0
  /\ at' = "store"
  /\ UNCHANGED <<now, nvdVars, stored, markVars, since, until, chunked, start, some, gaveUp,
                 failed, import, shifted, excused, faults>>

(* NVD answers with no items although there are more: retried, then left.  *)
FetchEmpty ==
  /\ at = "fetch"
  /\ start < Cardinality(Results(since, until))
  /\ Fault
  /\ tries' = tries + 1
  /\ gaveUp' = (tries' > MaxEmpty)
  /\ at' = IF gaveUp' THEN "end" ELSE "fetch"
  /\ UNCHANGED <<now, nvdVars, stored, markVars, since, until, chunked, start, page, total, some,
                 taken, failed, import, shifted, excused>>

Stored(S) == [c \in Cve |-> IF c \in S THEN page[c] ELSE stored[c]]

NextStart == start + Cardinality(DOMAIN page)

(* Every item is upserted on its own; one that fails is logged and passed  *)
(* over.  The total is the one the page came with.                         *)
StorePage(bad) ==
  /\ at = "store"
  /\ bad \subseteq DOMAIN page
  /\ IF bad = {} THEN UNCHANGED faults ELSE Fault
  /\ stored' = Stored(DOMAIN page \ bad)
  /\ failed' = failed \cup bad
  /\ some' = (some \/ DOMAIN page # bad)
  /\ start' = NextStart
  /\ page' = Nothing
  /\ at' = IF NextStart >= total THEN "end" ELSE "fetch"
  /\ UNCHANGED <<now, nvdVars, markVars, since, until, chunked, total, tries, gaveUp, taken, import,
                 shifted, excused>>

(* Empty pages after the first one, with nothing stored. *)
Abandoned == gaveUp /\ ~some /\ start > 0

(* The last line of the decision: a chunk always counts as complete. *)
SyncComplete == ~Abandoned \/ chunked

(* What a complete run passes over for a reason it logs. *)
PassedOver == failed \cup (IF gaveUp \/ shifted THEN Results(since, until) \ taken ELSE {})

EndRun ==
  /\ at = "end"
  /\ IF SyncComplete
     THEN /\ mark' = Later(mark, until) /\ written' = now
          /\ excused' = excused \cup {c \in PassedOver : stamp[c] < until - Overlap}
     ELSE UNCHANGED <<markVars, excused>>
  /\ at' = "sync"
  /\ UNCHANGED <<now, nvdVars, stored, runVars, import, shifted, faults>>

(* The publication passes that follow store whatever they cover. *)
SyncPublished(S) ==
  /\ at = "sync"
  /\ stored' = [c \in Cve |-> IF c \in S THEN stamp[c] ELSE stored[c]]
  /\ at' = "idle"
  /\ UNCHANGED <<now, nvdVars, markVars, runVars, import, shifted, excused, faults>>

(* A fetch that keeps failing, or a restart: part of a page may be stored. *)
Abort(S) ==
  /\ at # "idle"
  /\ Fault
  /\ S \subseteq DOMAIN page
  /\ stored' = Stored(S)
  /\ page' = Nothing
  /\ at' = "idle"
  /\ UNCHANGED <<now, nvdVars, markVars, since, until, chunked, start, total, tries, some, gaveUp,
                 taken, failed, import, shifted, excused>>

-----------------------------------------------------------------------------
(* The other writers. *)

(* Maintenance prunes audit_log by the age of its rows. *)
PruneAudit == /\ mark # None
              /\ now - written > Retention
              /\ mark' = None /\ written' = 0
              /\ UNCHANGED <<now, nvdVars, stored, at, runVars, import, shifted, excused, faults>>

(* A search for an unknown CVE fetches it ... *)
ImportFetch(c) ==
  /\ Importing
  /\ stored[c] = Missing /\ c \notin DOMAIN import
  /\ import' = [d \in DOMAIN import \cup {c} |-> IF d = c THEN stamp[c] ELSE import[d]]
  /\ UNCHANGED <<now, nvdVars, stored, markVars, at, runVars, shifted, excused, faults>>

(* ... and writes it over whatever is there by then. *)
ImportStore(c) ==
  /\ c \in DOMAIN import
  /\ stored' = [stored EXCEPT ![c] = import[c]]
  /\ import' = [d \in DOMAIN import \ {c} |-> import[d]]
  /\ excused' = IF import[c] < stored[c] THEN excused \cup {c} ELSE excused
  /\ UNCHANGED <<now, nvdVars, markVars, at, runVars, shifted, faults>>

-----------------------------------------------------------------------------
Run == \/ StartRun \/ SkipRun \/ FetchPage \/ EndRun
       \/ StorePage({})
       \/ \E S \in SUBSET Cve : SyncPublished(S)

Next == \/ Run \/ FetchEmpty \/ PruneAudit \/ Tick
        \/ \E S \in SUBSET Cve : Abort(S) \/ (S # {} /\ StorePage(S))
        \/ \E c \in Cve : ImportFetch(c) \/ ImportStore(c) \/ (\E t \in Time : Modify(c, t))

Spec == Init /\ [][Next]_vars

FairSpec == Spec /\ WF_vars(Run) /\ WF_vars(Tick)
-----------------------------------------------------------------------------
(* Correctness. *)

(* Type invariant. *)
TypeOK == /\ now \in Time
          /\ stamp \in [Cve -> Time]
          /\ stored \in [Cve -> Time \cup {Missing}]
          /\ mark \in Time \cup {None} /\ written \in Time
          /\ at \in {"idle", "fetch", "store", "end", "sync"}
          /\ {since, until} \subseteq Time
          /\ {start, total} \subseteq 0..Cardinality(Cve)
          /\ DOMAIN page \subseteq Cve /\ \A c \in DOMAIN page : page[c] \in Time
          /\ DOMAIN import \subseteq Cve /\ \A c \in DOMAIN import : import[c] \in Time
          /\ tries \in 0..MaxEmpty + 1
          /\ {some, gaveUp, chunked, shifted} \subseteq BOOLEAN
          /\ {taken, failed, excused} \in SUBSET SUBSET Cve
          /\ mods \in 0..MaxMods /\ faults \in 0..MaxFaults

(* What lies behind the next window is in the database in the version NVD  *)
(* shows, or was passed over for a reason the run knows: its own upsert    *)
(* failed, empty pages ended the loop, or CVEs modified meanwhile left the *)
(* window and moved the others to pages already read (nvd-ingest.job.ts,   *)
(* runOnce).  Aborted runs, late modifications, overlapping windows and    *)
(* pruned watermarks lose nothing else.                                    *)
NothingMissed ==
  mark # None =>
    \A c \in Cve : stamp[c] < mark - Overlap /\ stored[c] # stamp[c] => c \in excused

(* The watermark reaches the present however far it was behind, empty      *)
(* windows included (the comment on getLatestWatermarkModifiedEnd).        *)
CatchesUp == <>(mark >= MaxNow - Slack)
=============================================================================
