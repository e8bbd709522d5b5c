----------------------------- MODULE NvdCatalog -----------------------------
(***************************************************************************)
(* The NVD catalogue backfill: the ingest loop walks the publication dates *)
(* from today down to 1999, one window at a time, and keeps its place in   *)
(* the document app_integration_settings['nvd_catalog'].  While the        *)
(* document is active the incremental ingest is skipped.  An administrator *)
(* who saves a new NVD key asks for a walk by writing the same document.   *)
(*                                                                         *)
(* Time is counted in windows: the floor (1999) is 0 and today is Top.     *)
(* The walk takes hours and the catalogue 27 years, so today stands still. *)
(***************************************************************************)
EXTENDS Integers, FiniteSets

CONSTANTS
  Fingerprint, \* fingerprints of the NVD keys an administrator may save
  NoPrint,     \* the fingerprint "none": no key is configured
  Top,         \* windows between the floor and today
  Forward,     \* the window edge of 2010: below it a cursor looks forward
  PerBurst,    \* NVD_CATALOG_WINDOWS_PER_BURST
  MinWindows,  \* NVD_CATALOG_COMPLETE_MIN_CVE, in windows
  MaxSaves,    \* bound: keys saved in a behaviour
  MaxFaults    \* bound: aborted bursts, failed queries, abandoned windows

ASSUME CatalogAssumption == /\ {Top, PerBurst} \subseteq Nat \ {0}
                            /\ {Forward, MinWindows, MaxSaves, MaxFaults} \subseteq Nat
                            /\ MinWindows <= Top
                            /\ NoPrint \notin Fingerprint

VARIABLES
  doc,      \* the catalogue document in Postgres
  nvdKey,   \* fingerprint of the key resolveNvdApiKey finds
  at,       \* where the ingest loop stands
  mem,      \* the loop's copy of the document during a burst
  print,    \* fingerprint of the key the burst found when it started
  using,    \* the key found for the window under way
  left,     \* windows the burst may still take
  saving,   \* where the settings request stands
  asked,    \* the key the settings request carries
  seen,     \* the document the settings request has read
  synced,   \* windows whose pages were stored
  saves,    \* keys saved so far
  faults,   \* aborted bursts, failed queries, abandoned windows so far
  visited,  \* history: windows gone through, by which burst, with which key
  changed,  \* history: keys replaced while a burst of theirs was under way
  owed      \* history: a walk was asked for with the key configured now

loopVars == <<at, mem, print, using, left>>
apiVars == <<nvdKey, saving, asked, seen, saves, changed, owed>>
vars == <<doc, nvdKey, at, mem, print, using, left, saving, asked, seen, synced,
         saves, faults, visited, changed, owed>>

KeyPrint == Fingerprint \cup {NoPrint}
Window == 1..Top
Status == {"absent", "pending", "running", "complete"}
Doc == [status : Status, pubCursor : 0..Top, keyFingerprint : KeyPrint]

Absent == [status |-> "absent", pubCursor |-> Top, keyFingerprint |-> NoPrint]

(* defaultNvdCatalogDoc: pending, from today. *)
Fresh(k) == [status |-> "pending", pubCursor |-> Top, keyFingerprint |-> k]

-----------------------------------------------------------------------------
(* Deviations: plausible slips in the definitions that follow. *)

(* A document counts as active as soon as there is one. *)
ActiveOnceWritten(d) == d.status # "absent"

(* A completed document is normalised like an interrupted one. *)
NormalizeComplete(d) == IF d.status # "absent" /\ d.pubCursor < Forward
                        THEN [d EXCEPT !.status = "pending", !.pubCursor = Top]
                        ELSE d

(* A new key takes the walk over where it stands. *)
RekeyedInPlace(d) == [d EXCEPT !.keyFingerprint = print]

(* A walk goes on under the key it was started with. *)
NotRekeyed(d) == d

(* The walk does not stop at the floor. *)
InWindowAnywhere == at = "window" /\ left > 0

-----------------------------------------------------------------------------
Active(d) == d.status \in {"pending", "running"}

(* A running cursor before 2010 is taken for one left by the old           *)
(* oldest-first scan.  The cursor of this module is never in the future,   *)
(* and a running cursor at the floor is caught by the same test.           *)
LikelyForward(d) == d.status = "running" /\ d.pubCursor < Forward

Normalize(d) == IF LikelyForward(d) \/ d.status = "pending"
                THEN [d EXCEPT !.status = "pending", !.pubCursor = Top]
                ELSE d

Enough == Cardinality(synced) >= MinWindows

Init == /\ doc = Absent
        /\ nvdKey \in KeyPrint
        /\ at = "idle"
        /\ mem = Absent
        /\ print = NoPrint
        /\ using = NoPrint
        /\ left = 0
        /\ saving = "idle"
        /\ asked = NoPrint
        /\ seen = Absent
        /\ synced = {}
        /\ saves = 0
        /\ faults = 0
        /\ visited = {}
        /\ changed = {}
        /\ owed = FALSE

-----------------------------------------------------------------------------
(* The ingest loop. *)

Fault == faults < MaxFaults /\ faults' = faults + 1

(* The locals of a burst are gone when it ends. *)
Leave(next) == /\ at' = next
               /\ mem' = Absent
               /\ left' = 0
               /\ print' = NoPrint
               /\ using' = NoPrint

(* Every read of the document writes it back when Normalize changes it; a  *)
(* query that fails is swallowed, and the document looks absent.           *)
ReadCatalogState == \/ mem' = Normalize(doc) /\ doc' = Normalize(doc) /\ UNCHANGED faults
                    \/ mem' = Absent /\ UNCHANGED doc /\ Fault

(* A burst looks the key up once, before it reads the document. *)
StartBurst == /\ at = "idle"
              /\ print' = nvdKey
              /\ at' = "load"
              /\ UNCHANGED <<doc, mem, using, left, synced, visited, faults, apiVars>>

LoadDoc == /\ at = "load"
           /\ ReadCatalogState
           /\ at' = IF Active(mem') THEN "begin" ELSE "bootstrap"
           /\ UNCHANGED <<print, using, left, synced, visited, apiVars>>

Bootstrap == /\ at = "bootstrap"
             /\ \/ /\ doc' = IF ~Active(doc) /\ ~Enough THEN Fresh(nvdKey) ELSE Normalize(doc)
                   /\ UNCHANGED faults
                \/ doc' = (IF Enough THEN doc ELSE Fresh(nvdKey)) /\ Fault
             /\ at' = "reread"
             /\ UNCHANGED <<mem, print, using, left, synced, visited, apiVars>>

Reread == /\ at = "reread"
          /\ ReadCatalogState
          /\ at' = IF Active(mem') THEN "begin" ELSE "incremental"
          /\ UNCHANGED <<print, using, left, synced, visited, apiVars>>

(* runOnce reads the document again and does nothing while it is active. *)
Incremental == /\ at = "incremental"
               /\ \/ doc' = Normalize(doc) /\ UNCHANGED faults
                  \/ UNCHANGED doc /\ Fault
               /\ Leave("idle")
               /\ UNCHANGED <<synced, visited, apiVars>>

Rekeyed(d) == IF d.keyFingerprint # print THEN Fresh(print) ELSE d

Started(d) == IF d.status = "pending"
              THEN [d EXCEPT !.status = "running", !.pubCursor = Top]
              ELSE d

(* A changed key restarts the walk; a pending walk starts from today. *)
Begin == /\ at = "begin"
         /\ mem' = Started(Rekeyed(mem))
         /\ doc' = IF mem' = mem THEN doc ELSE mem'
         /\ at' = "head"
         /\ UNCHANGED <<print, using, left, synced, visited, faults, apiVars>>

(* Each burst first takes the last 48 hours again. *)
SyncHead == /\ at = "head"
            /\ at' = "window"
            /\ left' = PerBurst
            /\ UNCHANGED <<doc, mem, print, using, synced, visited, faults, apiVars>>

InWindow == at = "window" /\ left > 0 /\ mem.pubCursor > 0

(* syncPublishedWindow looks the key up anew for every window. *)
OpenWindow == /\ InWindow
              /\ at' = "pages"
              /\ using' = nvdKey
              /\ UNCHANGED <<doc, mem, print, left, synced, visited, faults, apiVars>>

(* The window's pages are stored, or it is given up after too many empty   *)
(* ones; the cursor moves either way.                                      *)
SyncWindow == /\ at = "pages"
              /\ \/ synced' = synced \cup {mem.pubCursor} /\ UNCHANGED faults
                 \/ Fault /\ UNCHANGED synced
              /\ visited' = visited \cup {<<print, using, mem.pubCursor>>}
              /\ mem' = [mem EXCEPT !.pubCursor = @ - 1, !.status = "running"]
              /\ doc' = mem'
              /\ left' = left - 1
              /\ at' = "window"
              /\ using' = NoPrint
              /\ UNCHANGED <<print, apiVars>>

(* An upsert asks isCatalogBackfillActiveCached, which reads the document. *)
PeekDuringWindow == /\ at \in {"head", "pages", "incremental"}
                    /\ Normalize(doc) # doc
                    /\ doc' = Normalize(doc)
                    /\ UNCHANGED <<loopVars, synced, visited, faults, apiVars>>

Finished == at = "window" /\ ~InWindow

(* The burst has reached the floor: the incremental ingest takes over. *)
Complete == /\ Finished
            /\ mem.pubCursor = 0
            /\ doc' = [mem EXCEPT !.status = "complete"]
            /\ Leave("incremental")
            /\ UNCHANGED <<synced, visited, faults, apiVars>>

(* The burst has taken its windows; the next one goes on from here. *)
Pause == /\ Finished
         /\ mem.pubCursor > 0
         /\ doc' = [mem EXCEPT !.status = "running"]
         /\ Leave("idle")
         /\ UNCHANGED <<synced, visited, faults, apiVars>>

(* A fetch that keeps failing or a failed query throws out of the burst,   *)
(* and a restart loses it: the document stays as last written.             *)
Abort == /\ at # "idle"
         /\ Fault
         /\ Leave("idle")
         /\ UNCHANGED <<doc, synced, visited, apiVars>>

-----------------------------------------------------------------------------
(* PUT /integrations with an NVD key. *)

InBurst == at \notin {"idle", "incremental"}

(* The history of a change of key: whose burst it falls into, and that no  *)
(* walk was asked for with the new key yet.                                *)
ChangeKey(k) ==
  /\ nvdKey' = k
  /\ changed' = changed \cup (IF InBurst /\ k # nvdKey THEN {print} ELSE {})
  /\ owed' = (owed /\ k = nvdKey)

SaveKey == /\ saving = "idle"
           /\ saves < MaxSaves
           /\ saves' = saves + 1
           /\ \E k \in Fingerprint : ChangeKey(k) /\ asked' = k
           /\ saving' = "verify"
           /\ UNCHANGED <<doc, loopVars, seen, synced, visited, faults>>

(* Another request, at any moment of the one that saves a key. *)
RemoveKey == /\ saves < MaxSaves
             /\ saves' = saves + 1
             /\ ChangeKey(NoPrint)
             /\ UNCHANGED <<doc, loopVars, saving, asked, seen, synced, visited, faults>>

EndRequest == saving' = "idle" /\ asked' = NoPrint /\ seen' = Absent

(* NVD rejects the key: it stays saved and no walk is asked for. *)
KeyRejected == /\ saving = "verify"
               /\ EndRequest
               /\ UNCHANGED <<doc, loopVars, nvdKey, synced, visited, saves, faults, changed, owed>>

KeyVerified == /\ saving = "verify"
               /\ seen' = Normalize(doc)
               /\ saving' = "request"
               /\ UNCHANGED <<doc, loopVars, nvdKey, asked, synced, visited, saves, faults,
                              changed, owed>>

ContinueDeep == seen.status = "running" /\ seen.keyFingerprint = asked

(* The request is for the key it carried, whatever is configured by then. *)
RequestBackfill ==
  /\ saving = "request"
  /\ doc' = IF ContinueDeep THEN seen ELSE Fresh(asked)
  /\ owed' = (owed \/ asked = nvdKey)
  /\ EndRequest
  /\ UNCHANGED <<loopVars, nvdKey, synced, visited, saves, faults, changed>>

-----------------------------------------------------------------------------
Loop == StartBurst \/ LoadDoc \/ Bootstrap \/ Reread \/ Incremental \/ Begin \/ SyncHead
        \/ OpenWindow \/ SyncWindow \/ Complete \/ Pause
Settings == KeyRejected \/ KeyVerified \/ RequestBackfill

Next == Loop \/ Settings \/ PeekDuringWindow \/ Abort \/ SaveKey \/ RemoveKey

Spec == Init /\ [][Next]_vars

(* runForever catches every error and goes on; a settings request ends.    *)
FairSpec == Spec /\ WF_vars(Loop) /\ WF_vars(Settings)

-----------------------------------------------------------------------------
(* Correctness. *)

(* Type invariant. *)
TypeOK == /\ doc \in Doc /\ mem \in Doc /\ seen \in Doc
          /\ {nvdKey, print, using, asked} \subseteq KeyPrint
          /\ at \in {"idle", "load", "bootstrap", "reread", "incremental", "begin", "head",
                    "window", "pages"}
          /\ left \in 0..PerBurst
          /\ saving \in {"idle", "verify", "request"}
          /\ synced \subseteq Window
          /\ visited \subseteq KeyPrint \X KeyPrint \X Window
          /\ changed \subseteq KeyPrint /\ owed \in BOOLEAN
          /\ saves \in 0..MaxSaves /\ faults \in 0..MaxFaults

(* A catalogue marked complete has had every window gone through by bursts *)
(* of the key it is marked with, and fetched with that very key unless the *)
(* key was replaced while such a burst was under way - whatever aborted    *)
(* the bursts, whoever rewrote the document under a burst and however      *)
(* often the walk started again (runCatalogBackfillBurst).                 *)
CompleteMeansVisited ==
  doc.status = "complete" =>
    \A w \in Window :
      \E k \in KeyPrint :
        /\ <<doc.keyFingerprint, k, w>> \in visited
        /\ k = doc.keyFingerprint \/ doc.keyFingerprint \in changed

(* Once a walk was asked for with the key that is configured, a catalogue  *)
(* is marked complete with that key only, unless the key it is marked with *)
(* was replaced during its own burst: that burst's last write may come     *)
(* after the request (requestNvdCatalogBackfill).                          *)
RequestStands ==
  owed /\ doc.status = "complete" =>
    doc.keyFingerprint = nvdKey \/ doc.keyFingerprint \in changed

(* The walk reaches 1999 and stays complete ("the full catalogue in 5-15   *)
(* minutes", resolveNvdCatalogTurboParams).                                *)
EventuallyComplete == <>[](doc.status = "complete")

(* The incremental ingest, which an active catalogue keeps out, runs again *)
(* and again.                                                              *)
IncrementalRuns == []<>(at = "incremental" /\ ~Active(doc))
=============================================================================
