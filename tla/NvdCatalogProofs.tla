-------------------------- MODULE NvdCatalogProofs --------------------------
(***************************************************************************)
(* Proofs about NvdCatalog: type correctness, that a complete catalogue    *)
(* has been gone through with the key it is marked with, and that it is    *)
(* marked with the key a walk was asked for - each but for keys replaced   *)
(* under a burst.                                                          *)
(***************************************************************************)
EXTENDS NvdCatalog, FiniteSetTheorems, TLAPS

(* A window gone through for the key p, with the excuse the code needs.    *)
Behind(p, w) == \E k \in KeyPrint : /\ <<p, k, w>> \in visited
                                    /\ k = p \/ p \in changed

(* Every copy of the document - in Postgres, in the ingest loop, in the    *)
(* settings request - has behind its cursor only windows gone through for  *)
(* its key.                                                                *)
Backed(d) ==
  /\ d.status \in {"running", "complete"} =>
       \A w \in Window : w > d.pubCursor => Behind(d.keyFingerprint, w)
  /\ d.status = "complete" => d.pubCursor = 0

(* A burst goes on under the key that is configured, or that was replaced  *)
(* while it ran; a window is fetched with the burst's key likewise.        *)
BurstKey == /\ InBurst => print = nvdKey \/ print \in changed
            /\ at = "pages" => using = print \/ print \in changed

(* Past Begin the loop's copy runs under the burst's own key. *)
OwnKey == at \in {"head", "window", "pages"} =>
            mem.keyFingerprint = print /\ mem.status = "running"

(* A window is opened only when there is one left to take. *)
WindowOpen == at = "pages" => mem.pubCursor \in Window /\ left > 0

(* Begin is reached with an active document only. *)
BeginActive == at = "begin" => Active(mem)

(* A request for a walk carries a key. *)
SavedKey == saving # "idle" => asked \in Fingerprint

(* What was asked for is not undone but by a burst the key fell into. *)
OwedKey == owed => /\ doc.keyFingerprint = nvdKey \/ doc.keyFingerprint \in changed
                   /\ saving # "idle" => asked = nvdKey

Inv == /\ TypeOK
       /\ Backed(doc) /\ Backed(mem) /\ Backed(seen)
       /\ BurstKey /\ OwnKey /\ WindowOpen /\ BeginActive /\ SavedKey /\ OwedKey

(* Fresh and normalised documents keep the shape and the backing. *)
LEMMA FreshBacked == ASSUME NEW k \in KeyPrint
                     PROVE Fresh(k) \in Doc /\ Backed(Fresh(k))
  BY CatalogAssumption DEF Fresh, Doc, Status, Backed

LEMMA NormalizeBacked == ASSUME NEW d \in Doc, Backed(d)
                         PROVE /\ Normalize(d) \in Doc /\ Backed(Normalize(d))
                               /\ Normalize(d).keyFingerprint = d.keyFingerprint
<1> DEFINE e == [d EXCEPT !.status = "pending", !.pubCursor = Top]
<1>1. Top \in 0..Top /\ "pending" \in Status
  BY CatalogAssumption DEF Status
<1>2. e \in Doc /\ e.status = "pending" /\ e.keyFingerprint = d.keyFingerprint
  BY <1>1 DEF Doc
<1>3. Backed(e)
  BY <1>2 DEF Backed
<1>4. Normalize(d) = e \/ Normalize(d) = d
  BY DEF Normalize
<1> QED BY <1>2, <1>3, <1>4

(* Beginning a burst makes the document one of its own key, and a pending  *)
(* walk one that starts from today.                                        *)
LEMMA StartedBacked ==
  ASSUME NEW d \in Doc, Backed(d), print \in KeyPrint
  PROVE /\ Started(Rekeyed(d)) \in Doc /\ Backed(Started(Rekeyed(d)))
        /\ Started(Rekeyed(d)).keyFingerprint = print
        /\ Active(d) => Started(Rekeyed(d)).status = "running"
<1> DEFINE e == Rekeyed(d)
           f == [e EXCEPT !.status = "running", !.pubCursor = Top]
<1>1. e \in Doc /\ Backed(e) /\ e.keyFingerprint = print
  BY FreshBacked DEF Rekeyed, Fresh
<1>2. Active(d) => e.status \in {"pending", "running"}
  BY DEF Active, Rekeyed, Fresh
<1>3. Top \in 0..Top /\ "running" \in Status
  BY CatalogAssumption DEF Status
<1> HIDE DEF e
<1>4. f \in Doc /\ f.status = "running" /\ f.pubCursor = Top /\ f.keyFingerprint = print
  BY <1>1, <1>3 DEF Doc
<1>5. Backed(f)
  BY <1>4, CatalogAssumption DEF Backed, Window
<1>6. Started(e) = IF e.status = "pending" THEN f ELSE e
  BY DEF Started
<1>7. /\ Started(e) \in Doc /\ Backed(Started(e)) /\ Started(e).keyFingerprint = print
      /\ Active(d) => Started(e).status = "running"
  BY <1>1, <1>2, <1>4, <1>5, <1>6
<1> QED BY <1>7 DEF e

LEMMA AbsentBacked == Absent \in Doc /\ Backed(Absent)
  BY CatalogAssumption DEF Absent, Doc, Status, KeyPrint, Backed

LEMMA InitInv == Init => Inv
<1> SUFFICES ASSUME Init PROVE Inv
  OBVIOUS
<1>1. TypeOK
  <2>1. 0 \in 0..PerBurst /\ 0 \in 0..MaxSaves /\ 0 \in 0..MaxFaults
    BY CatalogAssumption
  <2>2. {nvdKey, print, using, asked} \subseteq KeyPrint
    BY DEF Init, KeyPrint
  <2>3. /\ synced \subseteq Window /\ visited \subseteq KeyPrint \X KeyPrint \X Window
        /\ changed \subseteq KeyPrint /\ owed \in BOOLEAN
    BY DEF Init
  <2> QED BY <2>1, <2>2, <2>3, AbsentBacked DEF Init, TypeOK
<1>2. Backed(doc) /\ Backed(mem) /\ Backed(seen)
  BY AbsentBacked DEF Init
<1> QED
  BY <1>1, <1>2
     DEF Init, Inv, BurstKey, InBurst, OwnKey, WindowOpen, BeginActive, SavedKey, OwedKey

LEMMA FaultType == Fault /\ faults \in 0..MaxFaults => faults' \in 0..MaxFaults
  BY CatalogAssumption DEF Fault

(* The histories only grow, and a backed document stays backed. *)
LEMMA BackedKept ==
  ASSUME NEW d \in Doc, Backed(d), visited \subseteq visited', changed \subseteq changed'
  PROVE /\ d.status \in {"running", "complete"} =>
             \A w \in Window : w > d.pubCursor => Behind(d.keyFingerprint, w)'
        /\ d.status = "complete" => d.pubCursor = 0
<1>1. ASSUME NEW p, NEW w, Behind(p, w) PROVE Behind(p, w)'
  BY <1>1 DEF Behind
<1> QED BY <1>1 DEF Backed

(* Nothing of what the loop and the settings request share moves. *)
Still == UNCHANGED <<visited, changed>>

LEMMA StillBacked ==
  ASSUME NEW d \in Doc, Backed(d), Still
  PROVE /\ d.status \in {"running", "complete"} =>
             \A w \in Window : w > d.pubCursor => Behind(d.keyFingerprint, w)'
        /\ d.status = "complete" => d.pubCursor = 0
  BY BackedKept DEF Still

(* A read leaves a document of its own shape and backing in both places,   *)
(* and keeps the key of the one in Postgres.                               *)
LEMMA ReadBacked ==
  ASSUME Inv, ReadCatalogState, Still
  PROVE /\ mem' \in Doc /\ Backed(mem)' /\ doc' \in Doc /\ Backed(doc)'
        /\ doc'.keyFingerprint = doc.keyFingerprint
        /\ faults' \in 0..MaxFaults
<1>1. CASE mem' = Normalize(doc) /\ doc' = Normalize(doc) /\ UNCHANGED faults
  <2>1. /\ Normalize(doc) \in Doc /\ Backed(Normalize(doc))
        /\ Normalize(doc).keyFingerprint = doc.keyFingerprint
    BY NormalizeBacked DEF Inv, TypeOK
  <2> QED BY <1>1, <2>1, StillBacked DEF Backed, Inv, TypeOK
<1>2. CASE mem' = Absent /\ UNCHANGED doc /\ Fault
  BY <1>2, AbsentBacked, StillBacked, FaultType DEF Backed, Inv, TypeOK
<1> QED BY <1>1, <1>2 DEF ReadCatalogState

(* What a step of the loop owes, when it leaves the histories and the      *)
(* settings request alone: the conjuncts about the copies it writes.       *)
LEMMA LoopStep ==
  ASSUME Inv, UNCHANGED apiVars, UNCHANGED visited,
         doc' \in Doc, Backed(doc)', mem' \in Doc, Backed(mem)',
         doc'.keyFingerprint \in {doc.keyFingerprint, nvdKey, print},
         doc'.keyFingerprint = print => doc'.keyFingerprint = doc.keyFingerprint \/ InBurst
  PROVE Backed(seen)' /\ SavedKey' /\ OwedKey' /\ seen' \in Doc
<1>1. Backed(seen)' /\ seen' \in Doc
  BY StillBacked DEF Still, apiVars, Inv, TypeOK, Backed
<1>2. SavedKey'
  BY DEF Inv, SavedKey, apiVars
<1>3. OwedKey'
  BY DEF Inv, OwedKey, BurstKey, apiVars
<1> QED BY <1>1, <1>2, <1>3

(* The step lemmas: one per action of the loop and of the settings request. *)
LEMMA ReadInv == ASSUME Inv, StartBurst \/ LoadDoc \/ Reread PROVE Inv'
<1>1. CASE StartBurst
  <2>1. Backed(doc)' /\ Backed(mem)'
    BY <1>1, StillBacked DEF StartBurst, Still, apiVars, Inv, TypeOK, Backed
  <2>2. Backed(seen)' /\ SavedKey' /\ OwedKey' /\ seen' \in Doc
    BY <1>1, <2>1, LoopStep DEF StartBurst, Inv, TypeOK
  <2> QED
    BY <1>1, <2>1, <2>2
       DEF Inv, TypeOK, StartBurst, apiVars, BurstKey, InBurst, OwnKey, WindowOpen, BeginActive
<1>2. ASSUME LoadDoc \/ Reread PROVE Inv'
  <2>1. /\ mem' \in Doc /\ Backed(mem)' /\ doc' \in Doc /\ Backed(doc)'
        /\ doc'.keyFingerprint = doc.keyFingerprint
        /\ faults' \in 0..MaxFaults
    BY <1>2, ReadBacked DEF LoadDoc, Reread, Still, apiVars
  <2>2. Backed(seen)' /\ SavedKey' /\ OwedKey' /\ seen' \in Doc
    BY <1>2, <2>1, LoopStep DEF LoadDoc, Reread
  <2> QED
    BY <1>2, <2>1, <2>2
       DEF Inv, TypeOK, LoadDoc, Reread, apiVars, BurstKey, InBurst, OwnKey, WindowOpen,
           BeginActive, Active
<1> QED BY <1>1, <1>2

(* Leaving drops the locals: nothing is claimed of them any more. *)
LEMMA LeaveInv ==
  ASSUME Inv, UNCHANGED <<visited, synced, apiVars>>, doc' \in Doc, Backed(doc)',
         doc'.keyFingerprint \in {doc.keyFingerprint, print},
         doc'.keyFingerprint = print => doc'.keyFingerprint = doc.keyFingerprint \/ InBurst,
         faults' \in 0..MaxFaults, NEW next \in {"idle", "incremental"}, Leave(next)
  PROVE Inv'
<1>1. mem' \in Doc /\ Backed(mem)'
  BY AbsentBacked, StillBacked DEF Leave, Still, apiVars, Backed
<1>2. Backed(seen)' /\ SavedKey' /\ OwedKey' /\ seen' \in Doc
  BY <1>1, LoopStep
<1>3. NoPrint \in KeyPrint /\ 0 \in 0..PerBurst
  BY CatalogAssumption DEF KeyPrint
<1> QED
  BY <1>1, <1>2, <1>3
     DEF Inv, TypeOK, Leave, apiVars, BurstKey, InBurst, OwnKey, WindowOpen, BeginActive

LEMMA MoveInv == ASSUME Inv, Incremental \/ Abort PROVE Inv'
<1>1. CASE Incremental
  <2>1. /\ Normalize(doc) \in Doc /\ Backed(Normalize(doc))
        /\ Normalize(doc).keyFingerprint = doc.keyFingerprint
    BY NormalizeBacked DEF Inv, TypeOK
  <2>2. /\ doc' \in Doc /\ Backed(doc)' /\ doc'.keyFingerprint = doc.keyFingerprint
        /\ faults' \in 0..MaxFaults
    BY <1>1, <2>1, StillBacked, FaultType
       DEF Incremental, Still, apiVars, Inv, TypeOK, Backed
  <2> QED BY <1>1, <2>2, LeaveInv DEF Incremental
<1>2. CASE Abort
  <2>1. doc' \in Doc /\ Backed(doc)' /\ faults' \in 0..MaxFaults
    BY <1>2, StillBacked, FaultType DEF Abort, Still, apiVars, Inv, TypeOK, Backed
  <2> QED BY <1>2, <2>1, LeaveInv DEF Abort
<1> QED BY <1>1, <1>2

LEMMA PeekInv == ASSUME Inv, PeekDuringWindow PROVE Inv'
<1>1. /\ Normalize(doc) \in Doc /\ Backed(Normalize(doc))
      /\ Normalize(doc).keyFingerprint = doc.keyFingerprint
  BY NormalizeBacked DEF Inv, TypeOK
<1>2. doc' \in Doc /\ Backed(doc)' /\ mem' \in Doc /\ Backed(mem)'
  BY <1>1, StillBacked DEF PeekDuringWindow, Still, loopVars, apiVars, Inv, TypeOK, Backed
<1>3. Backed(seen)' /\ SavedKey' /\ OwedKey' /\ seen' \in Doc
  BY <1>1, <1>2, LoopStep DEF PeekDuringWindow
<1> QED
  BY <1>2, <1>3
     DEF Inv, TypeOK, PeekDuringWindow, loopVars, apiVars, BurstKey, InBurst, OwnKey,
         WindowOpen, BeginActive, Active

LEMMA BootstrapInv == ASSUME Inv, Bootstrap PROVE Inv'
<1>1. /\ Normalize(doc) \in Doc /\ Backed(Normalize(doc))
      /\ Normalize(doc).keyFingerprint = doc.keyFingerprint
  BY NormalizeBacked DEF Inv, TypeOK
<1>2. Fresh(nvdKey) \in Doc /\ Backed(Fresh(nvdKey)) /\ Fresh(nvdKey).keyFingerprint = nvdKey
  BY FreshBacked DEF Inv, TypeOK, Fresh
<1>3. doc' \in {Normalize(doc), Fresh(nvdKey), doc} /\ faults' \in 0..MaxFaults
  BY FaultType DEF Inv, TypeOK, Bootstrap
<1>4. /\ doc' \in Doc /\ Backed(doc)' /\ mem' \in Doc /\ Backed(mem)'
      /\ doc'.keyFingerprint \in {doc.keyFingerprint, nvdKey}
  BY <1>1, <1>2, <1>3, StillBacked DEF Inv, TypeOK, Bootstrap, Still, apiVars, Backed
<1>5. Backed(seen)' /\ SavedKey' /\ OwedKey' /\ seen' \in Doc
  BY <1>4, LoopStep DEF Bootstrap, InBurst
<1> QED
  BY <1>3, <1>4, <1>5
     DEF Inv, TypeOK, Bootstrap, apiVars, BurstKey, InBurst, OwnKey, WindowOpen, BeginActive

LEMMA BeginInv == ASSUME Inv, Begin PROVE Inv'
<1>1. /\ mem' \in Doc /\ Backed(mem') /\ mem'.keyFingerprint = print
      /\ mem'.status = "running"
  BY StartedBacked DEF Inv, TypeOK, Begin, BeginActive
<1>2. /\ doc' \in Doc /\ Backed(doc)' /\ Backed(mem)'
      /\ doc'.keyFingerprint \in {doc.keyFingerprint, print}
  BY <1>1, StillBacked DEF Inv, TypeOK, Begin, Still, apiVars, Backed
<1>3. Backed(seen)' /\ SavedKey' /\ OwedKey' /\ seen' \in Doc
  BY <1>1, <1>2, LoopStep DEF Begin, InBurst
<1> QED
  BY <1>1, <1>2, <1>3
     DEF Inv, TypeOK, Begin, apiVars, BurstKey, InBurst, OwnKey, WindowOpen, BeginActive

LEMMA WindowInv == ASSUME Inv, SyncHead \/ OpenWindow PROVE Inv'
<1>1. Backed(doc)' /\ Backed(mem)' /\ doc' \in Doc /\ mem' \in Doc
  BY StillBacked DEF SyncHead, OpenWindow, Still, apiVars, Inv, TypeOK, Backed
<1>2. Backed(seen)' /\ SavedKey' /\ OwedKey' /\ seen' \in Doc
  BY <1>1, LoopStep DEF SyncHead, OpenWindow
<1>3. CASE SyncHead
  BY <1>1, <1>2, <1>3, CatalogAssumption
     DEF Inv, TypeOK, SyncHead, apiVars, BurstKey, InBurst, OwnKey, WindowOpen, BeginActive
<1>4. CASE OpenWindow
  BY <1>1, <1>2, <1>4, CatalogAssumption
     DEF Inv, TypeOK, OpenWindow, InWindow, Doc, Window, apiVars, BurstKey, InBurst, OwnKey,
         WindowOpen, BeginActive
<1> QED BY <1>3, <1>4

(* The window just gone through joins the ones behind the cursor. *)
LEMMA SyncWindowInv == ASSUME Inv, SyncWindow PROVE Inv'
<1>1. /\ mem.pubCursor \in Window /\ mem.pubCursor - 1 \in 0..Top
      /\ left - 1 \in 0..PerBurst
  BY CatalogAssumption DEF Inv, TypeOK, SyncWindow, WindowOpen, Window
<1>2. /\ mem' \in Doc /\ mem'.pubCursor = mem.pubCursor - 1
      /\ mem'.status = "running" /\ mem'.keyFingerprint = mem.keyFingerprint
      /\ doc' = mem'
  BY <1>1 DEF Inv, TypeOK, SyncWindow, Doc, Status
<1>3. /\ mem.keyFingerprint = print /\ mem.status = "running"
      /\ using = print \/ print \in changed
      /\ print = nvdKey \/ print \in changed
      /\ {print, using} \subseteq KeyPrint
  BY DEF Inv, TypeOK, SyncWindow, OwnKey, BurstKey, InBurst
<1>4. \A w \in Window : w > mem'.pubCursor => w = mem.pubCursor \/ w > mem.pubCursor
  BY <1>1, <1>2 DEF Window
<1>5. \A w \in Window : w = mem.pubCursor => Behind(print, w)'
  BY <1>3 DEF SyncWindow, Behind, apiVars
<1>6. visited \subseteq visited' /\ changed \subseteq changed'
  BY DEF SyncWindow, apiVars
<1>7. \A w \in Window : w > mem.pubCursor => Behind(print, w)'
  BY <1>3, <1>6 DEF Inv, Backed, Behind, SyncWindow
<1>8. \A w \in Window : w > mem'.pubCursor => Behind(print, w)'
  BY <1>4, <1>5, <1>7 DEF Behind, SyncWindow
<1>9. Backed(mem)' /\ Backed(doc)'
  BY <1>2, <1>3, <1>8 DEF Backed, Behind, SyncWindow
<1>10. Backed(seen)'
  BY <1>6, BackedKept DEF Inv, TypeOK, SyncWindow, apiVars, Backed
<1>11. TypeOK'
  <2>1. visited' \subseteq KeyPrint \X KeyPrint \X Window
    BY <1>1, <1>3 DEF Inv, TypeOK, SyncWindow
  <2>2. synced' \subseteq Window /\ faults' \in 0..MaxFaults
    BY <1>1, FaultType DEF Inv, TypeOK, SyncWindow
  <2> QED
    BY <1>1, <1>2, <2>1, <2>2, CatalogAssumption DEF Inv, TypeOK, SyncWindow, apiVars, KeyPrint
<1> QED
  BY <1>2, <1>3, <1>9, <1>10, <1>11
     DEF Inv, SyncWindow, BurstKey, InBurst, OwnKey, WindowOpen, BeginActive, SavedKey,
         OwedKey, apiVars

LEMMA FinishInv == ASSUME Inv, Complete \/ Pause PROVE Inv'
<1>1. mem.status = "running" /\ mem.keyFingerprint = print /\ InBurst /\ at = "window"
  BY DEF Inv, Complete, Pause, Finished, OwnKey, InBurst
<1>2. /\ doc' \in Doc /\ doc'.pubCursor = mem.pubCursor
      /\ doc'.keyFingerprint = mem.keyFingerprint
      /\ doc'.status \in {"running", "complete"}
      /\ doc'.status = "complete" => mem.pubCursor = 0
  BY DEF Inv, TypeOK, Complete, Pause, Doc, Status
<1>3. UNCHANGED <<visited, changed>>
  BY DEF Complete, Pause, apiVars
<1>4. Backed(doc)'
  BY <1>1, <1>2, <1>3 DEF Inv, Backed, Behind
<1>5. faults' \in 0..MaxFaults
  BY DEF Inv, TypeOK, Complete, Pause
<1> QED BY <1>1, <1>2, <1>4, <1>5, LeaveInv DEF Complete, Pause

(* A change of the key under a burst is what the excuse is for. *)
LEMMA ChangeInv ==
  ASSUME Inv, NEW k \in KeyPrint, ChangeKey(k),
         UNCHANGED <<doc, loopVars, seen, synced, visited, faults>>,
         saves' \in 0..MaxSaves,
         \/ saving' = "verify" /\ asked' = k /\ k \in Fingerprint
         \/ UNCHANGED <<saving, asked>> /\ k = NoPrint
  PROVE Inv'
<1>1. visited \subseteq visited' /\ changed \subseteq changed'
  BY DEF ChangeKey
<1>2. Backed(doc)' /\ Backed(mem)' /\ Backed(seen)'
  BY <1>1, BackedKept DEF Inv, TypeOK, loopVars, Backed
<1>3. changed' \subseteq KeyPrint /\ owed' \in BOOLEAN /\ asked' \in KeyPrint
  BY DEF Inv, TypeOK, ChangeKey, KeyPrint
<1>4. BurstKey' /\ OwedKey'
  BY DEF Inv, BurstKey, OwedKey, InBurst, ChangeKey, loopVars, SavedKey
<1>5. SavedKey' /\ OwnKey' /\ WindowOpen' /\ BeginActive'
  BY DEF Inv, SavedKey, OwnKey, WindowOpen, BeginActive, Active, loopVars
<1>6. TypeOK'
  BY <1>3 DEF Inv, TypeOK, ChangeKey, loopVars, KeyPrint
<1> QED BY <1>2, <1>4, <1>5, <1>6 DEF Inv

LEMMA SettingsInv ==
  ASSUME Inv, SaveKey \/ RemoveKey \/ KeyRejected \/ KeyVerified \/ RequestBackfill
  PROVE Inv'
<1>1. CASE SaveKey \/ RemoveKey
  <2>1. saves' \in 0..MaxSaves
    BY <1>1, CatalogAssumption DEF Inv, TypeOK, SaveKey, RemoveKey
  <2>2. CASE SaveKey
    <3>1. PICK k \in Fingerprint : ChangeKey(k) /\ asked' = k
      BY <2>2 DEF SaveKey
    <3> QED BY <2>1, <2>2, <3>1, ChangeInv DEF SaveKey, KeyPrint
  <2>3. CASE RemoveKey
    BY <2>1, <2>3, ChangeInv DEF RemoveKey, KeyPrint
  <2> QED BY <1>1, <2>2, <2>3
<1>2. CASE KeyRejected
  <2>1. Backed(doc)' /\ Backed(mem)' /\ Backed(seen)' /\ seen' \in Doc
    BY <1>2, StillBacked, AbsentBacked
       DEF KeyRejected, EndRequest, loopVars, Still, Inv, TypeOK, Backed
  <2> QED
    BY <1>2, <2>1
       DEF Inv, TypeOK, KeyRejected, EndRequest, loopVars, BurstKey, InBurst, OwnKey,
           WindowOpen, BeginActive, Active, SavedKey, OwedKey, KeyPrint
<1>3. CASE KeyVerified
  <2>1. Normalize(doc) \in Doc /\ Backed(Normalize(doc))
    BY NormalizeBacked DEF Inv, TypeOK
  <2>2. Backed(doc)' /\ Backed(mem)' /\ Backed(seen)' /\ seen' \in Doc
    BY <1>3, <2>1, StillBacked DEF KeyVerified, loopVars, Still, Inv, TypeOK, Backed
  <2> QED
    BY <1>3, <2>2
       DEF Inv, TypeOK, KeyVerified, loopVars, BurstKey, InBurst, OwnKey, WindowOpen,
           BeginActive, Active, SavedKey, OwedKey
<1>4. CASE RequestBackfill
  <2>1. /\ Fresh(asked) \in Doc /\ Backed(Fresh(asked))
        /\ Fresh(asked).keyFingerprint = asked
    BY FreshBacked DEF Inv, TypeOK, Fresh
  <2>2. /\ doc' \in Doc /\ Backed(doc)' /\ doc'.keyFingerprint = asked
        /\ Backed(mem)' /\ Backed(seen)' /\ seen' \in Doc
    BY <1>4, <2>1, StillBacked, AbsentBacked
       DEF RequestBackfill, ContinueDeep, EndRequest, loopVars, Still, Inv, TypeOK, Backed
  <2> QED
    BY <1>4, <2>2
       DEF Inv, TypeOK, RequestBackfill, EndRequest, loopVars, BurstKey, InBurst, OwnKey,
           WindowOpen, BeginActive, Active, SavedKey, OwedKey, KeyPrint
<1> QED BY <1>1, <1>2, <1>3, <1>4

LEMMA StutterInv == ASSUME Inv, UNCHANGED vars PROVE Inv'
<1>1. Backed(doc)' /\ Backed(mem)' /\ Backed(seen)'
  BY StillBacked DEF Still, vars, Inv, TypeOK, Backed
<1> QED
  BY <1>1 DEF Inv, TypeOK, vars, BurstKey, InBurst, OwnKey, WindowOpen, BeginActive, Active,
              SavedKey, OwedKey

LEMMA NextInv == Inv /\ [Next]_vars => Inv'
  BY ReadInv, BootstrapInv, BeginInv, WindowInv, SyncWindowInv, FinishInv, MoveInv, PeekInv,
     SettingsInv, StutterInv
     DEF Next, Loop, Settings

LEMMA InvComplete == Inv => CompleteMeansVisited
<1> SUFFICES ASSUME Inv, doc.status = "complete", NEW w \in Window
             PROVE Behind(doc.keyFingerprint, w)
  BY DEF CompleteMeansVisited, Behind
<1>1. doc.pubCursor = 0 /\ w > 0
  BY CatalogAssumption DEF Inv, Backed, Window
<1> QED BY <1>1 DEF Inv, Backed

(* Every reachable state has the shape TypeOK gives it. *)
THEOREM CatalogTypeCorrect == Spec => []TypeOK
<1>1. Inv => TypeOK
  BY DEF Inv
<1> QED BY <1>1, InitInv, NextInv, PTL DEF Spec

(* Whatever aborts a burst and however a settings request and the loop     *)
(* overwrite each other's document, a catalogue is complete only after     *)
(* bursts of the key it is marked with went through every window, with     *)
(* that very key unless it was replaced while one of them was under way    *)
(* (runCatalogBackfillBurst, syncPublishedWindow).                         *)
THEOREM CompleteIsVisited == Spec => []CompleteMeansVisited
  BY InitInv, NextInv, InvComplete, PTL DEF Spec

(* A request for a walk with the configured key is not undone by the loop, *)
(* but by a burst under which the key was replaced                         *)
(* (requestNvdCatalogBackfill).                                            *)
THEOREM RequestIsKept == Spec => []RequestStands
<1>1. Inv => RequestStands
  BY DEF Inv, OwedKey, RequestStands
<1> QED BY <1>1, InitInv, NextInv, PTL DEF Spec
=============================================================================
