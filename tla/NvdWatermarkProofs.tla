------------------------- MODULE NvdWatermarkProofs -------------------------
(***************************************************************************)
(* Proofs about NvdWatermark, for any CVEs, page sizes, overlaps, windows  *)
(* and bounds: type correctness, and that nothing behind the watermark is  *)
(* missed but for a reason the run knows.                                  *)
(***************************************************************************)
EXTENDS NvdWatermark, FiniteSetTheorems, TLAPS

(* A CVE the database does not have in the version NVD shows.              *)
Owed(c) == stored[c] # stamp[c] /\ c \notin excused

(* What the run asks for, and what of it the next pages will bring.        *)
Asked == Results(since, until)
Ahead(c) == \/ at = "fetch" /\ Rank(c, Asked) >= start
            \/ at = "store" /\ Rank(c, Asked) >= NextStart /\ NextStart < total
OnPage(c) == c \in DOMAIN page /\ page[c] = stamp[c]

Accounted(c) == \/ c \in failed
                \/ OnPage(c)
                \/ c \notin taken /\ (gaveUp \/ shifted \/ Ahead(c))

(* A run knows of every CVE that is behind the end of its window and not   *)
(* in the database: it failed, is in hand, or is still to come, unless the *)
(* pages have shifted or the loop gives up.                                *)
Running == at \in {"fetch", "store", "end"}
RunKnows == Running =>
  \A c \in Cve : Owed(c) /\ stamp[c] < until - Overlap => since <= stamp[c] /\ Accounted(c)

(* A version in hand that NVD has replaced was replaced after the window   *)
(* was asked for, within the overlap of the next run.                      *)
Recent(c) == stamp[c] >= until - Overlap /\ stamp[c] >= mark - Overlap
PageFresh == \A c \in DOMAIN page : OnPage(c) \/ Recent(c)

ImportOld == \A c \in DOMAIN import : import[c] <= stamp[c]

Bounded == /\ mark <= now /\ until <= now
           /\ at \in {"fetch", "store"} => tries <= MaxEmpty /\ ~gaveUp
           /\ at # "store" => DOMAIN page = {}
           /\ NextStart <= Cardinality(Cve)

Typed == TypeOK /\ Bounded
Inv == Typed /\ RunKnows /\ PageFresh /\ ImportOld /\ NothingMissed

-----------------------------------------------------------------------------
(* Ranks and pages. *)

LEMMA Subsets ==
  ASSUME NEW S \in SUBSET Cve
  PROVE /\ IsFiniteSet(S) /\ S \subseteq Nat
        /\ Cardinality(S) \in 0..Cardinality(Cve) /\ Cardinality(Cve) \in Nat
<1>1. IsFiniteSet(Cve) /\ Cve \subseteq Nat
  BY WatermarkAssumption
<1>2. IsFiniteSet(S) /\ Cardinality(S) <= Cardinality(Cve)
  BY <1>1, FS_Subset
<1>3. Cardinality(S) \in Nat /\ Cardinality(Cve) \in Nat
  BY <1>1, <1>2, FS_CardinalityType
<1> QED BY <1>1, <1>2, <1>3

LEMMA SubsetSize ==
  ASSUME NEW T \in SUBSET Cve, NEW S \in SUBSET T
  PROVE Cardinality(S) <= Cardinality(T)
  BY Subsets, FS_Subset

LEMMA RankType ==
  ASSUME NEW S \in SUBSET Cve, NEW c
  PROVE Rank(c, S) \in Nat
<1>1. {d \in S : d < c} \in SUBSET Cve
  OBVIOUS
<1> QED BY <1>1, Subsets DEF Rank

(* The rank is a place in the answer. *)
LEMMA RankBelow ==
  ASSUME NEW S \in SUBSET Cve, NEW c \in S
  PROVE Rank(c, S) < Cardinality(S)
<1> DEFINE B == {d \in S : d < c}
<1>1. B \in SUBSET Cve /\ c \notin B /\ B \cup {c} \in SUBSET S
  BY Subsets
<1>2. Cardinality(B \cup {c}) = Cardinality(B) + 1
  BY <1>1, Subsets, FS_AddElement
<1>3. Cardinality(B \cup {c}) <= Cardinality(S)
  BY <1>1, SubsetSize
<1> QED BY <1>1, <1>2, <1>3, Subsets DEF Rank

(* No two CVEs share a place. *)
LEMMA RankOrder ==
  ASSUME NEW S \in SUBSET Cve, NEW c \in S, NEW d \in S, c < d
  PROVE Rank(c, S) < Rank(d, S)
<1> DEFINE B == {e \in S : e < d}
<1>1. B \in SUBSET Cve /\ c \in B
  OBVIOUS
<1>2. {e \in B : e < c} = {e \in S : e < c}
  BY <1>1, Subsets
<1>3. Rank(c, B) < Cardinality(B)
  BY <1>1, RankBelow
<1> QED BY <1>2, <1>3 DEF Rank

(* A CVE that comes into the window moves no other one forward. *)
LEMMA RankGrows ==
  ASSUME NEW T \in SUBSET Cve, NEW S \in SUBSET T, NEW c
  PROVE Rank(c, S) <= Rank(c, T)
<1>1. {d \in T : d < c} \in SUBSET Cve /\ {d \in S : d < c} \in SUBSET {d \in T : d < c}
  OBVIOUS
<1> QED BY <1>1, SubsetSize DEF Rank

LEMMA PageSmall ==
  ASSUME NEW S \in SUBSET Cve, NEW i \in Nat
  PROVE Cardinality(PageAt(i, S)) <= PageSize
<1> DEFINE P == PageAt(i, S)
           I == i..(i + PageSize - 1)
           f == [c \in P |-> Rank(c, S)]
<1>1. PageSize \in Nat \ {0} /\ P \subseteq S
  BY WatermarkAssumption DEF PageAt
<1>2. f \in [P -> I]
  <2>1. ASSUME NEW c \in P PROVE Rank(c, S) \in I
    <3>1. i <= Rank(c, S) /\ Rank(c, S) < i + PageSize /\ Rank(c, S) \in Nat
      BY RankType DEF PageAt
    <3> QED BY <1>1, <3>1
  <2> QED BY <2>1
<1>3. ASSUME NEW c \in P, NEW d \in P, f[c] = f[d] PROVE c = d
  <2>1. c \in Nat /\ d \in Nat /\ c \in S /\ d \in S
    BY <1>1, Subsets
  <2>2. Rank(c, S) = Rank(d, S) /\ Rank(c, S) \in Nat
    BY <1>3, RankType
  <2>3. ~(c < d) /\ ~(d < c)
    BY <2>1, <2>2, RankOrder
  <2> QED BY <2>1, <2>3
<1>4. f \in Injection(P, I)
  BY <1>2, <1>3 DEF Injection, IsInjective
<1>5. IsFiniteSet(I) /\ Cardinality(I) = PageSize
  BY <1>1, FS_Interval
<1> QED BY <1>4, <1>5, FS_Injection

(* A page ends at the latest where the answer does. *)
LEMMA PageFits ==
  ASSUME NEW S \in SUBSET Cve, NEW i \in 0..Cardinality(Cve)
  PROVE i + Cardinality(PageAt(i, S)) <= Cardinality(Cve)
<1> DEFINE P == PageAt(i, S)
<1>1. P \subseteq S /\ P \in SUBSET Cve /\ P \subseteq Nat /\ IsFiniteSet(P)
      /\ Cardinality(P) \in Nat /\ Cardinality(Cve) \in Nat
  <2>1. P \in SUBSET S
    BY DEF PageAt
  <2> QED BY <2>1, Subsets
<1>2. CASE P = {}
  BY <1>1, <1>2, FS_EmptySet
<1>3. CASE P # {}
  <2>1. PICK m \in P : \A c \in P : ~(c < m)
    <3>1. \E m \in P : \A c \in P : <<c, m>> \notin OpToRel(<, Nat)
      BY <1>1, <1>3, NatLessThanWellFounded, WFMin
    <3> QED BY <1>1, <3>1 DEF OpToRel
  <2> DEFINE B == {d \in S : d < m}
  <2>2. B \in SUBSET Cve /\ IsFiniteSet(B) /\ Cardinality(B) \in Nat
    BY Subsets
  <2>3. Cardinality(B) >= i
    BY <2>1 DEF PageAt, Rank
  <2>4. B \cap P = {}
    BY <2>1
  <2>5. Cardinality(B \cup P) = Cardinality(B) + Cardinality(P)
    BY <1>1, <2>2, <2>4, FS_Union, FS_EmptySet
  <2>6. Cardinality(B \cup P) <= Cardinality(Cve)
    BY <1>1, <2>2, Subsets
  <2> QED BY <1>1, <2>2, <2>3, <2>5, <2>6
<1> QED BY <1>2, <1>3

-----------------------------------------------------------------------------
(* Each action keeps the invariant. *)

LEMMA Numbers ==
  ASSUME Typed
  PROVE /\ now \in Nat /\ now <= MaxNow /\ until \in Nat /\ since \in Nat
        /\ mark \in Int /\ (mark = None \/ mark \in Nat) /\ mark <= now /\ until <= now
        /\ start \in Nat /\ total \in Nat /\ Overlap \in Nat /\ Lag \in Nat /\ Lag <= Overlap
        /\ MaxNow \in Nat /\ MaxWindow \in Nat /\ Back \in Nat /\ MaxEmpty \in Nat
        /\ \A c \in Cve : stamp[c] \in Nat /\ stamp[c] \in Time
        /\ Asked \in SUBSET Cve
        /\ Cardinality(Cve) \in Nat
<1>1. /\ Overlap \in Nat /\ Lag \in Nat /\ Lag <= Overlap /\ MaxNow \in Nat
      /\ MaxWindow \in Nat /\ Back \in Nat /\ MaxEmpty \in Nat
  BY WatermarkAssumption, OverlapAssumption
<1>2. Cardinality(Cve) \in Nat
  BY WatermarkAssumption, FS_CardinalityType
<1>3. Asked \in SUBSET Cve
  BY DEF Asked, Results
<1> QED BY <1>1, <1>2, <1>3 DEF Typed, TypeOK, Bounded, Time, None

LEMMA NothingEmpty == DOMAIN Nothing = {}
  BY DEF Nothing

LEMMA InitInv == Init => Inv
<1> SUFFICES ASSUME Init PROVE Inv
  OBVIOUS
<1>1. Cardinality(Cve) \in Nat /\ MaxNow \in Nat /\ MaxEmpty \in Nat
      /\ MaxMods \in Nat /\ MaxFaults \in Nat
  BY WatermarkAssumption, FS_CardinalityType
<1>2. DOMAIN page = {} /\ DOMAIN import = {}
  BY NothingEmpty DEF Init
<1>3. TypeOK
  <2>1. /\ now \in Time /\ written \in Time /\ since \in Time /\ until \in Time
        /\ stamp \in [Cve -> Time] /\ mark \in Time \cup {None}
    BY <1>1 DEF Init, Time
  <2>2. stored \in [Cve -> Time \cup {Missing}]
    BY <1>1 DEF Init, Time
  <2>3. /\ at \in {"idle", "fetch", "store", "end", "sync"}
        /\ start \in 0..Cardinality(Cve) /\ total \in 0..Cardinality(Cve)
        /\ tries \in 0..MaxEmpty + 1 /\ mods \in 0..MaxMods /\ faults \in 0..MaxFaults
    BY <1>1 DEF Init
  <2>4. /\ {some, gaveUp, chunked, shifted} \subseteq BOOLEAN
        /\ {taken, failed, excused} \in SUBSET SUBSET Cve
    BY DEF Init
  <2> QED BY <1>2, <2>1, <2>2, <2>3, <2>4 DEF TypeOK
<1>4. Bounded
  BY <1>1, <1>2, FS_EmptySet DEF Init, Bounded, NextStart, None
<1> QED BY <1>2, <1>3, <1>4
    DEF Init, Inv, Typed, RunKnows, Running, PageFresh, ImportOld, NothingMissed

(* A modification is stamped within the overlap of the next run; one of a  *)
(* CVE in the window shifts the pages, any other moves none forward.       *)
LEMMA ModifyInv ==
  ASSUME Inv, NEW c \in Cve, NEW t \in Time, Modify(c, t)
  PROVE Inv'
<1>1. Typed /\ RunKnows /\ PageFresh /\ ImportOld /\ NothingMissed
  BY DEF Inv
<1>2. /\ t > stamp[c] /\ t <= now /\ now - t <= Lag
      /\ stamp' = [stamp EXCEPT ![c] = t] /\ mods' = mods + 1 /\ mods < MaxMods
      /\ shifted' = (shifted \/ (at # "idle" /\ c \in Asked))
      /\ excused' = excused \ {c}
      /\ UNCHANGED <<now, stored, mark, written, at, runVars, import, faults>>
  BY DEF Modify, Asked, markVars
<1>3. t \in Nat /\ t >= until - Overlap /\ t >= mark - Overlap
  BY <1>1, <1>2, Numbers DEF Time
<1>4. stamp'[c] = t /\ \A d \in Cve : d # c => stamp'[d] = stamp[d]
  BY <1>1, <1>2 DEF Typed, TypeOK
<1>5. Typed'
  <2>1. shifted' \in BOOLEAN /\ mods' \in 0..MaxMods
    BY <1>1, <1>2, WatermarkAssumption DEF Typed, TypeOK
  <2>2. stamp' \in [Cve -> Time] /\ excused' \subseteq Cve
    BY <1>1, <1>2 DEF Typed, TypeOK
  <2>3. TypeOK'
    BY <1>1, <1>2, <2>1, <2>2 DEF Typed, TypeOK, runVars
  <2>4. Bounded'
    BY <1>1, <1>2 DEF Typed, Bounded, runVars, NextStart
  <2> QED BY <2>3, <2>4 DEF Typed
<1>6. RunKnows'
  <2> SUFFICES ASSUME Running, NEW d \in Cve, Owed(d)', stamp'[d] < until - Overlap
               PROVE since <= stamp'[d] /\ Accounted(d)'
    BY <1>2 DEF RunKnows, Running, runVars
  <2>1. d # c /\ stamp'[d] = stamp[d]
    BY <1>1, <1>3, <1>4, Numbers
  <2>2. since <= stamp[d] /\ Accounted(d)
    BY <1>1, <1>2, <2>1 DEF RunKnows, Owed
  <2>3. CASE c \in Asked
    BY <1>2, <2>1, <2>2, <2>3 DEF Accounted, Running, Ahead, OnPage, runVars
  <2>4. CASE c \notin Asked
    <3>1. Asked' \in SUBSET Cve /\ Asked \in SUBSET Asked'
      BY <1>2, <1>4, <2>4 DEF Asked, Results, runVars
    <3>2. Rank(d, Asked) <= Rank(d, Asked')
      BY <3>1, RankGrows
    <3>3. Rank(d, Asked) \in Nat /\ Rank(d, Asked') \in Nat /\ NextStart \in Int
      <4>1. DOMAIN page \in SUBSET Cve
        BY <1>1 DEF Typed, TypeOK
      <4> QED BY <1>1, <3>1, <4>1, RankType, Numbers, Subsets DEF NextStart
    <3>4. Ahead(d) => Ahead(d)'
      BY <1>1, <1>2, <3>2, <3>3, Numbers DEF Ahead, NextStart, runVars
    <3> QED BY <1>2, <2>1, <2>2, <3>4 DEF Accounted, OnPage, runVars
  <2> QED BY <2>1, <2>2, <2>3, <2>4
<1>7. PageFresh'
  BY <1>1, <1>2, <1>3, <1>4 DEF PageFresh, OnPage, Recent, runVars, Typed, TypeOK
<1>8. ImportOld'
  <2> SUFFICES ASSUME NEW d \in DOMAIN import PROVE import[d] <= stamp'[d]
    BY <1>2 DEF ImportOld
  <2>1. import[d] <= stamp[d] /\ d \in Cve /\ import[d] \in Nat
    BY <1>1 DEF ImportOld, Typed, TypeOK, Time
  <2> QED BY <1>1, <1>2, <1>3, <1>4, <2>1, Numbers
<1>9. NothingMissed'
  <2> SUFFICES ASSUME mark # None, NEW d \in Cve, stamp'[d] < mark - Overlap,
                      stored[d] # stamp'[d]
               PROVE d \in excused'
    BY <1>2 DEF NothingMissed
  <2>1. d # c
    BY <1>1, <1>3, <1>4, Numbers
  <2> QED BY <1>1, <1>2, <1>4, <2>1 DEF NothingMissed
<1> QED BY <1>5, <1>6, <1>7, <1>8, <1>9 DEF Inv

(* A run begins where the last watermark, or the look-back, makes it.      *)
LEMMA StartRunInv == Inv /\ StartRun => Inv'
<1> SUFFICES ASSUME Inv, StartRun PROVE Inv'
  OBVIOUS
<1>1. Typed /\ ImportOld /\ NothingMissed
  BY DEF Inv
<1>2. /\ since' = Since /\ until' = Until /\ chunked' \in BOOLEAN
      /\ start' = 0 /\ tries' = 0 /\ page' = Nothing /\ total' = 0
      /\ some' = FALSE /\ gaveUp' = FALSE
      /\ taken' = {} /\ failed' = {} /\ shifted' = FALSE /\ at' = "fetch"
      /\ UNCHANGED <<now, stamp, mods, stored, mark, written, import, faults>>
  BY DEF StartRun, nvdVars, markVars
<1>3. excused' = IF mark = None
                 THEN excused \cup {c \in Cve : stamp[c] < Since /\ stored[c] # stamp[c]}
                 ELSE excused
  BY DEF StartRun
<1>4. Since \in Nat /\ Until \in Nat /\ Since <= now /\ Until <= now
  BY <1>1, Numbers DEF Since, Until, Later, Sooner
<1>5. DOMAIN page' = {} /\ NextStart' = 0
  BY <1>2, NothingEmpty, FS_EmptySet DEF NextStart
<1>6. Typed'
  <2>1. excused' \subseteq Cve
    BY <1>1, <1>3 DEF Typed, TypeOK
  <2>2. since' \in Time /\ until' \in Time
    BY <1>1, <1>2, <1>4, Numbers DEF Time
  <2>3. /\ start' \in 0..Cardinality(Cve) /\ total' \in 0..Cardinality(Cve)
        /\ tries' \in 0..MaxEmpty + 1
    BY <1>1, <1>2, Numbers
  <2>4. TypeOK'
    BY <1>1, <1>2, <1>5, <2>1, <2>2, <2>3 DEF Typed, TypeOK
  <2>5. Bounded'
    BY <1>1, <1>2, <1>4, <1>5, Numbers DEF Typed, Bounded
  <2> QED BY <2>4, <2>5 DEF Typed
<1>7. RunKnows'
  <2> SUFFICES ASSUME NEW c \in Cve, Owed(c)' PROVE since' <= stamp'[c] /\ Accounted(c)'
    BY DEF RunKnows
  <2>1. Since <= stamp[c]
    <3>1. stored[c] # stamp[c] /\ c \notin excused' /\ stamp[c] \in Nat
      BY <1>1, <1>2, Numbers DEF Owed
    <3>2. CASE mark = None
      BY <1>1, <1>3, <1>4, <3>1, <3>2
    <3>3. CASE mark # None
      BY <1>1, <1>3, <3>1, <3>3, Numbers DEF NothingMissed, Since, Later
    <3> QED BY <3>2, <3>3
  <2>2. Rank(c, Asked') \in Nat
    BY RankType DEF Asked, Results
  <2> QED BY <1>2, <2>1, <2>2 DEF Accounted, Ahead
<1>8. PageFresh' /\ ImportOld' /\ NothingMissed'
  BY <1>1, <1>2, <1>3, <1>5 DEF PageFresh, ImportOld, NothingMissed
<1> QED BY <1>6, <1>7, <1>8 DEF Inv

(* A page brings the CVEs next in order; the others are on later ones.     *)
LEMMA FetchPageInv == Inv /\ FetchPage => Inv'
<1> SUFFICES ASSUME Inv, FetchPage PROVE Inv'
  OBVIOUS
<1> DEFINE P == PageAt(start, Asked)
<1>1. Typed /\ RunKnows /\ ImportOld /\ NothingMissed
  BY DEF Inv
<1>2. /\ at = "fetch" /\ at' = "store" /\ tries' = 0
      /\ page' = [c \in P |-> stamp[c]] /\ total' = Cardinality(Asked)
      /\ taken' = taken \cup P
      /\ UNCHANGED <<now, stamp, mods, stored, mark, written, since, until, chunked, start, some,
                     gaveUp, failed, import, shifted, excused, faults>>
  BY DEF FetchPage, Asked, nvdVars, markVars
<1>3. P \in SUBSET Asked /\ P \in SUBSET Cve /\ Asked \in SUBSET Cve /\ Asked' = Asked
  BY <1>1, <1>2, Numbers DEF PageAt, Asked, Results
<1>4. DOMAIN page' = P /\ NextStart' = start + Cardinality(P)
  BY <1>2 DEF NextStart
<1>5. start \in 0..Cardinality(Cve) /\ start \in Nat
  BY <1>1, Numbers DEF Typed, TypeOK
<1>6. NextStart' <= Cardinality(Cve) /\ NextStart' <= start + PageSize /\ NextStart' \in Nat
  <2>1. PageSize \in Nat
    BY WatermarkAssumption
  <2> QED BY <1>3, <1>4, <1>5, <2>1, PageFits, PageSmall, Subsets
<1>7. Typed'
  <2>1. total' \in 0..Cardinality(Cve)
    BY <1>2, <1>3, Subsets
  <2>2. \A c \in DOMAIN page' : page'[c] \in Time
    BY <1>1, <1>2, <1>3, Numbers
  <2>3. taken' \subseteq Cve
    BY <1>1, <1>2, <1>3 DEF Typed, TypeOK
  <2>4. TypeOK'
    BY <1>1, <1>2, <1>3, <1>4, <2>1, <2>2, <2>3, Numbers DEF Typed, TypeOK
  <2>5. Bounded'
    BY <1>1, <1>2, <1>6, Numbers DEF Typed, Bounded
  <2> QED BY <2>4, <2>5 DEF Typed
<1>8. RunKnows'
  <2> SUFFICES ASSUME NEW c \in Cve, Owed(c)', stamp[c] < until - Overlap
               PROVE since <= stamp[c] /\ Accounted(c)'
    BY <1>2 DEF RunKnows
  <2>1. since <= stamp[c] /\ Accounted(c)
    BY <1>1, <1>2 DEF RunKnows, Owed, Running
  <2>2. CASE c \in P
    <3>1. page'[c] = stamp'[c] /\ c \in DOMAIN page'
      BY <1>2, <2>2
    <3> QED BY <2>1, <3>1 DEF Accounted, OnPage
  <2>3. CASE c \notin P
    <3>1. ~OnPage(c) /\ ~gaveUp
      BY <1>1, <1>2 DEF OnPage, Typed, Bounded
    <3>2. c \notin taken => c \notin taken'
      BY <1>2, <2>3
    <3>3. ASSUME Ahead(c) PROVE Ahead(c)'
      <4>1. c \in Asked
        BY <1>1, <2>1, Numbers DEF Asked, Results
      <4>2. Rank(c, Asked) >= start /\ Rank(c, Asked) \in Nat
        BY <1>2, <1>3, <3>3, RankType DEF Ahead
      <4>3. Rank(c, Asked) >= start + PageSize
        BY <1>5, <2>3, <4>1, <4>2, WatermarkAssumption DEF PageAt
      <4>4. Rank(c, Asked) < Cardinality(Asked) /\ Cardinality(Asked) \in Nat
        BY <1>3, <4>1, RankBelow, Subsets
      <4>5. PageSize \in Nat
        BY WatermarkAssumption
      <4> QED BY <1>2, <1>3, <1>5, <1>6, <4>2, <4>3, <4>4, <4>5 DEF Ahead
    <3> QED BY <1>2, <2>1, <3>1, <3>2, <3>3 DEF Accounted
  <2> QED BY <2>1, <2>2, <2>3
<1>9. PageFresh' /\ ImportOld' /\ NothingMissed'
  BY <1>1, <1>2, <1>4 DEF PageFresh, OnPage, ImportOld, NothingMissed
<1> QED BY <1>7, <1>8, <1>9 DEF Inv

LEMMA FetchEmptyInv == Inv /\ FetchEmpty => Inv'
<1> SUFFICES ASSUME Inv, FetchEmpty PROVE Inv'
  OBVIOUS
<1>1. Typed /\ RunKnows /\ PageFresh /\ ImportOld /\ NothingMissed
  BY DEF Inv
<1>2. /\ at = "fetch" /\ tries' = tries + 1 /\ gaveUp' = (tries' > MaxEmpty)
      /\ at' = IF gaveUp' THEN "end" ELSE "fetch"
      /\ faults < MaxFaults /\ faults' = faults + 1
      /\ UNCHANGED <<now, stamp, mods, stored, mark, written, since, until, chunked, start, page,
                     total, some, taken, failed, import, shifted, excused>>
  BY DEF FetchEmpty, Fault, nvdVars, markVars
<1>3. Typed'
  <2>1. /\ tries \in Nat /\ tries <= MaxEmpty /\ MaxEmpty \in Nat
        /\ faults \in Nat /\ MaxFaults \in Nat
    BY <1>1, <1>2, WatermarkAssumption DEF Typed, TypeOK, Bounded
  <2>2. /\ tries' \in 0..MaxEmpty + 1 /\ faults' \in 0..MaxFaults
        /\ gaveUp' \in BOOLEAN /\ (~gaveUp' => tries' <= MaxEmpty)
    <3>1. tries' = tries + 1 /\ faults' = faults + 1 /\ faults < MaxFaults
      BY <1>2
    <3>2. tries' \in 0..MaxEmpty + 1 /\ faults' \in 0..MaxFaults
      BY <2>1, <3>1
    <3>3. ~(tries' > MaxEmpty) => tries' <= MaxEmpty
      BY <2>1, <3>1
    <3>4. (tries' > MaxEmpty) = TRUE \/ (tries' > MaxEmpty) = FALSE
      OBVIOUS
    <3>5. gaveUp' = (tries' > MaxEmpty)
      BY <1>2
    <3> HIDE <1>2
    <3>6. gaveUp' \in BOOLEAN
      BY <3>4, <3>5
    <3>7. ~gaveUp' => ~(tries' > MaxEmpty)
      BY <3>5
    <3> QED BY <3>2, <3>3, <3>6, <3>7
  <2>3. at' \in {"fetch", "end"} /\ (at' = "fetch" => ~gaveUp')
    BY <1>2
  <2>4. TypeOK'
    BY <1>1, <1>2, <2>2, <2>3 DEF Typed, TypeOK
  <2>5. Bounded'
    BY <1>1, <1>2, <2>2, <2>3 DEF Typed, Bounded, NextStart
  <2> QED BY <2>4, <2>5 DEF Typed
<1>4. RunKnows'
  <2> SUFFICES ASSUME NEW c \in Cve, Owed(c)', stamp[c] < until - Overlap
               PROVE since <= stamp[c] /\ Accounted(c)'
    BY <1>2 DEF RunKnows
  <2>1. since <= stamp[c] /\ Accounted(c) /\ ~gaveUp
    BY <1>1, <1>2 DEF RunKnows, Owed, Running, Typed, Bounded
  <2>2. gaveUp' \/ (Ahead(c) => Ahead(c)')
    BY <1>2 DEF Ahead, Asked, Results
  <2> QED BY <1>2, <2>1, <2>2 DEF Accounted, OnPage
<1>5. PageFresh' /\ ImportOld' /\ NothingMissed'
  BY <1>1, <1>2 DEF PageFresh, OnPage, Recent, ImportOld, NothingMissed
<1> QED BY <1>3, <1>4, <1>5 DEF Inv

(* What is stored from a page is what NVD shows, or was modified since and *)
(* lies before the next window.                                            *)
LEMMA StoredOwed ==
  ASSUME Inv, NEW S \in SUBSET DOMAIN page, stored' = Stored(S), NEW c \in Cve,
         stored'[c] # stamp[c], stamp[c] < until - Overlap \/ stamp[c] < mark - Overlap
  PROVE stored[c] # stamp[c] /\ c \notin S
<1>1. Typed /\ PageFresh
  BY DEF Inv
<1>2. c \notin S
  <2> SUFFICES ASSUME c \in S PROVE FALSE
    OBVIOUS
  <2>1. stored'[c] = page[c] /\ c \in DOMAIN page
    BY DEF Stored
  <2>2. Recent(c)
    BY <1>1, <2>1 DEF PageFresh, OnPage
  <2> QED BY <1>1, <2>2, Numbers DEF Recent
<1>3. stored'[c] = stored[c]
  BY <1>2 DEF Stored
<1> QED BY <1>2, <1>3

LEMMA StoredType ==
  ASSUME Inv, NEW S \in SUBSET DOMAIN page
  PROVE Stored(S) \in [Cve -> Time \cup {Missing}]
  BY DEF Inv, Typed, TypeOK, Stored

LEMMA StorePageInv ==
  ASSUME Inv, NEW bad, StorePage(bad)
  PROVE Inv'
<1> DEFINE S == DOMAIN page \ bad
<1>1. Typed /\ RunKnows /\ PageFresh /\ ImportOld /\ NothingMissed
  BY DEF Inv
<1>2. /\ at = "store" /\ bad \subseteq DOMAIN page /\ stored' = Stored(S)
      /\ failed' = failed \cup bad /\ some' = (some \/ DOMAIN page # bad)
      /\ start' = NextStart /\ page' = Nothing
      /\ at' = IF NextStart >= total THEN "end" ELSE "fetch"
      /\ UNCHANGED <<now, stamp, mods, mark, written, since, until, chunked, total, tries, gaveUp,
                     taken, import, shifted, excused>>
  BY DEF StorePage, nvdVars, markVars
<1>3. DOMAIN page' = {} /\ DOMAIN page \in SUBSET Cve /\ S \in SUBSET DOMAIN page
  BY <1>1, <1>2, NothingEmpty DEF Typed, TypeOK
<1>4. NextStart \in 0..Cardinality(Cve) /\ NextStart \in Nat /\ NextStart' = NextStart
  <2>1. Cardinality(DOMAIN page) \in Nat /\ Cardinality(DOMAIN page') = 0
    BY <1>3, Subsets, FS_EmptySet
  <2> QED BY <1>1, <1>2, <2>1, Numbers DEF NextStart, Typed, Bounded
<1>5. Typed'
  <2>1. faults' \in 0..MaxFaults
    <3>1. faults \in 0..MaxFaults /\ MaxFaults \in Nat
      BY <1>1, WatermarkAssumption DEF Typed, TypeOK
    <3>2. faults' = faults \/ (faults < MaxFaults /\ faults' = faults + 1)
      BY DEF StorePage, Fault
    <3> QED BY <3>1, <3>2
  <2>2. stored' \in [Cve -> Time \cup {Missing}]
    BY <1>2, <1>3, StoredType
  <2>3. failed' \subseteq Cve /\ some' \in BOOLEAN
    BY <1>1, <1>2, <1>3 DEF Typed, TypeOK
  <2>4. TypeOK'
    BY <1>1, <1>2, <1>3, <1>4, <2>1, <2>2, <2>3 DEF Typed, TypeOK
  <2>5. Bounded'
    BY <1>1, <1>2, <1>3, <1>4 DEF Typed, Bounded
  <2> QED BY <2>4, <2>5 DEF Typed
<1>6. RunKnows'
  <2> SUFFICES ASSUME NEW c \in Cve, Owed(c)', stamp[c] < until - Overlap
               PROVE since <= stamp[c] /\ Accounted(c)'
    BY <1>2 DEF RunKnows
  <2>1. stored[c] # stamp[c] /\ c \notin S
    BY <1>2, <1>3, StoredOwed DEF Owed
  <2>2. since <= stamp[c] /\ Accounted(c)
    BY <1>1, <1>2, <2>1 DEF RunKnows, Owed, Running
  <2>3. OnPage(c) => c \in bad
    BY <2>1 DEF OnPage
  <2>4. Ahead(c) => Ahead(c)'
    BY <1>1, <1>2, <1>4, Numbers DEF Ahead, Asked, Results
  <2> QED BY <1>2, <2>2, <2>3, <2>4 DEF Accounted
<1>7. PageFresh' /\ ImportOld'
  BY <1>1, <1>2, <1>3 DEF PageFresh, ImportOld
<1>8. NothingMissed'
  <2> SUFFICES ASSUME mark # None, NEW c \in Cve, stamp[c] < mark - Overlap, stored'[c] # stamp[c]
               PROVE c \in excused
    BY <1>2 DEF NothingMissed
  <2> QED BY <1>1, <1>2, <1>3, StoredOwed DEF NothingMissed
<1> QED BY <1>5, <1>6, <1>7, <1>8 DEF Inv

(* A run that is cut short leaves the watermark, and what it stored. *)
LEMMA AbortInv ==
  ASSUME Inv, NEW S, Abort(S)
  PROVE Inv'
<1>1. Typed /\ PageFresh /\ ImportOld /\ NothingMissed
  BY DEF Inv
<1>2. /\ S \subseteq DOMAIN page /\ stored' = Stored(S)
      /\ faults < MaxFaults /\ faults' = faults + 1
      /\ page' = Nothing /\ at' = "idle"
      /\ UNCHANGED <<now, stamp, mods, mark, written, since, until, chunked, start, total, tries,
                     some, gaveUp, taken, failed, import, shifted, excused>>
  BY DEF Abort, Fault, nvdVars, markVars
<1>3. DOMAIN page' = {} /\ DOMAIN page \in SUBSET Cve
  BY <1>1, <1>2, NothingEmpty DEF Typed, TypeOK
<1>4. start \in 0..Cardinality(Cve) /\ NextStart' = start
  <2>1. Cardinality(DOMAIN page') = 0 /\ start \in 0..Cardinality(Cve)
    BY <1>1, <1>3, FS_EmptySet DEF Typed, TypeOK
  <2> QED BY <1>2, <2>1, Numbers DEF NextStart
<1>5. Typed'
  <2>1. faults' \in 0..MaxFaults
    BY <1>1, <1>2, WatermarkAssumption DEF Typed, TypeOK
  <2>2. stored' \in [Cve -> Time \cup {Missing}]
    BY <1>2, StoredType
  <2>3. TypeOK'
    BY <1>1, <1>2, <1>3, <2>1, <2>2 DEF Typed, TypeOK
  <2>4. Bounded'
    BY <1>1, <1>2, <1>3, <1>4 DEF Typed, Bounded
  <2> QED BY <2>3, <2>4 DEF Typed
<1>6. RunKnows' /\ PageFresh' /\ ImportOld'
  BY <1>1, <1>2, <1>3 DEF RunKnows, Running, PageFresh, ImportOld
<1>7. NothingMissed'
  <2> SUFFICES ASSUME mark # None, NEW c \in Cve, stamp[c] < mark - Overlap, stored'[c] # stamp[c]
               PROVE c \in excused
    BY <1>2 DEF NothingMissed
  <2> QED BY <1>1, <1>2, StoredOwed DEF NothingMissed
<1> QED BY <1>5, <1>6, <1>7 DEF Inv

(* A complete run has seen every CVE it asked for, or knows why not. *)
LEMMA EndRunInv == Inv /\ EndRun => Inv'
<1> SUFFICES ASSUME Inv, EndRun PROVE Inv'
  OBVIOUS
<1>1. Typed /\ RunKnows /\ ImportOld /\ NothingMissed /\ DOMAIN page = {}
  BY DEF Inv, Typed, Bounded, EndRun
<1>2. /\ at = "end" /\ at' = "sync"
      /\ UNCHANGED <<now, stamp, mods, stored, since, until, chunked, start, page, total, tries,
                     some, gaveUp, taken, failed, import, shifted, faults>>
  BY DEF EndRun, nvdVars, runVars
<1>3. \/ /\ mark' = Later(mark, until) /\ written' = now
         /\ excused' = excused \cup {c \in PassedOver : stamp[c] < until - Overlap}
      \/ UNCHANGED <<mark, written, excused>>
  BY DEF EndRun, markVars
<1>4. mark' \in {mark, until} /\ mark' \in Time \cup {None} /\ mark' <= now
  BY <1>1, <1>3, Numbers DEF Later, Typed, TypeOK
<1>5. Typed'
  <2>1. PassedOver \subseteq Cve
    BY <1>1 DEF PassedOver, Results, Typed, TypeOK
  <2>2. excused' \subseteq Cve /\ written' \in Time
    BY <1>1, <1>3, <2>1 DEF Typed, TypeOK
  <2>3. TypeOK'
    BY <1>1, <1>2, <1>4, <2>2 DEF Typed, TypeOK
  <2>4. Bounded'
    BY <1>1, <1>2, <1>4 DEF Typed, Bounded, NextStart
  <2> QED BY <2>3, <2>4 DEF Typed
<1>6. RunKnows' /\ PageFresh' /\ ImportOld'
  BY <1>1, <1>2 DEF RunKnows, Running, PageFresh, ImportOld
<1>7. NothingMissed'
  <2> SUFFICES ASSUME mark' # None, NEW c \in Cve, stamp[c] < mark' - Overlap,
                      stored[c] # stamp[c], c \notin excused'
               PROVE FALSE
    BY <1>2 DEF NothingMissed
  <2>1. Owed(c)
    BY <1>3 DEF Owed
  <2>2. mark' # mark
    BY <1>1, <2>1 DEF NothingMissed, Owed
  <2>3. /\ mark' = until /\ stamp[c] < until - Overlap
        /\ excused' = excused \cup {d \in PassedOver : stamp[d] < until - Overlap}
    BY <1>3, <1>4, <2>2
  <2>4. since <= stamp[c] /\ Accounted(c) /\ ~OnPage(c) /\ ~Ahead(c)
    BY <1>1, <1>2, <2>1, <2>3 DEF RunKnows, Running, OnPage, Ahead
  <2>5. c \in Results(since, until)
    BY <1>1, <2>3, <2>4, Numbers DEF Results
  <2>6. c \in PassedOver
    BY <2>4, <2>5 DEF Accounted, PassedOver
  <2> QED BY <2>3, <2>6
<1> QED BY <1>5, <1>6, <1>7 DEF Inv

(* The other steps: an empty window, the publication passes, the clock,    *)
(* the maintenance and a search.                                           *)
LEMMA SkipRunInv == Inv /\ SkipRun => Inv'
<1> SUFFICES ASSUME Inv, SkipRun PROVE Inv'
  OBVIOUS
<1>1. /\ at = "idle" /\ at' = "sync"
      /\ UNCHANGED <<now, stamp, mods, stored, mark, written, since, until, chunked, start, page,
                     total, tries, some, gaveUp, taken, failed, import, shifted, excused, faults>>
  BY DEF SkipRun, nvdVars, markVars, runVars
<1>2. Typed'
  <2>1. TypeOK'
    BY <1>1 DEF Inv, Typed, TypeOK
  <2>2. Bounded'
    BY <1>1 DEF Inv, Typed, Bounded, NextStart
  <2> QED BY <2>1, <2>2 DEF Typed
<1> QED BY <1>1, <1>2 DEF Inv, RunKnows, Running, PageFresh, OnPage, Recent, ImportOld, NothingMissed

LEMMA SyncPublishedInv ==
  ASSUME Inv, NEW S, SyncPublished(S)
  PROVE Inv'
<1>1. /\ at = "sync" /\ at' = "idle"
      /\ stored' = [c \in Cve |-> IF c \in S THEN stamp[c] ELSE stored[c]]
      /\ UNCHANGED <<now, stamp, mods, mark, written, since, until, chunked, start, page,
                     total, tries, some, gaveUp, taken, failed, import, shifted, excused, faults>>
  BY DEF SyncPublished, nvdVars, markVars, runVars
<1>2. Typed'
  <2>1. stored' \in [Cve -> Time \cup {Missing}]
    BY <1>1 DEF Inv, Typed, TypeOK
  <2>2. TypeOK'
    BY <1>1, <2>1 DEF Inv, Typed, TypeOK
  <2>3. Bounded'
    BY <1>1 DEF Inv, Typed, Bounded, NextStart
  <2> QED BY <2>2, <2>3 DEF Typed
<1>3. NothingMissed'
  BY <1>1 DEF Inv, NothingMissed
<1> QED BY <1>1, <1>2, <1>3 DEF Inv, RunKnows, Running, PageFresh, OnPage, Recent, ImportOld

LEMMA TickInv == Inv /\ Tick => Inv'
<1> SUFFICES ASSUME Inv, Tick PROVE Inv'
  OBVIOUS
<1>1. /\ now < MaxNow /\ now' = now + 1
      /\ UNCHANGED <<stamp, mods, stored, mark, written, at, since, until, chunked, start, page,
                     total, tries, some, gaveUp, taken, failed, import, shifted, excused, faults>>
  BY DEF Tick, nvdVars, markVars, runVars
<1>2. Typed
  BY DEF Inv
<1>3. now' \in Time /\ mark <= now' /\ until <= now'
  BY <1>1, <1>2, Numbers DEF Time
<1>4. Typed'
  <2>1. TypeOK'
    BY <1>1, <1>2, <1>3 DEF Typed, TypeOK
  <2>2. Bounded'
    BY <1>1, <1>2, <1>3 DEF Typed, Bounded, NextStart
  <2> QED BY <2>1, <2>2 DEF Typed
<1>5. RunKnows'
  BY <1>1 DEF Inv, RunKnows, Running, Owed, Accounted, OnPage, Ahead, Asked, Results, NextStart
<1> QED BY <1>1, <1>4, <1>5 DEF Inv, PageFresh, OnPage, Recent, ImportOld, NothingMissed

LEMMA PruneAuditInv == Inv /\ PruneAudit => Inv'
<1> SUFFICES ASSUME Inv, PruneAudit PROVE Inv'
  OBVIOUS
<1>1. /\ mark' = None /\ written' = 0
      /\ UNCHANGED <<now, stamp, mods, stored, at, since, until, chunked, start, page,
                     total, tries, some, gaveUp, taken, failed, import, shifted, excused, faults>>
  BY DEF PruneAudit, nvdVars, runVars
<1>2. Typed
  BY DEF Inv
<1>3. mark' \in Time \cup {None} /\ written' \in Time /\ mark' <= now /\ mark' <= mark
  BY <1>1, <1>2, Numbers DEF Time, None
<1>4. Typed'
  <2>1. TypeOK'
    BY <1>1, <1>2, <1>3 DEF Typed, TypeOK
  <2>2. Bounded'
    BY <1>1, <1>2, <1>3 DEF Typed, Bounded, NextStart
  <2> QED BY <2>1, <2>2 DEF Typed
<1>5. RunKnows'
  BY <1>1 DEF Inv, RunKnows, Running, Owed, Accounted, OnPage, Ahead, Asked, Results, NextStart
<1>6. PageFresh'
  <2>1. \A c \in DOMAIN page : stamp[c] \in Nat
    BY <1>2, Numbers DEF Typed, TypeOK
  <2>2. \A c \in DOMAIN page : Recent(c) => Recent(c)'
    BY <1>1, <1>2, <1>3, <2>1, Numbers DEF Recent, None
  <2> QED BY <1>1, <2>2 DEF Inv, PageFresh, OnPage
<1> QED BY <1>1, <1>4, <1>5, <1>6 DEF Inv, ImportOld, NothingMissed

LEMMA ImportFetchInv ==
  ASSUME Inv, NEW c \in Cve, ImportFetch(c)
  PROVE Inv'
<1>1. /\ import' = [d \in DOMAIN import \cup {c} |-> IF d = c THEN stamp[c] ELSE import[d]]
      /\ UNCHANGED <<now, stamp, mods, stored, mark, written, at, since, until, chunked, start, page,
                     total, tries, some, gaveUp, taken, failed, shifted, excused, faults>>
  BY DEF ImportFetch, nvdVars, markVars, runVars
<1>2. Typed /\ ImportOld
  BY DEF Inv
<1>3. DOMAIN import' \subseteq Cve /\ ImportOld' /\ \A d \in DOMAIN import' : import'[d] \in Time
  <2>1. DOMAIN import' = DOMAIN import \cup {c}
    BY <1>1
  <2>2. import'[c] = stamp[c] /\ \A d \in DOMAIN import : d # c => import'[d] = import[d]
    BY <1>1
  <2>3. stamp[c] \in Time /\ stamp[c] <= stamp[c]
    BY <1>2, Numbers
  <2> QED BY <1>1, <1>2, <2>1, <2>2, <2>3 DEF ImportOld, Typed, TypeOK
<1>4. Typed'
  <2>1. TypeOK'
    BY <1>1, <1>2, <1>3 DEF Typed, TypeOK
  <2>2. Bounded'
    BY <1>1, <1>2 DEF Typed, Bounded, NextStart
  <2> QED BY <2>1, <2>2 DEF Typed
<1>5. RunKnows'
  BY <1>1 DEF Inv, RunKnows, Running, Owed, Accounted, OnPage, Ahead, Asked, Results, NextStart
<1> QED BY <1>1, <1>3, <1>4, <1>5 DEF Inv, PageFresh, OnPage, Recent, NothingMissed

(* An import that puts an older version over a newer one is excused; it    *)
(* never makes a CVE owed.                                                 *)
LEMMA ImportStoreInv ==
  ASSUME Inv, NEW c \in Cve, ImportStore(c)
  PROVE Inv'
<1>1. /\ c \in DOMAIN import /\ stored' = [stored EXCEPT ![c] = import[c]]
      /\ import' = [d \in DOMAIN import \ {c} |-> import[d]]
      /\ excused' = IF import[c] < stored[c] THEN excused \cup {c} ELSE excused
      /\ UNCHANGED <<now, stamp, mods, mark, written, at, since, until, chunked, start, page,
                     total, tries, some, gaveUp, taken, failed, shifted, faults>>
  BY DEF ImportStore, nvdVars, markVars, runVars
<1>2. Typed /\ ImportOld /\ RunKnows /\ NothingMissed
  BY DEF Inv
<1>3. import[c] \in Time /\ import[c] <= stamp[c] /\ import[c] \in Nat /\ stamp[c] \in Nat
  BY <1>1, <1>2, Numbers DEF ImportOld, Typed, TypeOK, Time
<1>4. DOMAIN import' \subseteq Cve /\ ImportOld' /\ \A d \in DOMAIN import' : import'[d] \in Time
  BY <1>1, <1>2 DEF ImportOld, Typed, TypeOK
<1>5. Typed'
  <2>1. stored' \in [Cve -> Time \cup {Missing}] /\ excused' \subseteq Cve
    BY <1>1, <1>2, <1>3 DEF Typed, TypeOK
  <2>2. TypeOK'
    BY <1>1, <1>2, <1>4, <2>1 DEF Typed, TypeOK
  <2>3. Bounded'
    BY <1>1, <1>2 DEF Typed, Bounded, NextStart
  <2> QED BY <2>2, <2>3 DEF Typed
<1>6. ASSUME NEW d \in Cve, Owed(d)' PROVE Owed(d)
  <2>1. CASE d # c
    BY <1>1, <1>2, <1>6, <2>1 DEF Owed, Typed, TypeOK
  <2>2. CASE d = c
    <3>1. import[c] # stamp[c] /\ c \notin excused'
      BY <1>1, <1>2, <1>6, <2>2 DEF Owed, Typed, TypeOK
    <3>2. c \notin excused /\ ~(import[c] < stored[c])
      BY <1>1, <3>1
    <3>3. stored[c] # stamp[c]
      BY <1>3, <3>1, <3>2
    <3> QED BY <2>2, <3>2, <3>3 DEF Owed
  <2> QED BY <2>1, <2>2
<1>7. RunKnows'
  BY <1>1, <1>2, <1>6 DEF RunKnows, Running, Accounted, OnPage, Ahead, Asked, Results, NextStart
<1>8. NothingMissed'
  <2> SUFFICES ASSUME mark # None, NEW d \in Cve, stamp[d] < mark - Overlap, Owed(d)'
               PROVE FALSE
    BY <1>1 DEF NothingMissed, Owed
  <2> QED BY <1>2, <1>6 DEF NothingMissed, Owed
<1> QED BY <1>1, <1>4, <1>5, <1>7, <1>8 DEF Inv, PageFresh, OnPage, Recent

-----------------------------------------------------------------------------
(* The theorems. *)

LEMMA NextInv == Inv /\ [Next]_vars => Inv'
<1> SUFFICES ASSUME Inv, [Next]_vars PROVE Inv'
  OBVIOUS
<1>1. CASE Run
  BY <1>1, StartRunInv, SkipRunInv, FetchPageInv, EndRunInv, StorePageInv, SyncPublishedInv DEF Run
<1>2. CASE FetchEmpty \/ PruneAudit \/ Tick
  BY <1>2, FetchEmptyInv, PruneAuditInv, TickInv
<1>3. CASE \E S \in SUBSET Cve : Abort(S) \/ (S # {} /\ StorePage(S))
  BY <1>3, AbortInv, StorePageInv
<1>4. CASE \E c \in Cve : ImportFetch(c) \/ ImportStore(c) \/ (\E t \in Time : Modify(c, t))
  BY <1>4, ImportFetchInv, ImportStoreInv, ModifyInv
<1>5. CASE UNCHANGED vars
  <2>1. TypeOK'
    BY <1>5 DEF vars, Inv, Typed, TypeOK
  <2>2. Bounded'
    BY <1>5 DEF vars, Inv, Typed, Bounded, NextStart
  <2>3. RunKnows'
    BY <1>5 DEF vars, Inv, RunKnows, Running, Owed, Accounted, OnPage, Ahead, Asked, Results,
                NextStart
  <2> QED BY <1>5, <2>1, <2>2, <2>3
      DEF vars, Inv, Typed, PageFresh, OnPage, Recent, ImportOld, NothingMissed
<1> QED BY <1>1, <1>2, <1>3, <1>4, <1>5 DEF Next

LEMMA AlwaysInv == Spec => []Inv
  BY InitInv, NextInv, PTL DEF Spec

(* Every offset, total, version and time stays in its range: in particular *)
(* no startIndex runs past the number of CVEs.                             *)
THEOREM WatermarkTypeCorrect == Spec => []TypeOK
<1>1. Inv => TypeOK
  BY DEF Inv, Typed
<1> QED BY <1>1, AlwaysInv, PTL

(* runOnce, nvd-ingest.job.ts: what lies before the start of the next      *)
(* window is in the database, or was passed over for a known reason,       *)
(* whatever NVD changes while the run pages through it.                    *)
THEOREM MissesNothing == Spec => []NothingMissed
<1>1. Inv => NothingMissed
  BY DEF Inv
<1> QED BY <1>1, AlwaysInv, PTL
=============================================================================
