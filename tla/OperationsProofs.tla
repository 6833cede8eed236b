------------------------- MODULE OperationsProofs -------------------------
(***************************************************************************)
(* What TLAPS proves of the components that run side by side in            *)
(* Operations: for each of them its inductive invariant, that every step   *)
(* of the component keeps it, and the safety property it implies.          *)
(*                                                                         *)
(* The sections are alike: names for the variables of the part, the        *)
(* invariant, one lemma for each action or family of actions, the lemma    *)
(* that puts them together, and the theorems.                              *)
(***************************************************************************)
EXTENDS Operations, SequenceTheorems, FiniteSetTheorems, WellFoundedInduction, TLAPS

-----------------------------------------------------------------------------
(* Publication.                                                            *)
(*                                                                         *)
(* A run has settled what the bytes it publishes are before anything       *)
(* points at them, and what it replaces was kept first, so every name it   *)
(* may write stands for a whole build that is already on disk.             *)
lane    == x1
kept    == x2
pointer == x3
served  == x4
publisher == x5
upload  == x6
USE DEF lane, kept, pointer, served, publisher, upload

Named == P!Pairs \cup {P!None}
Names == Named \cup {P!Broken}
Files == [apk : Names, manifest : Names]
TargetSteps == {"place", "history", "check", "swap"}
LateMobile == {"check", "apk", "manifest", "undo_apk", "undo_manifest"}
MobileSteps == {"place", "keep"} \cup LateMobile
Jobs == [pc : {"idle"} \cup TargetSteps \cup MobileSteps, cand : Named, bytes : Named,
         at : P!Directories, first : [P!Mobiles -> Files], old : Named]

PublicationTypes ==
  /\ kept \in [P!Directories -> [Builds -> Takes \cup {0}]]
  /\ pointer \in Named /\ served \in [P!Mobiles -> Files] /\ publisher \in Jobs
  /\ upload \in {"none", "read", "unread"}

(* A run of the lane's publisher, or none.                                  *)
LaneInOrder ==
  /\ \/ lane = "target" /\ publisher.pc \in {"idle"} \cup TargetSteps /\ publisher.at = P!Target
     \/ /\ lane = "mobile" /\ pointer = P!None
        /\ \/ publisher.pc = "idle" /\ publisher.at = P!Target
           \/ publisher.pc \in MobileSteps /\ publisher.at \in P!Mobiles
  /\ publisher.pc # "idle" => publisher.cand \in P!Pairs /\ publisher.bytes = publisher.cand

IsKept(d, p) == kept[d][p[1]] = p[2]

(* The Target run has decided for an upgrade, kept its firmware, and before *)
(* the swap seen the pointer it had read.                                   *)
TargetInOrder ==
  lane = "target" =>
    /\ publisher.pc # "idle" =>
         publisher.old = publisher.cand \/ P!Upgrade(publisher.old, publisher.cand)
    /\ publisher.pc \in {"history", "check", "swap"} =>
         publisher.old # publisher.cand /\ IsKept(P!Target, publisher.cand)
    /\ publisher.pc = "swap" => pointer = publisher.old

(* The mobile run: the directory it has not come to is as it was, the one   *)
(* it is through with serves the candidate, and the one it is in is as it   *)
(* has left it, if no upload has come over it.                              *)
Undisturbed == publisher.at = "fallback" \/ upload = "none"

AsLeft ==
  /\ publisher.pc \in {"place", "keep", "check", "apk"} => served[publisher.at] = P!First
  /\ publisher.pc = "manifest" =>
       served[publisher.at].apk = publisher.bytes /\ served[publisher.at].manifest = P!First.manifest
  /\ publisher.pc \in {"undo_apk", "undo_manifest"} =>
       /\ served[publisher.at].apk \in {P!First.apk, publisher.bytes}
       /\ served[publisher.at].manifest \in {P!First.manifest, publisher.cand}

MobileInOrder ==
  (lane = "mobile" /\ publisher.pc # "idle") =>
    /\ \A d \in P!Mobiles : P!Publishable(publisher.first[d], publisher.cand)
    /\ publisher.at = "fallback" =>
         upload # "read" /\ (upload = "none" => served["primary"] = publisher.first["primary"])
    /\ publisher.at = "primary" => served["fallback"] = P!Pair(publisher.cand)
    /\ Undisturbed => AsLeft
    /\ publisher.pc = "apk" /\ upload # "unread" => served[publisher.at].manifest = P!First.manifest
    /\ publisher.pc \in LateMobile =>
         P!First.manifest # publisher.cand /\ (P!ValidPair(P!First) => IsKept(publisher.at, P!First.apk))
    /\ publisher.pc \in {"keep"} \cup LateMobile => IsKept(publisher.at, publisher.bytes)
    /\ publisher.pc \in {"undo_apk", "undo_manifest"} => P!ValidPair(P!First)

PublicationInv ==
  /\ PublicationTypes /\ LaneInOrder /\ TargetInOrder /\ MobileInOrder /\ P!PointerHasItsArtifact

LEMMA PairFacts ==
  ASSUME NEW p \in P!Pairs
  PROVE  /\ p = <<p[1], p[2]>> /\ p[1] \in Builds /\ p[2] \in Takes
         /\ p[1] \in Nat /\ p[1] > 0 /\ p # P!None /\ p # P!Broken
<1>1. Builds \subseteq Nat \ {0}
  BY PartsAssumption DEF P!BuildsAssumption
<1>2. PICK b \in Builds, t \in Takes : p = <<b, t>>
  BY DEF P!Pairs
<1>3. p[1] = b /\ p[2] = t /\ P!None[1] = 0 /\ P!Broken[1] = 0
  BY <1>2 DEF P!None, P!Broken
<1>. QED  BY <1>1, <1>2, <1>3

LEMMA NameFacts ==
  ASSUME NEW p \in Names
  PROVE  /\ p[1] \in Nat
         /\ p \notin {P!None, P!Broken} <=> p \in P!Pairs
         /\ p \in P!Pairs => p[1] > 0
         /\ p \in Named /\ p # P!None => p \in P!Pairs
<1>1. CASE p \in P!Pairs
  BY <1>1, PairFacts
<1>2. CASE p = P!None
  BY <1>2, PairFacts DEF P!None, Named
<1>3. CASE p = P!Broken
  <2>1. p[1] = 0 /\ p # P!None
    BY <1>3 DEF P!Broken, P!None
  <2>. QED  BY <1>3, <2>1, PairFacts DEF Named
<1>. QED  BY <1>1, <1>2, <1>3 DEF Names, Named

(* The same, once a step is taken.                                          *)
KeptThen(d, p) == kept'[d][p[1]] = p[2]
FilesStay == \A d \in P!Directories, p \in P!Pairs : IsKept(d, p) => KeptThen(d, p)
KeptTyped == kept' \in [P!Directories -> [Builds -> Takes \cup {0}]]

(* An immutable file that is put, or left as it is found.                   *)
LEMMA PlacedStays ==
  ASSUME PublicationTypes, NEW d \in P!Directories, NEW p \in P!Pairs,
         P!Placeable(d, p), kept' = P!Placed(d, p)
  PROVE  KeptTyped /\ KeptThen(d, p) /\ FilesStay
<1>1. /\ p[1] \in Builds /\ p[2] \in Takes
      /\ kept[d][p[1]] \in {0, p[2]}
      /\ kept' = [kept EXCEPT ![d][p[1]] = p[2]]
  BY PairFacts DEF P!Placeable, P!Placed, P!Number, P!Take
<1>2. KeptTyped
  BY <1>1 DEF KeptTyped, PublicationTypes
<1>3. KeptThen(d, p)
  BY <1>1 DEF KeptThen, PublicationTypes
<1>4. FilesStay
  <2> SUFFICES ASSUME NEW e \in P!Directories, NEW q \in P!Pairs, kept[e][q[1]] = q[2]
               PROVE  kept'[e][q[1]] = q[2]
    BY DEF FilesStay, IsKept, KeptThen
  <2>1. q[1] \in Builds /\ q[2] \in Takes /\ q[2] # 0
    BY PairFacts, PartsAssumption DEF P!BuildsAssumption
  <2>2. CASE e = d /\ q[1] = p[1]
    BY <1>1, <2>1, <2>2 DEF PublicationTypes
  <2>3. CASE ~(e = d /\ q[1] = p[1])
    BY <1>1, <2>1, <2>3 DEF PublicationTypes
  <2>. QED  BY <2>2, <2>3
<1>. QED  BY <1>2, <1>3, <1>4

(* A pointer that is not written still has its artifact.                    *)
LEMMA PointerStays ==
  ASSUME PublicationInv, FilesStay, pointer' = pointer
  PROVE  P!PointerHasItsArtifact'
<1> SUFFICES ASSUME pointer # P!None  PROVE KeptThen(P!Target, pointer)
  BY DEF P!PointerHasItsArtifact, KeptThen, P!Number, P!Take
<1>1. pointer \in P!Pairs
  BY DEF PublicationInv, PublicationTypes, Named
<1>2. IsKept(P!Target, pointer)
  BY DEF PublicationInv, P!PointerHasItsArtifact, IsKept, P!Number, P!Take
<1>. QED  BY <1>1, <1>2 DEF FilesStay, P!Directories

LEMMA NothingIsServed == P!None \in Named /\ P!Nothing \in Files /\ P!Idle \in Jobs
  BY DEF Named, Names, Files, P!Nothing, P!Idle, Jobs, P!Directories

LEMMA PublicationInit == P!Init => PublicationInv
<1> SUFFICES ASSUME P!Init  PROVE PublicationInv
  OBVIOUS
<1>1. /\ kept = [d \in P!Directories |-> [b \in Builds |-> 0]] /\ pointer = P!None
      /\ served \in [P!Mobiles -> {P!Nothing} \cup {P!Pair(p) : p \in P!Pairs}]
      /\ publisher = P!Idle /\ publisher.pc = "idle" /\ publisher.at = P!Target
      /\ upload = "none"
      /\ lane \in {"target", "mobile"}
  BY DEF P!Init, P!Idle
<1>2. {P!Nothing} \cup {P!Pair(p) : p \in P!Pairs} \subseteq Files
  BY NothingIsServed DEF Files, Names, Named, P!Pair
<1>3. PublicationTypes
  BY <1>1, <1>2, NothingIsServed DEF PublicationTypes
<1>. QED
  BY <1>1, <1>3
  DEF PublicationInv, LaneInOrder, TargetInOrder, MobileInOrder, P!PointerHasItsArtifact

(* A run that ends leaves what the steps before it have made.               *)
LEMMA AtRest ==
  ASSUME PublicationInv, lane' = lane, publisher' = P!Idle, KeptTyped,
         served' \in [P!Mobiles -> Files], pointer' \in Named,
         lane = "mobile" => pointer' = P!None, P!PointerHasItsArtifact',
         upload' \in {"none", "read", "unread"}
  PROVE  PublicationInv'
<1>1. publisher'.pc = "idle" /\ publisher'.at = P!Target
  BY DEF P!Idle
<1>2. PublicationTypes'
  BY NothingIsServed DEF PublicationTypes, KeptTyped
<1>3. lane \in {"target", "mobile"}
  BY DEF PublicationInv, LaneInOrder
<1>4. LaneInOrder' /\ TargetInOrder' /\ MobileInOrder'
  BY <1>1, <1>3 DEF LaneInOrder, TargetInOrder, MobileInOrder
<1>. QED  BY <1>2, <1>4 DEF PublicationInv

(* The Target run.                                                          *)

(* What holds of a Target run that goes on.                                 *)
LEMMA TargetGoesOn ==
  ASSUME PublicationInv, lane = "target", UNCHANGED <<lane, served, upload>>, KeptTyped,
         pointer' \in Named, P!PointerHasItsArtifact',
         publisher' \in Jobs, publisher'.pc \in TargetSteps, publisher'.at = P!Target,
         publisher'.cand \in P!Pairs, publisher'.bytes = publisher'.cand, TargetInOrder'
  PROVE  PublicationInv'
<1>1. PublicationTypes'
  BY DEF PublicationInv, PublicationTypes, KeptTyped
<1>2. LaneInOrder' /\ MobileInOrder'
  BY DEF LaneInOrder, MobileInOrder
<1>. QED  BY <1>1, <1>2 DEF PublicationInv

LEMMA TargetBegins ==
  ASSUME PublicationInv, P!BeginTarget  PROVE PublicationInv'
<1>1. PICK h \in P!Handed :
        /\ h.bytes = h.manifest
        /\ pointer = h.manifest \/ P!Upgrade(pointer, h.manifest)
        /\ publisher' = [P!Idle EXCEPT !.pc = "place", !.cand = h.manifest,
                                       !.bytes = h.bytes, !.old = pointer]
  BY DEF P!BeginTarget, P!Bound
<1>2. h.manifest \in P!Pairs /\ pointer \in Named /\ lane = "target"
      /\ UNCHANGED <<lane, kept, pointer, served, upload>>
  BY DEF P!BeginTarget, P!Handed, PublicationInv, PublicationTypes
<1>3. publisher' = [pc |-> "place", cand |-> h.manifest, bytes |-> h.manifest, at |-> P!Target,
                    first |-> [d \in P!Mobiles |-> P!Nothing], old |-> pointer]
  BY <1>1 DEF P!Idle
<1>4. publisher' \in Jobs
  BY <1>2, <1>3, NothingIsServed DEF Jobs, Named, TargetSteps, P!Directories
<1>5. TargetInOrder'
  BY <1>1, <1>2, <1>3 DEF TargetInOrder, P!Upgrade, P!Number
<1>6. KeptTyped /\ P!PointerHasItsArtifact'
  BY <1>2 DEF KeptTyped, P!PointerHasItsArtifact, PublicationInv, PublicationTypes
<1>. QED  BY <1>2, <1>3, <1>4, <1>5, <1>6, TargetGoesOn DEF TargetSteps

(* The run that a step of the Target finds.                                 *)
LEMMA TargetRuns ==
  ASSUME PublicationInv, lane = "target", publisher.pc # "idle"
  PROVE  /\ publisher \in Jobs /\ publisher.pc \in TargetSteps /\ publisher.at = P!Target
         /\ publisher.cand \in P!Pairs /\ publisher.bytes = publisher.cand
         /\ publisher.old \in Named /\ pointer \in Named /\ P!Target \in P!Directories
         /\ served \in [P!Mobiles -> Files] /\ lane # "mobile"
         /\ upload \in {"none", "read", "unread"}
<1>1. publisher \in Jobs /\ publisher.old \in Named
  BY DEF PublicationInv, PublicationTypes, Jobs
<1>. QED  BY <1>1 DEF PublicationInv, PublicationTypes, LaneInOrder, P!Directories

LEMMA ArtifactPlaced ==
  ASSUME PublicationInv, P!PlaceArtifact  PROVE PublicationInv'
<1>1. /\ lane = "target" /\ publisher.pc = "place" /\ P!Placeable(P!Target, publisher.bytes)
      /\ kept' = P!Placed(P!Target, publisher.bytes)
      /\ publisher' = IF publisher.old = publisher.cand THEN P!Idle ELSE [publisher EXCEPT !.pc = "history"]
      /\ UNCHANGED <<lane, pointer, served, upload>>
  BY DEF P!PlaceArtifact
<1>2. KeptTyped /\ KeptThen(P!Target, publisher.cand) /\ FilesStay
  BY <1>1, TargetRuns, PlacedStays DEF PublicationInv
<1>3. P!PointerHasItsArtifact'
  BY <1>1, <1>2, PointerStays
<1>4. CASE publisher.old = publisher.cand
  BY <1>1, <1>2, <1>3, <1>4, AtRest, TargetRuns
<1>5. CASE publisher.old # publisher.cand
  <2>1. /\ publisher' \in Jobs /\ publisher'.pc = "history" /\ publisher'.at = P!Target
        /\ publisher'.cand = publisher.cand /\ publisher'.bytes = publisher.cand
        /\ publisher'.old = publisher.old
    BY <1>1, <1>5, TargetRuns DEF Jobs, TargetSteps
  <2>2. TargetInOrder'
    BY <1>1, <1>2, <1>5, <2>1 DEF TargetInOrder, PublicationInv, IsKept, KeptThen, P!Upgrade, P!Number
  <2>. QED  BY <1>1, <1>2, <1>3, <2>1, <2>2, TargetRuns, TargetGoesOn DEF TargetSteps
<1>. QED  BY <1>4, <1>5

LEMMA ManifestsPlaced ==
  ASSUME PublicationInv, P!PlaceManifests  PROVE PublicationInv'
<1>1. /\ lane = "target" /\ publisher.pc = "history" /\ P!Placeable(P!History, publisher.cand)
      /\ UNCHANGED <<lane, pointer, served, upload>>
  BY DEF P!PlaceManifests
<1>2. P!History \in P!Directories /\ P!Target \in P!Directories /\ P!History # P!Target
  BY DEF P!Directories, P!History, P!Target
<1>3. CASE kept' = P!Placed(P!History, publisher.cand) /\ publisher' = P!Idle
  <2>1. KeptTyped /\ FilesStay
    BY <1>1, <1>2, <1>3, TargetRuns, PlacedStays DEF PublicationInv
  <2>. QED  BY <1>1, <1>3, <2>1, PointerStays, AtRest, TargetRuns
<1>4. CASE /\ kept' = [kept EXCEPT ![P!History] =
                         [b \in Builds |-> IF b = P!Number(publisher.cand) THEN P!Take(publisher.cand)
                                           ELSE IF b = P!Number(publisher.old) THEN P!Take(publisher.old)
                                           ELSE @[b]]]
           /\ publisher' = [publisher EXCEPT !.pc = "check"]
  <2>1. /\ publisher.cand[2] \in Takes
        /\ publisher.old # P!None => publisher.old[2] \in Takes
        /\ publisher.old = P!None => \A b \in Builds : b # publisher.old[1]
    BY <1>1, TargetRuns, PairFacts, NameFacts, PartsAssumption DEF P!None, P!BuildsAssumption, Names
  <2>2. DEFINE row == [b \in Builds |-> IF b = publisher.cand[1] THEN publisher.cand[2]
                                        ELSE IF b = publisher.old[1] THEN publisher.old[2]
                                        ELSE kept[P!History][b]]
  <2>3. row \in [Builds -> Takes \cup {0}]
    BY <1>2, <2>1 DEF PublicationInv, PublicationTypes
  <2>4. kept' = [kept EXCEPT ![P!History] = row]
    BY <1>4 DEF P!Number, P!Take
  <2> HIDE DEF row
  <2>5. KeptTyped /\ kept'[P!Target] = kept[P!Target]
    BY <1>2, <2>3, <2>4 DEF KeptTyped, PublicationInv, PublicationTypes
  <2>6. P!PointerHasItsArtifact'
    BY <1>1, <2>5 DEF PublicationInv, P!PointerHasItsArtifact
  <2>7. /\ publisher' \in Jobs /\ publisher'.pc = "check" /\ publisher'.at = P!Target
        /\ publisher'.cand = publisher.cand /\ publisher'.bytes = publisher.cand
        /\ publisher'.old = publisher.old
    BY <1>1, <1>4, TargetRuns DEF Jobs, TargetSteps
  <2>8. TargetInOrder'
    BY <1>1, <2>5, <2>7 DEF TargetInOrder, PublicationInv, IsKept, P!Upgrade, P!Number
  <2>. QED  BY <1>1, <2>5, <2>6, <2>7, <2>8, TargetRuns, TargetGoesOn DEF TargetSteps
<1>. QED  BY <1>3, <1>4 DEF P!PlaceManifests

LEMMA PointerChecked ==
  ASSUME PublicationInv, P!CheckPointer  PROVE PublicationInv'
<1>1. /\ lane = "target" /\ publisher.pc = "check" /\ UNCHANGED <<lane, kept, pointer, served, upload>>
      /\ publisher' = IF publisher.old = pointer THEN [publisher EXCEPT !.pc = "swap"] ELSE P!Idle
  BY DEF P!CheckPointer, P!StillThere
<1>2. KeptTyped /\ P!PointerHasItsArtifact'
  BY <1>1 DEF KeptTyped, P!PointerHasItsArtifact, PublicationInv, PublicationTypes
<1>3. CASE publisher.old # pointer
  BY <1>1, <1>2, <1>3, AtRest, TargetRuns
<1>4. CASE publisher.old = pointer
  <2>1. /\ publisher' \in Jobs /\ publisher'.pc = "swap" /\ publisher'.at = P!Target
        /\ publisher'.cand = publisher.cand /\ publisher'.bytes = publisher.cand
        /\ publisher'.old = publisher.old
    BY <1>1, <1>4, TargetRuns DEF Jobs, TargetSteps
  <2>2. TargetInOrder'
    BY <1>1, <1>4, <2>1 DEF TargetInOrder, PublicationInv, IsKept, P!Upgrade, P!Number
  <2>. QED  BY <1>1, <1>2, <2>1, <2>2, TargetRuns, TargetGoesOn DEF TargetSteps
<1>. QED  BY <1>3, <1>4

LEMMA PointerSwapped ==
  ASSUME PublicationInv, P!SwapPointer  PROVE PublicationInv'
<1>1. /\ lane = "target" /\ publisher.pc = "swap" /\ UNCHANGED <<lane, kept, served, upload>>
      /\ pointer' \in {pointer, publisher.cand} /\ publisher' = P!Idle
  BY DEF P!SwapPointer
<1>2. KeptTyped /\ IsKept(P!Target, publisher.cand)
  BY <1>1 DEF KeptTyped, PublicationInv, PublicationTypes, TargetInOrder
<1>3. P!PointerHasItsArtifact'
  BY <1>1, <1>2 DEF P!PointerHasItsArtifact, IsKept, PublicationInv, P!Number, P!Take
<1>4. pointer' \in Named
  BY <1>1, TargetRuns DEF Named
<1>. QED  BY <1>1, <1>2, <1>3, <1>4, AtRest, TargetRuns

(* The mobile run.                                                          *)

LEMMA MobileRuns ==
  ASSUME PublicationInv, lane = "mobile", publisher.pc # "idle"
  PROVE  /\ publisher \in Jobs /\ publisher.pc \in MobileSteps /\ publisher.at \in P!Mobiles
         /\ publisher.cand \in P!Pairs /\ publisher.bytes = publisher.cand
         /\ publisher.first \in [P!Mobiles -> Files] /\ P!First \in Files
         /\ served \in [P!Mobiles -> Files] /\ P!Mobiles \subseteq P!Directories
         /\ pointer = P!None /\ pointer \in Named
         /\ upload \in {"none", "read", "unread"}
<1>1. publisher \in Jobs /\ publisher.first \in [P!Mobiles -> Files]
  BY DEF PublicationInv, PublicationTypes, Jobs
<1>2. publisher.at \in P!Mobiles
  BY DEF PublicationInv, LaneInOrder
<1>. QED
  BY <1>1, <1>2 DEF PublicationInv, PublicationTypes, LaneInOrder, P!Directories, P!First

(* What the preflight has let through.                                      *)
LEMMA FirstFacts ==
  ASSUME PublicationInv, lane = "mobile", publisher.pc # "idle"
  PROVE  /\ P!ValidPair(P!First) => P!First.apk \in P!Pairs /\ P!First = P!Pair(P!First.apk)
         /\ P!First.manifest = publisher.cand => P!ValidPair(P!First) /\ P!First = P!Pair(publisher.cand)
<1>1. P!First \in Files /\ P!First.apk \in Names /\ P!First.manifest \in Names
  BY MobileRuns DEF Files
<1>2. P!First = [apk |-> P!First.apk, manifest |-> P!First.manifest]
  BY <1>1 DEF Files
<1>3. P!Publishable(P!First, publisher.cand)
  BY MobileRuns DEF PublicationInv, MobileInOrder, P!First
<1>4. publisher.cand # P!None /\ publisher.cand[1] \in Nat
  BY MobileRuns, PairFacts
<1>5. P!First.manifest = publisher.cand => P!ValidPair(P!First)
  BY <1>3, <1>4 DEF P!Publishable, P!Upgrade, P!Number
<1>. QED  BY <1>1, <1>2, <1>5, NameFacts DEF P!ValidPair, P!Pair

LEMMA PairIsFiles == ASSUME NEW p \in P!Pairs  PROVE P!Pair(p) \in Files
  BY DEF P!Pair, Files, Names, Named

LEMMA MobileGoesOn ==
  ASSUME PublicationInv, lane = "mobile", UNCHANGED <<lane, pointer>>, KeptTyped,
         served' \in [P!Mobiles -> Files], upload' \in {"none", "read", "unread"},
         publisher' \in Jobs, publisher'.pc \in MobileSteps, publisher'.at \in P!Mobiles,
         publisher'.cand \in P!Pairs, publisher'.bytes = publisher'.cand, MobileInOrder'
  PROVE  PublicationInv'
<1>1. PublicationTypes'
  BY DEF PublicationInv, PublicationTypes, KeptTyped
<1>2. LaneInOrder' /\ TargetInOrder' /\ P!PointerHasItsArtifact'
  BY DEF PublicationInv, LaneInOrder, TargetInOrder, P!PointerHasItsArtifact
<1>. QED  BY <1>1, <1>2 DEF PublicationInv

LEMMA MobileEnds ==
  ASSUME PublicationInv, lane = "mobile", publisher.pc # "idle", UNCHANGED <<lane, pointer>>,
         KeptTyped, served' \in [P!Mobiles -> Files], publisher' = P!Idle,
         upload' \in {"none", "read", "unread"}
  PROVE  PublicationInv'
  BY MobileRuns, AtRest DEF P!PointerHasItsArtifact

(* One directory serves the candidate: the next one, or the end.            *)
LEMMA RootIsDone ==
  ASSUME PublicationInv, lane = "mobile", publisher.pc # "idle", UNCHANGED <<lane, pointer, upload>>,
         KeptTyped, served' \in [P!Mobiles -> Files],
         publisher.at = "fallback" => served'["fallback"] = P!Pair(publisher.cand),
         \A d \in P!Mobiles : d # publisher.at => served'[d] = served[d],
         publisher' = P!NextRoot
  PROVE  PublicationInv'
<1>1. CASE publisher.at # "fallback"
  BY <1>1, MobileEnds, MobileRuns DEF P!NextRoot
<1>2. CASE publisher.at = "fallback"
  <2>1. publisher' = [publisher EXCEPT !.pc = "place", !.at = "primary"]
    BY <1>2 DEF P!NextRoot
  <2>2. /\ publisher' \in Jobs /\ publisher'.pc = "place" /\ publisher'.at = "primary"
        /\ publisher'.cand = publisher.cand /\ publisher'.bytes = publisher.bytes
        /\ publisher'.first = publisher.first /\ P!First' = publisher.first["primary"]
    BY <2>1, MobileRuns DEF Jobs, P!Directories, P!Mobiles, MobileSteps, P!First
  <2>3. upload = "none" => served'["primary"] = publisher.first["primary"]
    BY <1>2 DEF PublicationInv, MobileInOrder, P!Mobiles
  <2>4. \A d \in P!Mobiles : P!Publishable(publisher'.first[d], publisher'.cand)
    BY <2>2 DEF PublicationInv, MobileInOrder
  <2>5. Undisturbed' => AsLeft'
    BY <2>2, <2>3 DEF Undisturbed, AsLeft
  <2>6. served'["fallback"] = P!Pair(publisher'.cand)
    BY <1>2, <2>2 DEF P!Pair
  <2>7. MobileInOrder'
    BY <2>2, <2>4, <2>5, <2>6
    DEF MobileInOrder, P!Publishable, P!Upgrade, P!ValidPair, P!Number, P!Pair, LateMobile
  <2>. QED  BY <2>2, <2>7, MobileRuns, MobileGoesOn DEF MobileSteps, P!Mobiles
<1>. QED  BY <1>1, <1>2

LEMMA MobileBegins ==
  ASSUME PublicationInv, P!BeginMobile  PROVE PublicationInv'
<1>1. PICK h \in P!Handed :
        /\ h.bytes = h.manifest
        /\ \A d \in P!Mobiles : P!Publishable(served[d], h.manifest)
        /\ publisher' = [P!Idle EXCEPT !.pc = "place", !.cand = h.manifest, !.bytes = h.bytes,
                                       !.at = "fallback", !.first = served]
  BY DEF P!BeginMobile, P!Bound, P!BothRootsPass
<1>2. h.manifest \in P!Pairs /\ lane = "mobile" /\ UNCHANGED <<lane, kept, pointer, served>>
      /\ upload' = "none" /\ served \in [P!Mobiles -> Files]
  BY DEF P!BeginMobile, P!Handed, PublicationInv, PublicationTypes
<1>3. publisher' = [pc |-> "place", cand |-> h.manifest, bytes |-> h.manifest, at |-> "fallback",
                    first |-> served, old |-> P!None]
  BY <1>1 DEF P!Idle
<1>4. publisher' \in Jobs
  BY <1>2, <1>3 DEF Jobs, Named, MobileSteps, P!Directories, P!Mobiles
<1>5. MobileInOrder'
  BY <1>1, <1>2, <1>3
  DEF MobileInOrder, Undisturbed, AsLeft, P!First, P!Publishable, P!Upgrade, P!ValidPair, P!Number, LateMobile
<1>6. KeptTyped
  BY <1>2 DEF KeptTyped, PublicationInv, PublicationTypes
<1>. QED  BY <1>2, <1>3, <1>4, <1>5, <1>6, MobileGoesOn DEF MobileSteps, P!Mobiles

(* The next step of the run, in the directory it is in.                     *)
LEMMA MobileMoves ==
  ASSUME PublicationInv, lane = "mobile", publisher.pc # "idle", NEW s \in MobileSteps,
         publisher' = [publisher EXCEPT !.pc = s]
  PROVE  /\ publisher' \in Jobs /\ publisher'.pc = s /\ publisher'.at = publisher.at
         /\ publisher'.cand = publisher.cand /\ publisher'.bytes = publisher.bytes
         /\ publisher'.first = publisher.first /\ P!First' = P!First
<1>1. publisher \in Jobs
  BY MobileRuns
<1>. QED  BY <1>1 DEF Jobs, P!First

LEMMA CandidatePlaced ==
  ASSUME PublicationInv, P!PlaceCandidate  PROVE PublicationInv'
<1>1. /\ lane = "mobile" /\ publisher.pc = "place" /\ P!Placeable(publisher.at, publisher.bytes)
      /\ kept' = P!Placed(publisher.at, publisher.bytes)
      /\ publisher' = [publisher EXCEPT !.pc = "keep"] /\ UNCHANGED <<lane, pointer, served, upload>>
  BY DEF P!PlaceCandidate
<1>2. KeptTyped /\ KeptThen(publisher.at, publisher.bytes)
  BY <1>1, MobileRuns, PlacedStays DEF PublicationInv
<1>3. publisher' \in Jobs /\ publisher'.pc = "keep" /\ publisher'.at = publisher.at
      /\ publisher'.cand = publisher.cand /\ publisher'.bytes = publisher.bytes
      /\ publisher'.first = publisher.first /\ P!First' = P!First
  BY <1>1, MobileMoves DEF MobileSteps
<1>4. MobileInOrder'
  BY <1>1, <1>2, <1>3
  DEF PublicationInv, MobileInOrder, Undisturbed, AsLeft, LateMobile, IsKept, KeptThen, P!Publishable,
      P!Upgrade, P!ValidPair, P!Number, P!Pair
<1>. QED  BY <1>1, <1>2, <1>3, <1>4, MobileRuns, MobileGoesOn DEF MobileSteps

LEMMA PreviousKept ==
  ASSUME PublicationInv, P!KeepPrevious  PROVE PublicationInv'
<1>1. /\ lane = "mobile" /\ publisher.pc = "keep"
      /\ P!ValidPair(P!First) => P!Placeable(publisher.at, P!First.apk)
      /\ kept' = IF P!ValidPair(P!First) THEN P!Placed(publisher.at, P!First.apk) ELSE kept
      /\ publisher' = IF P!First.manifest = publisher.cand THEN P!NextRoot
                                                           ELSE [publisher EXCEPT !.pc = "check"]
      /\ UNCHANGED <<lane, pointer, served, upload>>
  BY DEF P!KeepPrevious
<1>2. KeptTyped /\ FilesStay /\ (P!ValidPair(P!First) => KeptThen(publisher.at, P!First.apk))
  <2>1. CASE P!ValidPair(P!First)
    BY <1>1, <2>1, FirstFacts, MobileRuns, PlacedStays DEF PublicationInv
  <2>2. CASE ~P!ValidPair(P!First)
    BY <1>1, <2>2 DEF KeptTyped, FilesStay, IsKept, KeptThen, PublicationInv, PublicationTypes
  <2>. QED  BY <2>1, <2>2
<1>3. publisher.at = "fallback" => served["fallback"] = P!First
  BY <1>1 DEF PublicationInv, MobileInOrder, Undisturbed, AsLeft
<1>4. CASE P!First.manifest = publisher.cand
  BY <1>1, <1>2, <1>3, <1>4, FirstFacts, MobileRuns, RootIsDone
<1>5. CASE P!First.manifest # publisher.cand
  <2>1. publisher' \in Jobs /\ publisher'.pc = "check" /\ publisher'.at = publisher.at
        /\ publisher'.cand = publisher.cand /\ publisher'.bytes = publisher.bytes
        /\ publisher'.first = publisher.first /\ P!First' = P!First
    BY <1>1, <1>5, MobileMoves DEF MobileSteps, LateMobile
  <2>2. KeptThen(publisher.at, publisher.bytes)
    BY <1>1, <1>2, MobileRuns DEF PublicationInv, MobileInOrder, FilesStay
  <2>3. MobileInOrder'
    BY <1>1, <1>2, <1>5, <2>1, <2>2
    DEF PublicationInv, MobileInOrder, Undisturbed, AsLeft, LateMobile, IsKept, KeptThen, P!Publishable,
        P!Upgrade, P!ValidPair, P!Number, P!Pair
  <2>. QED  BY <1>1, <1>2, <2>1, <2>3, MobileRuns, MobileGoesOn DEF MobileSteps, LateMobile
<1>. QED  BY <1>4, <1>5

(* Between the two files of a directory: they are the first pair's or the   *)
(* candidate's, and both of those are kept.                                 *)
HalfWay(s) ==
  /\ Undisturbed => /\ s[publisher.at].apk \in {P!First.apk, publisher.bytes}
                    /\ s[publisher.at].manifest \in {P!First.manifest, publisher.cand}
  /\ \A d \in P!Mobiles : d # publisher.at => s[d] = served[d]

(* A fixed file of the directory is renamed, or is not.                     *)
LEMMA RenamedFiles ==
  ASSUME PublicationInv, lane = "mobile", publisher.pc \in LateMobile,
         NEW p \in Names,
         \/ p \in {P!First.apk, publisher.bytes} /\ served' = [served EXCEPT ![publisher.at].apk = p]
         \/ p \in {P!First.manifest, publisher.cand} /\ served' = [served EXCEPT ![publisher.at].manifest = p]
         \/ served' = served
  PROVE  /\ served' \in [P!Mobiles -> Files] /\ HalfWay(served')
         /\ \/ /\ served'[publisher.at].apk = p /\ served'[publisher.at].manifest = served[publisher.at].manifest
               /\ served' = [served EXCEPT ![publisher.at].apk = p]
            \/ /\ served'[publisher.at].manifest = p /\ served'[publisher.at].apk = served[publisher.at].apk
               /\ served' = [served EXCEPT ![publisher.at].manifest = p]
            \/ served' = served
<1>1. publisher.at \in P!Mobiles /\ served \in [P!Mobiles -> Files] /\ publisher.pc # "idle"
  BY MobileRuns DEF LateMobile
<1>2. served[publisher.at] \in Files
  BY <1>1
<1>3. Undisturbed => /\ served[publisher.at].apk \in {P!First.apk, publisher.bytes}
                    /\ served[publisher.at].manifest \in {P!First.manifest, publisher.cand}
  BY DEF PublicationInv, MobileInOrder, AsLeft, LateMobile
<1>4. CASE p \in {P!First.apk, publisher.bytes} /\ served' = [served EXCEPT ![publisher.at].apk = p]
  <2>1. served'[publisher.at] = [served[publisher.at] EXCEPT !.apk = p]
        /\ (\A d \in P!Mobiles : d # publisher.at => served'[d] = served[d]) /\ DOMAIN served' = P!Mobiles
    BY <1>1, <1>4
  <2>2. served'[publisher.at].apk = p /\ served'[publisher.at].manifest = served[publisher.at].manifest
        /\ served'[publisher.at] \in Files
    BY <1>2, <2>1 DEF Files
  <2>3. served' \in [P!Mobiles -> Files]
    BY <1>1, <1>4, <2>1, <2>2
  <2>. QED  BY <1>3, <1>4, <2>1, <2>2, <2>3 DEF HalfWay
<1>5. CASE p \in {P!First.manifest, publisher.cand} /\ served' = [served EXCEPT ![publisher.at].manifest = p]
  <2>1. served'[publisher.at] = [served[publisher.at] EXCEPT !.manifest = p]
        /\ (\A d \in P!Mobiles : d # publisher.at => served'[d] = served[d]) /\ DOMAIN served' = P!Mobiles
    BY <1>1, <1>5
  <2>2. served'[publisher.at].manifest = p /\ served'[publisher.at].apk = served[publisher.at].apk
        /\ served'[publisher.at] \in Files
    BY <1>2, <2>1 DEF Files
  <2>3. served' \in [P!Mobiles -> Files]
    BY <1>1, <1>5, <2>1, <2>2
  <2>. QED  BY <1>3, <1>5, <2>1, <2>2, <2>3 DEF HalfWay
<1>6. CASE served' = served
  BY <1>1, <1>3, <1>6 DEF HalfWay
<1>. QED  BY <1>4, <1>5, <1>6

(* A run that goes on to another of the late steps.                         *)
LEMMA LateGoesOn ==
  ASSUME PublicationInv, lane = "mobile", publisher.pc \in LateMobile, UNCHANGED <<lane, kept, pointer, upload>>,
         served' \in [P!Mobiles -> Files], HalfWay(served'),
         NEW s \in {"manifest", "undo_apk", "undo_manifest"}, publisher' = [publisher EXCEPT !.pc = s],
         (s = "manifest" /\ Undisturbed) => /\ served'[publisher.at].apk = publisher.bytes
                                            /\ served'[publisher.at].manifest = P!First.manifest,
         s # "manifest" => P!ValidPair(P!First)
  PROVE  PublicationInv'
<1>1. publisher' \in Jobs /\ publisher'.pc = s /\ publisher'.at = publisher.at
      /\ publisher'.cand = publisher.cand /\ publisher'.bytes = publisher.bytes
      /\ publisher'.first = publisher.first /\ P!First' = P!First
  BY MobileMoves DEF MobileSteps, LateMobile
<1>2. /\ publisher.at = "fallback" =>
           upload # "read" /\ (upload = "none" => served'["primary"] = publisher.first["primary"])
      /\ publisher.at = "primary" => served'["fallback"] = P!Pair(publisher.cand)
      /\ \A d \in P!Mobiles : P!Publishable(publisher.first[d], publisher.cand)
      /\ P!First.manifest # publisher.cand /\ (P!ValidPair(P!First) => IsKept(publisher.at, P!First.apk))
      /\ IsKept(publisher.at, publisher.bytes)
  <2>1. "fallback" \in P!Mobiles /\ "primary" \in P!Mobiles /\ publisher.pc # "idle"
    BY DEF P!Mobiles, LateMobile
  <2>2. /\ publisher.at = "fallback" => served'["primary"] = served["primary"]
        /\ publisher.at = "primary" => served'["fallback"] = served["fallback"]
    BY <2>1 DEF HalfWay
  <2>. QED  BY <2>1, <2>2 DEF PublicationInv, MobileInOrder
<1>3. \A d \in P!Mobiles : P!Publishable(publisher.first[d], publisher.cand)'
  BY <1>1, <1>2 DEF P!Publishable, P!Upgrade, P!ValidPair, P!Number
<1>4. /\ IsKept(publisher.at, publisher.bytes)'
      /\ P!ValidPair(P!First) => IsKept(publisher.at, P!First.apk)'
      /\ P!ValidPair(P!First)' <=> P!ValidPair(P!First)
      /\ P!Pair(publisher.cand)' = P!Pair(publisher.cand)
  BY <1>1, <1>2 DEF IsKept, P!ValidPair, P!Pair
<1>5. Undisturbed' => AsLeft'
  BY <1>1 DEF Undisturbed, AsLeft, HalfWay
<1>6. MobileInOrder'
  BY <1>1, <1>2, <1>3, <1>4, <1>5 DEF MobileInOrder, LateMobile
<1>7. KeptTyped /\ upload \in {"none", "read", "unread"}
  BY DEF KeptTyped, PublicationInv, PublicationTypes
<1>. QED  BY <1>1, <1>6, <1>7, MobileRuns, MobileGoesOn DEF MobileSteps, LateMobile

(* A rename that fails: the first pair is put back if it was a valid one.   *)
LEMMA RollsBack ==
  ASSUME PublicationInv, lane = "mobile", publisher.pc \in LateMobile, UNCHANGED <<lane, kept, pointer, upload>>,
         served' \in [P!Mobiles -> Files], HalfWay(served'),
         publisher' \in {P!Rollback, P!Idle}
  PROVE  PublicationInv'
<1>1. KeptTyped /\ publisher.pc # "idle" /\ upload \in {"none", "read", "unread"}
  BY DEF KeptTyped, PublicationInv, PublicationTypes, LateMobile
<1>2. CASE publisher' = P!Idle
  BY <1>1, <1>2, MobileEnds
<1>3. CASE publisher' = [publisher EXCEPT !.pc = "undo_apk"] /\ P!ValidPair(P!First)
  BY <1>3, LateGoesOn
<1>. QED  BY <1>2, <1>3 DEF P!Rollback

LEMMA LateNames ==
  ASSUME PublicationInv, lane = "mobile", publisher.pc \in LateMobile
  PROVE  /\ publisher.bytes \in Names /\ publisher.cand \in Names
         /\ P!First.apk \in Names /\ P!First.manifest \in Names
         /\ publisher.at \in P!Mobiles /\ served \in [P!Mobiles -> Files] /\ P!First \in Files
         /\ publisher.pc # "idle" /\ publisher.bytes = publisher.cand
<1>1. P!First \in Files /\ publisher.cand \in P!Pairs /\ publisher.bytes = publisher.cand
  BY MobileRuns DEF LateMobile
<1>. QED  BY <1>1, MobileRuns DEF Files, Names, Named, LateMobile

LEMMA ApkPromoted ==
  ASSUME PublicationInv, P!PromoteApk  PROVE PublicationInv'
<1>1. /\ lane = "mobile" /\ publisher.pc = "apk" /\ UNCHANGED <<lane, kept, pointer, upload>>
      /\ \/ /\ served' = [served EXCEPT ![publisher.at].apk = publisher.bytes]
            /\ publisher' = [publisher EXCEPT !.pc = "manifest"]
         \/ /\ served' \in {served, [served EXCEPT ![publisher.at].apk = publisher.bytes]}
            /\ publisher' = P!Rollback
  BY DEF P!PromoteApk, P!Rename
<1>2. publisher.pc \in LateMobile
  BY <1>1 DEF LateMobile
<1>3. served' \in [P!Mobiles -> Files] /\ HalfWay(served')
  BY <1>1, <1>2, LateNames, RenamedFiles
<1>4. CASE publisher' = P!Rollback
  BY <1>1, <1>2, <1>3, <1>4, RollsBack
<1>5. CASE /\ served' = [served EXCEPT ![publisher.at].apk = publisher.bytes]
           /\ publisher' = [publisher EXCEPT !.pc = "manifest"]
  <2>1. Undisturbed => served[publisher.at] = P!First
    BY <1>1 DEF PublicationInv, MobileInOrder, AsLeft
  <2>2. Undisturbed => served'[publisher.at] = [P!First EXCEPT !.apk = publisher.bytes]
    BY <1>1, <1>2, <1>5, <2>1, LateNames
  <2>3. Undisturbed => /\ served'[publisher.at].apk = publisher.bytes
                       /\ served'[publisher.at].manifest = P!First.manifest
    BY <1>1, <1>2, <2>2, LateNames DEF Files
  <2>. QED  BY <1>1, <1>2, <1>3, <1>5, <2>3, LateGoesOn
<1>. QED  BY <1>1, <1>4, <1>5

LEMMA ManifestPromoted ==
  ASSUME PublicationInv, P!PromoteManifest  PROVE PublicationInv'
<1>1. /\ lane = "mobile" /\ publisher.pc = "manifest" /\ UNCHANGED <<lane, kept, pointer, upload>>
      /\ \/ /\ served' = [served EXCEPT ![publisher.at].manifest = publisher.cand]
            /\ publisher' = P!NextRoot
         \/ /\ served' \in {served, [served EXCEPT ![publisher.at].manifest = publisher.cand]}
            /\ publisher' = P!Rollback
  BY DEF P!PromoteManifest, P!Rename
<1>2. publisher.pc \in LateMobile
  BY <1>1 DEF LateMobile
<1>3. served' \in [P!Mobiles -> Files] /\ HalfWay(served')
  BY <1>1, <1>2, LateNames, RenamedFiles
<1>4. CASE publisher' = P!Rollback
  BY <1>1, <1>2, <1>3, <1>4, RollsBack
<1>5. CASE /\ served' = [served EXCEPT ![publisher.at].manifest = publisher.cand]
           /\ publisher' = P!NextRoot
  <2>1. (publisher.at = "fallback" => served[publisher.at].apk = publisher.cand)
        /\ served[publisher.at] \in Files
    BY <1>1, <1>2, LateNames DEF PublicationInv, MobileInOrder, Undisturbed, AsLeft
  <2>2. served'[publisher.at] = [served[publisher.at] EXCEPT !.manifest = publisher.cand]
    BY <1>1, <1>2, <1>5, LateNames
  <2>3. publisher.at = "fallback" => served'["fallback"] = P!Pair(publisher.cand)
    BY <2>1, <2>2 DEF P!Pair, Files
  <2>4. KeptTyped
    BY <1>1 DEF KeptTyped, PublicationInv, PublicationTypes
  <2>. QED  BY <1>1, <1>2, <1>3, <1>5, <2>3, <2>4, LateNames, RootIsDone DEF HalfWay
<1>. QED  BY <1>1, <1>4, <1>5

LEMMA ApkUndone ==
  ASSUME PublicationInv, P!UndoApk  PROVE PublicationInv'
<1>1. /\ lane = "mobile" /\ publisher.pc = "undo_apk" /\ UNCHANGED <<lane, kept, pointer, upload>>
      /\ served' \in {served, [served EXCEPT ![publisher.at].apk = P!First.apk]}
      /\ publisher' \in {P!Idle, [publisher EXCEPT !.pc = "undo_manifest"]}
  BY DEF P!UndoApk, P!Rename
<1>2. publisher.pc \in LateMobile /\ P!ValidPair(P!First)
  BY <1>1 DEF LateMobile, PublicationInv, MobileInOrder
<1>3. served' \in [P!Mobiles -> Files] /\ HalfWay(served')
  BY <1>1, <1>2, LateNames, RenamedFiles
<1>. QED  BY <1>1, <1>2, <1>3, LateGoesOn, RollsBack

LEMMA ManifestUndone ==
  ASSUME PublicationInv, P!UndoManifest  PROVE PublicationInv'
<1>1. /\ lane = "mobile" /\ publisher.pc = "undo_manifest" /\ UNCHANGED <<lane, kept, pointer, upload>>
      /\ served' \in {served, [served EXCEPT ![publisher.at].manifest = P!First.manifest]}
      /\ publisher' = P!Idle
  BY DEF P!UndoManifest, P!Rename
<1>2. publisher.pc \in LateMobile
  BY <1>1 DEF LateMobile
<1>3. served' \in [P!Mobiles -> Files] /\ HalfWay(served')
  BY <1>1, <1>2, LateNames, RenamedFiles
<1>. QED  BY <1>1, <1>2, <1>3, RollsBack

(* The second reading: an upload it has seen has not changed the manifest.  *)
LEMMA ManifestChecked ==
  ASSUME PublicationInv, P!CheckManifest  PROVE PublicationInv'
<1>1. /\ lane = "mobile" /\ publisher.pc = "check" /\ UNCHANGED <<lane, kept, pointer, served>>
      /\ publisher' = IF served[publisher.at].manifest = P!First.manifest
                      THEN [publisher EXCEPT !.pc = "apk"] ELSE P!Idle
      /\ upload' = IF publisher.at = "primary" /\ upload = "unread" THEN "read" ELSE upload
  BY DEF P!CheckManifest, P!SameManifest
<1>2. /\ KeptTyped /\ served' \in [P!Mobiles -> Files] /\ upload' \in {"none", "read", "unread"}
      /\ publisher.pc \in LateMobile
  BY <1>1 DEF KeptTyped, PublicationInv, PublicationTypes, LateMobile
<1>3. CASE publisher' = P!Idle
  BY <1>1, <1>2, <1>3, MobileEnds
<1>4. CASE served[publisher.at].manifest = P!First.manifest /\ publisher' = [publisher EXCEPT !.pc = "apk"]
  <2>1. publisher' \in Jobs /\ publisher'.pc = "apk" /\ publisher'.at = publisher.at
        /\ publisher'.cand = publisher.cand /\ publisher'.bytes = publisher.bytes
        /\ publisher'.first = publisher.first /\ P!First' = P!First
    BY <1>1, <1>4, MobileMoves DEF MobileSteps, LateMobile
  <2>2. publisher.at = "fallback" => upload' = upload
    BY <1>1
  <2>3. Undisturbed' => Undisturbed
    BY <1>1, <2>1 DEF Undisturbed
  <2>4. Undisturbed' => AsLeft'
    BY <1>1, <2>1, <2>3 DEF PublicationInv, MobileInOrder, AsLeft
  <2>5. MobileInOrder'
    BY <1>1, <1>2, <1>4, <2>1, <2>2, <2>4
    DEF PublicationInv, MobileInOrder, LateMobile, IsKept, P!Publishable, P!Upgrade, P!ValidPair, P!Number,
        P!Pair
  <2>. QED  BY <1>1, <1>2, <2>1, <2>5, MobileRuns, MobileGoesOn DEF MobileSteps, LateMobile
<1>. QED  BY <1>1, <1>3, <1>4

(* An upload leaves the fallback directory alone.                           *)
LEMMA Uploaded ==
  ASSUME PublicationInv, P!Upload  PROVE PublicationInv'
<1>1. lane = "mobile" /\ upload' = "unread" /\ UNCHANGED <<lane, kept, pointer, publisher>>
  BY DEF P!Upload
<1>2. PICK apk \in Names, manifest \in Names :
        served' = [served EXCEPT !["primary"] = [apk |-> apk, manifest |-> manifest]]
  <2>1. PICK p \in Released :
          \E apk \in {served["primary"].apk, P!Broken, p},
             manifest \in {served["primary"].manifest, P!Broken, p} :
               served' = [served EXCEPT !["primary"] = [apk |-> apk, manifest |-> manifest]]
    BY DEF P!Upload
  <2>2. p \in Names /\ P!Broken \in Names
    BY PartsAssumption DEF P!BuildsAssumption, Names, Named, P!Pairs
  <2>3. served["primary"].apk \in Names /\ served["primary"].manifest \in Names
    BY DEF PublicationInv, PublicationTypes, P!Mobiles, Files
  <2>. QED  BY <2>1, <2>2, <2>3
<1>3. served' \in [P!Mobiles -> Files] /\ served'["fallback"] = served["fallback"]
  BY <1>2 DEF PublicationInv, PublicationTypes, P!Mobiles, Files
<1>4. PublicationTypes' /\ LaneInOrder' /\ TargetInOrder' /\ P!PointerHasItsArtifact'
  BY <1>1, <1>3
  DEF PublicationInv, PublicationTypes, LaneInOrder, TargetInOrder, P!PointerHasItsArtifact
<1>5. publisher.pc # "idle" => publisher.at \in P!Mobiles
  BY <1>1 DEF PublicationInv, LaneInOrder
<1>6. (publisher.pc # "idle" /\ publisher.at = "fallback") => AsLeft'
  BY <1>1, <1>3 DEF PublicationInv, MobileInOrder, Undisturbed, AsLeft, P!First
<1>7. MobileInOrder'
  BY <1>1, <1>3, <1>5, <1>6
  DEF PublicationInv, MobileInOrder, Undisturbed, LateMobile, IsKept, P!Publishable, P!Upgrade, P!ValidPair,
      P!Number, P!Pair, P!First, P!Mobiles
<1>. QED  BY <1>4, <1>7 DEF PublicationInv

LEMMA JobStops ==
  ASSUME PublicationInv, P!Stop  PROVE PublicationInv'
<1>1. publisher.pc # "idle" /\ publisher' = P!Idle /\ UNCHANGED <<lane, kept, pointer, served, upload>>
  BY DEF P!Stop
<1>2. KeptTyped /\ P!PointerHasItsArtifact' /\ served' \in [P!Mobiles -> Files] /\ pointer' \in Named
      /\ (lane = "mobile" => pointer' = P!None) /\ upload' \in {"none", "read", "unread"}
  BY <1>1 DEF KeptTyped, P!PointerHasItsArtifact, PublicationInv, PublicationTypes, LaneInOrder
<1>. QED  BY <1>1, <1>2, AtRest

LEMMA PublicationStep ==
  ASSUME PublicationInv, [P!Next]_P!vars  PROVE PublicationInv'
<1>1. CASE UNCHANGED P!vars
  BY <1>1
  DEF P!vars, PublicationInv, PublicationTypes, LaneInOrder, TargetInOrder, MobileInOrder, IsKept,
      Undisturbed, AsLeft, P!PointerHasItsArtifact, P!First
<1>. QED
  BY <1>1, TargetBegins, ArtifactPlaced, ManifestsPlaced, PointerChecked, PointerSwapped,
     MobileBegins, CandidatePlaced, PreviousKept, ManifestChecked, ApkPromoted, ManifestPromoted, ApkUndone,
     ManifestUndone, Uploaded, JobStops DEF P!Next

LEMMA PublicationAlways == Spec => [](part = "publication" => PublicationInv)
<1>1. Init => (part = "publication" => PublicationInv)
  BY PublicationInit DEF Init
<1>2. (part = "publication" => PublicationInv) /\ [Next]_vars => (part = "publication" => PublicationInv)'
  <2> SUFFICES ASSUME part = "publication" => PublicationInv, [Next]_vars, part' = "publication"
               PROVE  PublicationInv'
    OBVIOUS
  <2>1. part = "publication" /\ [P!Next]_P!vars
    BY DEF Next, vars, P!vars
  <2>. QED  BY <2>1, PublicationStep
<1>. QED  BY <1>1, <1>2, PTL DEF Spec

LEMMA PublicationSafe == ASSUME PublicationInv  PROVE P!PublishedIsWhole
<1>1. P!OneEndpointServes
  <2> SUFFICES ASSUME publisher.at \in P!Mobiles, \A d \in P!Mobiles : P!ValidPair(publisher.first[d]),
                      upload = "none" \/ publisher.at = "primary"
               PROVE  \E d \in P!Mobiles : P!ValidPair(served[d])
    BY DEF P!OneEndpointServes
  <2>1. lane = "mobile" /\ publisher.pc # "idle"
    BY DEF PublicationInv, LaneInOrder, P!Mobiles, P!Target, MobileSteps, LateMobile
  <2>2. "fallback" \in P!Mobiles /\ "primary" \in P!Mobiles
    BY DEF P!Mobiles
  <2>3. CASE publisher.at = "fallback"
    BY <2>1, <2>2, <2>3 DEF PublicationInv, MobileInOrder
  <2>4. CASE publisher.at = "primary"
    <3>1. P!ValidPair(P!Pair(publisher.cand))
      BY <2>1, MobileRuns, PairFacts DEF P!ValidPair, P!Pair
    <3>. QED  BY <2>1, <2>2, <2>4, <3>1 DEF PublicationInv, MobileInOrder
  <2>. QED  BY <2>3, <2>4 DEF P!Mobiles
<1>. QED  BY <1>1 DEF PublicationInv, P!PublishedIsWhole

(* Whoever reads the Target directory or the two mobile directories finds a *)
(* whole build: the pointer's firmware with the bytes its manifest names,   *)
(* and one valid mobile pair (publish_target_sftp, publish_mobile_sftp of   *)
(* ota_contract_gate.py).                                                   *)
THEOREM PublishedAlwaysWhole == Spec => []PublishedIsWhole
<1>1. (part = "publication" => PublicationInv) => PublishedIsWhole
  BY PublicationSafe DEF PublishedIsWhole
<1>. QED  BY <1>1, PublicationAlways, PTL

LEMMA PointerMoves == ASSUME PublicationInv, P!Next  PROVE P!PointerForward
<1> SUFFICES ASSUME pointer' # pointer  PROVE P!Number(pointer') > P!Number(pointer)
  BY DEF P!PointerForward
<1>1. CASE P!SwapPointer
  <2>1. /\ lane = "target" /\ publisher.pc = "swap" /\ pointer' = publisher.cand
    BY <1>1 DEF P!SwapPointer
  <2>2. pointer = publisher.old /\ P!Upgrade(publisher.old, publisher.cand)
    BY <2>1 DEF PublicationInv, TargetInOrder
  <2>3. publisher.cand[1] \in Nat /\ publisher.cand[1] > 0 /\ publisher.old[1] \in Nat
    BY <2>1, TargetRuns, PairFacts, NameFacts DEF Names
  <2>. QED  BY <2>1, <2>2, <2>3 DEF P!Upgrade, P!Number, P!None
<1>2. CASE ~P!SwapPointer
  BY <1>2
  DEF P!Next, P!BeginTarget, P!PlaceArtifact, P!PlaceManifests, P!CheckPointer, P!BeginMobile,
      P!PlaceCandidate, P!KeepPrevious, P!CheckManifest, P!PromoteApk, P!PromoteManifest, P!UndoApk,
      P!UndoManifest, P!Rename, P!Upload, P!Stop
<1>. QED  BY <1>1, <1>2

(* A step of the publisher that touches a fixed file of a mobile directory. *)
LEMMA ServedMoves ==
  ASSUME PublicationInv, P!Next, served' # served, ~P!Upload
  PROVE  /\ lane = "mobile" /\ publisher.pc \in LateMobile /\ upload' = upload
         /\ publisher.pc = "apk" => served' = [served EXCEPT ![publisher.at].apk = publisher.bytes]
         /\ served' \in [P!Mobiles -> Files] /\ HalfWay(served')
<1>1. P!PromoteApk \/ P!PromoteManifest \/ P!UndoApk \/ P!UndoManifest
  BY DEF P!Next, P!BeginTarget, P!PlaceArtifact, P!PlaceManifests, P!CheckPointer, P!SwapPointer,
      P!BeginMobile, P!PlaceCandidate, P!KeepPrevious, P!CheckManifest, P!Stop
<1>2. /\ lane = "mobile" /\ publisher.pc \in LateMobile /\ upload' = upload
      /\ publisher.pc = "apk" => served' = [served EXCEPT ![publisher.at].apk = publisher.bytes]
      /\ \/ served' = [served EXCEPT ![publisher.at].apk = publisher.bytes]
         \/ served' = [served EXCEPT ![publisher.at].apk = P!First.apk]
         \/ served' = [served EXCEPT ![publisher.at].manifest = publisher.cand]
         \/ served' = [served EXCEPT ![publisher.at].manifest = P!First.manifest]
  BY <1>1 DEF P!PromoteApk, P!PromoteManifest, P!UndoApk, P!UndoManifest, P!Rename, LateMobile
<1>. QED  BY <1>2, LateNames, RenamedFiles

LEMMA PreviousStays == ASSUME PublicationInv, P!Next  PROVE P!PreviousPairIsKept
<1> SUFFICES ASSUME NEW d \in P!Mobiles, P!ValidPair(served[d]), served'[d] # served[d],
                    d = "fallback" \/ upload' = "none"
             PROVE  kept[d][P!Number(served[d].apk)] = P!Take(served[d].apk)
  BY DEF P!PreviousPairIsKept
<1>1. ~P!Upload
  <2> SUFFICES ASSUME P!Upload  PROVE FALSE
    OBVIOUS
  <2>1. d = "fallback" /\ served \in [P!Mobiles -> Files]
    BY DEF P!Upload, PublicationInv, PublicationTypes
  <2>2. PICK u : served' = [served EXCEPT !["primary"] = u]
    BY DEF P!Upload
  <2>. QED  BY <2>1, <2>2
<1>2. lane = "mobile" /\ publisher.pc \in LateMobile /\ d = publisher.at /\ Undisturbed
  <2>1. served' # served
    OBVIOUS
  <2>2. lane = "mobile" /\ publisher.pc \in LateMobile /\ upload' = upload /\ HalfWay(served')
    BY <1>1, <2>1, ServedMoves
  <2>3. d = publisher.at
    BY <2>2 DEF HalfWay
  <2>. QED  BY <2>2, <2>3 DEF Undisturbed
<1>3. /\ publisher.bytes = publisher.cand /\ P!First.manifest # publisher.cand /\ AsLeft
      /\ IsKept(publisher.at, publisher.bytes)
      /\ P!ValidPair(P!First) => IsKept(publisher.at, P!First.apk)
      /\ publisher.pc \in {"undo_apk", "undo_manifest"} => P!ValidPair(P!First)
  BY <1>2, LateNames DEF PublicationInv, MobileInOrder
<1>4. served[d].apk = served[d].manifest
  BY DEF P!ValidPair
<1>5. CASE publisher.pc \in {"check", "apk"}
  BY <1>2, <1>3, <1>5 DEF AsLeft, IsKept, P!Number, P!Take
<1>6. CASE publisher.pc = "manifest"
  BY <1>2, <1>3, <1>4, <1>6 DEF AsLeft
<1>7. CASE publisher.pc \in {"undo_apk", "undo_manifest"}
  BY <1>2, <1>3, <1>4, <1>7 DEF AsLeft, IsKept, P!ValidPair, P!Number, P!Take
<1>. QED  BY <1>2, <1>5, <1>6, <1>7 DEF LateMobile

LEMMA NothingStale == ASSUME PublicationInv, P!Next  PROVE P!NoPartialStale
<1> SUFFICES ASSUME NEW d \in P!Mobiles, NEW e \in P!Mobiles, publisher.pc = "apk",
                    served'[d].apk # served[d].apk, upload' # "unread"
             PROVE  P!Number(served[e].manifest) <= P!Number(served'[d].apk)
  BY DEF P!NoPartialStale
<1>1. ~P!Upload
  BY DEF P!Upload
<1>2. /\ lane = "mobile" /\ publisher.pc \in LateMobile /\ d = publisher.at /\ upload # "unread"
      /\ served' = [served EXCEPT ![publisher.at].apk = publisher.bytes]
  BY <1>1, ServedMoves DEF HalfWay
<1>3. served'[d].apk = publisher.cand
  <2>1. served[d] \in Files /\ d \in DOMAIN served /\ publisher.bytes = publisher.cand
    BY <1>2, LateNames
  <2>. QED  BY <1>2, <2>1 DEF Files
<1>4. publisher.cand[1] \in Nat /\ publisher.cand[1] > 0
  BY <1>2, MobileRuns, PairFacts
<1>5. /\ \A g \in P!Mobiles : P!Publishable(publisher.first[g], publisher.cand)
      /\ served[publisher.at].manifest = publisher.first[publisher.at].manifest
      /\ publisher.at = "fallback" => served["primary"] = publisher.first["primary"]
      /\ publisher.at = "primary" => served["fallback"] = P!Pair(publisher.cand)
  BY <1>2 DEF PublicationInv, PublicationTypes, MobileInOrder, P!First
<1>6. CASE served[e].manifest = publisher.first[e].manifest
  <2>1. served[e].manifest[1] \in Nat
    BY NameFacts DEF PublicationInv, PublicationTypes, Files
  <2>. QED  BY <1>3, <1>4, <1>5, <1>6, <2>1 DEF P!Publishable, P!Upgrade, P!Number, P!None
<1>7. CASE served[e] = P!Pair(publisher.cand)
  BY <1>3, <1>4, <1>7 DEF P!Pair, P!Number
<1>. QED  BY <1>2, <1>5, <1>6, <1>7 DEF P!Mobiles

(* The Target pointer moves to newer builds only, a valid mobile pair that  *)
(* a promotion breaks or replaces is in the history, and no directory is    *)
(* left to serve a build older than what the other one is signed for.       *)
THEOREM PublicationAlwaysForward == Spec => PublicationMovesForward
<1>1. (part = "publication" => PublicationInv) /\ [Next]_vars => [part = "publication" => P!OnlyForward]_vars
  <2> SUFFICES ASSUME part = "publication" => PublicationInv, Next, part = "publication"
               PROVE  P!OnlyForward
    OBVIOUS
  <2>1. P!Next /\ PublicationInv
    BY DEF Next
  <2>. QED  BY <2>1, PointerMoves, PreviousStays, NothingStale DEF P!OnlyForward
<1>. QED  BY <1>1, PublicationAlways, PTL DEF Spec, PublicationMovesForward

HIDE DEF lane, kept, pointer, served, publisher, upload

-----------------------------------------------------------------------------
(* Enrollment.                                                             *)
(*                                                                         *)
(* A row that is free is blank, a handler in the middle of its work still  *)
(* names a key that is registered, and a key withdrawn by a deletion is not*)
(* live again unless a late approval revives it; so whatever handler acts  *)
(* next, a live key that was linked to an account keeps one.               *)
accounts  == x1
nextId    == x2
keyState  == x3
tenant    == x4
challenge == x5
submits   == x6
approving == x7
leaving   == x8
keyPast   == x9
USE DEF accounts, nextId, keyState, tenant, challenge, submits, approving, leaving, keyPast

Taken == {"DISABLED", "REVOKED"}
KeyStates == {"ABSENT", "PENDING", "ACTIVE"} \cup Taken
KeyPasts == {"unlinked", "linked", "revived"}
Accounts == [phone : Phones \cup {NoPhone}, active : BOOLEAN, owner : BOOLEAN, dual : BOOLEAN,
             key : E!Credentials \cup {NoKey}]

EnrollmentTypes ==
  /\ accounts \in [E!Ids -> Accounts] /\ nextId \in Nat
  /\ keyState \in [E!Credentials -> KeyStates]
  /\ challenge \in [Challenges -> {"none", "issued", "used"}]
  /\ submits \subseteq [challenge : Challenges, key : Enrolled]
  /\ approving \subseteq Enrolled
  /\ leaving \subseteq [row : E!Ids, key : E!Credentials \cup {NoKey}, revoked : BOOLEAN]
  /\ keyPast \in [E!Credentials -> KeyPasts]

(* A row nobody has, and every row still to be inserted, is blank.          *)
FreeRows ==
  \A i \in E!Ids :
    /\ accounts[i].phone = NoPhone => accounts[i] = E!Absent
    /\ i >= nextId => accounts[i].phone = NoPhone

(* What a handler or an account names is registered.                        *)
KnownKeys ==
  /\ \A i \in E!Ids : accounts[i].key # NoKey => keyState[accounts[i].key] # "ABSENT"
  /\ \A c \in approving : keyState[c] # "ABSENT"
  /\ \A l \in leaving : /\ l.key # NoKey => keyState[l.key] # "ABSENT"
                        /\ l.key = NoKey => l.revoked

(* A submission stores a key that is not there yet, and no other one does.  *)
NewKeys ==
  \A r \in submits : keyState[r.key] = "ABSENT" /\ \A q \in submits : q.key = r.key => q = r

(* What a handler or an account names was linked, and so was a live key     *)
(* that the app chose.                                                      *)
PastIsKnown ==
  /\ \A c \in E!Credentials : keyState[c] = "ABSENT" => keyPast[c] = "unlinked"
  /\ \A c \in Chosen : keyPast[c] # "revived" /\ (keyState[c] = "ACTIVE" => keyPast[c] = "linked")
  /\ \A i \in E!Ids : accounts[i].key # NoKey => keyPast[accounts[i].key] # "unlinked"
  /\ \A l \in leaving : l.key # NoKey => keyPast[l.key] # "unlinked"

(* A key stays withdrawn once a deletion has revoked it.                    *)
RevokedForGood ==
  \A l \in leaving :
    (l.revoked /\ l.key # NoKey /\ keyPast[l.key] = "linked") => keyState[l.key] \in Taken

HasAccount(c) == \E i \in E!Ids : accounts[i].key = c /\ accounts[i].phone = PhoneOf[c]
LinkedOrTaken == \A c \in E!Credentials : keyPast[c] = "linked" => keyState[c] \in Taken \/ HasAccount(c)

EnrollmentInv ==
  /\ EnrollmentTypes /\ FreeRows /\ KnownKeys /\ NewKeys /\ PastIsKnown
  /\ RevokedForGood /\ LinkedOrTaken

LEMMA EnrollmentConstants ==
  /\ NoPhone \notin Phones /\ NoKey \notin E!Credentials /\ Chosen \cap Enrolled = {}
  /\ Chosen \subseteq E!Credentials /\ Enrolled \subseteq E!Credentials
  /\ PhoneOf \in [E!Credentials -> Phones] /\ Withdrawn \subseteq Taken
  /\ E!Ids \subseteq Nat
  BY PartsAssumption DEF E!EnrollmentAssumption, E!Credentials, E!Ids, Taken

LEMMA BlankAccount ==
  /\ E!Absent \in Accounts /\ E!Absent.phone = NoPhone /\ E!Absent.key = NoKey
  /\ ~E!Absent.active /\ ~E!Absent.owner
  BY DEF E!Absent, Accounts

LEMMA EnrollmentInit == E!Init => EnrollmentInv
<1> SUFFICES ASSUME E!Init  PROVE EnrollmentInv
  OBVIOUS
<1>1. /\ accounts = [i \in E!Ids |-> E!Absent] /\ nextId = 1
      /\ keyState = [c \in E!Credentials |-> "ABSENT"] /\ challenge = [e \in Challenges |-> "none"]
      /\ submits = {} /\ approving = {} /\ leaving = {}
      /\ keyPast = [c \in E!Credentials |-> "unlinked"]
  BY DEF E!Init
<1>2. EnrollmentTypes
  BY <1>1, BlankAccount DEF EnrollmentTypes, KeyStates, KeyPasts
<1>3. FreeRows /\ KnownKeys /\ NewKeys /\ RevokedForGood /\ LinkedOrTaken
  BY <1>1, BlankAccount, EnrollmentConstants DEF FreeRows, KnownKeys, NewKeys, RevokedForGood, LinkedOrTaken
<1>4. PastIsKnown
  BY <1>1, BlankAccount, EnrollmentConstants DEF PastIsKnown
<1>. QED  BY <1>2, <1>3, <1>4 DEF EnrollmentInv

(* Linked accounts keep their key and their phone, and no key is linked or  *)
(* comes back from where it was taken to.                                   *)
LinksStay ==
  \A i \in E!Ids : accounts[i].key # NoKey =>
    accounts'[i].key = accounts[i].key /\ accounts'[i].phone = accounts[i].phone
NoneRevived ==
  \A c \in E!Credentials : keyPast'[c] = "linked" =>
    keyPast[c] = "linked" /\ (keyState[c] \in Taken => keyState'[c] \in Taken)

LEMMA AccountsStay ==
  ASSUME EnrollmentInv, LinksStay, NoneRevived
  PROVE  LinkedOrTaken'
<1> SUFFICES ASSUME NEW c \in E!Credentials, keyPast'[c] = "linked", keyState'[c] \notin Taken
             PROVE  \E i \in E!Ids : accounts'[i].key = c /\ accounts'[i].phone = PhoneOf[c]
  BY DEF LinkedOrTaken, HasAccount
<1>1. PICK i \in E!Ids : accounts[i].key = c /\ accounts[i].phone = PhoneOf[c]
  BY DEF EnrollmentInv, LinkedOrTaken, HasAccount, NoneRevived
<1>2. c # NoKey
  BY EnrollmentConstants
<1>. QED  BY <1>1, <1>2 DEF LinksStay

(* One account changes: it keeps its link, or it gets its first.            *)
LEMMA AccountChanges ==
  ASSUME EnrollmentInv, NEW i \in E!Ids, NEW a \in Accounts,
         accounts' = [accounts EXCEPT ![i] = a],
         a.phone = NoPhone => a = E!Absent,
         i >= nextId' => a.phone = NoPhone, nextId' \in Nat, nextId' >= nextId,
         a.key # NoKey => keyState[a.key] # "ABSENT",
         accounts[i].key # NoKey => a.key = accounts[i].key /\ a.phone = accounts[i].phone,
         \/ keyPast' = keyPast /\ (a.key # NoKey => keyPast[a.key] # "unlinked")
         \/ /\ a.key # NoKey /\ a.phone = PhoneOf[a.key] /\ keyPast[a.key] # "revived"
            /\ keyPast' = [keyPast EXCEPT ![a.key] = "linked"],
         UNCHANGED <<keyState, challenge, submits, approving, leaving>>
  PROVE  EnrollmentInv'
<1>1. /\ accounts'[i] = a /\ accounts' \in [E!Ids -> Accounts]
      /\ \A j \in E!Ids : j # i => accounts'[j] = accounts[j]
  BY DEF EnrollmentInv, EnrollmentTypes
<1>2. /\ a.key \in E!Credentials \cup {NoKey} /\ keyPast \in [E!Credentials -> KeyPasts]
      /\ \A j \in E!Ids : accounts[j].key \in E!Credentials \cup {NoKey}
      /\ \A l \in leaving : l.key \in E!Credentials \cup {NoKey}
  BY DEF EnrollmentInv, EnrollmentTypes, Accounts
<1>3. /\ keyPast' \in [E!Credentials -> KeyPasts]
      /\ a.key # NoKey => keyPast'[a.key] # "unlinked"
      /\ \A c \in E!Credentials :
           \/ keyPast'[c] = keyPast[c]
           \/ /\ c = a.key /\ c # NoKey /\ a.phone = PhoneOf[c] /\ keyPast[c] # "revived" /\ keyPast'[c] = "linked"
  BY <1>2 DEF KeyPasts
<1>4. EnrollmentTypes' /\ NewKeys'
  BY <1>1, <1>3 DEF EnrollmentInv, EnrollmentTypes, NewKeys
<1>5. FreeRows'
  <2>1. \A j \in E!Ids : /\ accounts'[j].phone = NoPhone => accounts'[j] = E!Absent
                         /\ j >= nextId' => accounts'[j].phone = NoPhone
    BY <1>1, EnrollmentConstants DEF EnrollmentInv, EnrollmentTypes, FreeRows
  <2>. QED  BY <2>1 DEF FreeRows, E!Absent
<1>6. KnownKeys'
  BY <1>1 DEF EnrollmentInv, KnownKeys
<1>7. PastIsKnown'
  <2>1. /\ \A c \in E!Credentials : keyState[c] = "ABSENT" => keyPast'[c] = "unlinked"
        /\ \A c \in Chosen : keyPast'[c] # "revived" /\ (keyState[c] = "ACTIVE" => keyPast'[c] = "linked")
    BY <1>3, EnrollmentConstants DEF EnrollmentInv, PastIsKnown
  <2>2. \A j \in E!Ids : accounts'[j].key # NoKey => keyPast'[accounts'[j].key] # "unlinked"
    BY <1>1, <1>2, <1>3 DEF EnrollmentInv, PastIsKnown
  <2>3. \A l \in leaving : l.key # NoKey => keyPast'[l.key] # "unlinked"
    BY <1>2, <1>3 DEF EnrollmentInv, PastIsKnown
  <2>. QED  BY <2>1, <2>2, <2>3 DEF PastIsKnown
<1>8. RevokedForGood'
  <2> SUFFICES ASSUME NEW l \in leaving, l.revoked, l.key # NoKey, keyPast'[l.key] = "linked"
               PROVE  keyState[l.key] \in Taken
    BY DEF RevokedForGood
  <2>1. keyPast[l.key] # "unlinked"
    BY DEF EnrollmentInv, PastIsKnown
  <2>2. keyPast[l.key] = "linked"
    BY <1>2, <1>3, <2>1 DEF KeyPasts
  <2>. QED  BY <2>2 DEF EnrollmentInv, RevokedForGood
<1>9. LinkedOrTaken'
  <2> SUFFICES ASSUME NEW c \in E!Credentials, keyPast'[c] = "linked", keyState[c] \notin Taken
               PROVE  \E j \in E!Ids : accounts'[j].key = c /\ accounts'[j].phone = PhoneOf[c]
    BY DEF LinkedOrTaken, HasAccount
  <2>1. CASE keyPast[c] # "linked"
    BY <1>1, <1>3, <2>1
  <2>2. CASE keyPast[c] = "linked"
    <3>1. PICK j \in E!Ids : accounts[j].key = c /\ accounts[j].phone = PhoneOf[c]
      BY <2>2 DEF EnrollmentInv, LinkedOrTaken, HasAccount
    <3>2. c # NoKey
      BY EnrollmentConstants
    <3>. QED  BY <1>1, <3>1, <3>2
  <2>. QED  BY <2>1, <2>2
<1>. QED  BY <1>4, <1>5, <1>6, <1>7, <1>8, <1>9 DEF EnrollmentInv

LEMMA RequestStep ==
  ASSUME EnrollmentInv, NEW p \in Phones, E!Request(p)
  PROVE  EnrollmentInv'
<1> DEFINE a == [E!Absent EXCEPT !.phone = p]
<1>1. /\ nextId \in E!Ids /\ accounts' = [accounts EXCEPT ![nextId] = a] /\ nextId' = nextId + 1
      /\ UNCHANGED <<keyState, challenge, submits, approving, leaving, keyPast>>
  BY DEF E!Request, E!handlers
<1>2. a \in Accounts /\ a.phone = p /\ a.key = NoKey
  BY DEF E!Absent, Accounts
<1> HIDE DEF a
<1>3. accounts[nextId].key = NoKey /\ nextId \in Nat
  BY <1>1, BlankAccount DEF EnrollmentInv, EnrollmentTypes, FreeRows
<1>4. nextId' \in Nat /\ nextId' >= nextId /\ ~(nextId >= nextId')
  BY <1>1, <1>3
<1>. QED  BY <1>1, <1>2, <1>3, <1>4, EnrollmentConstants, AccountChanges

LEMMA SetActiveStep ==
  ASSUME EnrollmentInv, NEW i \in E!Ids, NEW b \in BOOLEAN, E!SetActive(i, b)
  PROVE  EnrollmentInv'
<1>1. /\ accounts[i].phone # NoPhone /\ accounts' = [accounts EXCEPT ![i].active = b]
      /\ UNCHANGED <<nextId, keyState, challenge, submits, approving, leaving, keyPast>>
  BY DEF E!SetActive, E!handlers
<1> DEFINE a == [accounts[i] EXCEPT !.active = b]
<1>2. accounts[i] \in Accounts /\ accounts' = [accounts EXCEPT ![i] = a]
  BY <1>1 DEF EnrollmentInv, EnrollmentTypes
<1>3. a \in Accounts /\ a.phone = accounts[i].phone /\ a.key = accounts[i].key
  BY <1>2 DEF Accounts
<1> HIDE DEF a
<1>4. /\ i >= nextId => a.phone = NoPhone
      /\ a.key # NoKey => keyState[a.key] # "ABSENT" /\ keyPast[a.key] # "unlinked"
      /\ nextId \in Nat
  BY <1>3 DEF EnrollmentInv, EnrollmentTypes, FreeRows, KnownKeys, PastIsKnown
<1>5. nextId' \in Nat /\ nextId' >= nextId
  BY <1>1, <1>4
<1>. QED  BY <1>1, <1>2, <1>3, <1>4, <1>5, AccountChanges

LEMMA BindStep ==
  ASSUME EnrollmentInv, NEW i \in E!Ids, NEW c \in E!Credentials, E!Bind(i, c)
  PROVE  EnrollmentInv'
<1>1. /\ keyState[c] # "ABSENT" /\ accounts[i].phone = PhoneOf[c] /\ accounts[i].key = NoKey
      /\ accounts' = [accounts EXCEPT ![i].key = c]
      /\ keyPast' = [keyPast EXCEPT ![c] = IF keyPast[c] = "revived" THEN keyPast[c] ELSE "linked"]
      /\ UNCHANGED <<nextId, keyState, challenge, submits, approving, leaving>>
  BY DEF E!Bind, E!handlers
<1> DEFINE a == [accounts[i] EXCEPT !.key = c]
<1>2. accounts[i] \in Accounts /\ accounts' = [accounts EXCEPT ![i] = a]
  BY <1>1 DEF EnrollmentInv, EnrollmentTypes
<1>3. a \in Accounts /\ a.phone = accounts[i].phone /\ a.key = c
  BY <1>2 DEF Accounts
<1> HIDE DEF a
<1>4. a.phone # NoPhone
  BY <1>1, <1>3, EnrollmentConstants
<1>5. nextId' \in Nat /\ nextId' >= nextId /\ ~(i >= nextId)
  BY <1>1, <1>3, <1>4 DEF EnrollmentInv, EnrollmentTypes, FreeRows
<1>6. /\ c # NoKey
      /\ \/ keyPast' = keyPast /\ keyPast[c] # "unlinked"
         \/ keyPast[c] # "revived" /\ keyPast' = [keyPast EXCEPT ![c] = "linked"]
  BY <1>1, EnrollmentConstants DEF EnrollmentInv, EnrollmentTypes
<1>7. /\ a.phone = NoPhone => a = E!Absent
      /\ i >= nextId' => a.phone = NoPhone
      /\ a.key # NoKey /\ a.phone = PhoneOf[a.key] /\ keyState[a.key] # "ABSENT"
      /\ accounts[i].key # NoKey => a.key = accounts[i].key /\ a.phone = accounts[i].phone
      /\ UNCHANGED <<keyState, challenge, submits, approving, leaving>>
  BY <1>1, <1>3, <1>4, <1>5, <1>6
<1>8. \/ keyPast' = keyPast /\ (a.key # NoKey => keyPast[a.key] # "unlinked")
      \/ /\ a.key # NoKey /\ a.phone = PhoneOf[a.key] /\ keyPast[a.key] # "revived"
         /\ keyPast' = [keyPast EXCEPT ![a.key] = "linked"]
  BY <1>3, <1>6, <1>7
<1>. QED  BY <1>2, <1>3, <1>5, <1>7, <1>8, AccountChanges

LEMMA DisableTenantStep ==
  ASSUME EnrollmentInv, E!DisableTenant
  PROVE  EnrollmentInv'
<1>1. /\ accounts' = [i \in E!Ids |-> IF accounts[i].owner THEN [accounts[i] EXCEPT !.active = FALSE]
                                                           ELSE accounts[i]]
      /\ UNCHANGED <<nextId, keyState, challenge, submits, approving, leaving, keyPast>>
  BY DEF E!DisableTenant, E!handlers
<1>2. \A i \in E!Ids : /\ accounts'[i] \in Accounts /\ accounts'[i].phone = accounts[i].phone
                       /\ accounts'[i].key = accounts[i].key
                       /\ accounts'[i] = accounts[i] \/ accounts[i].owner
  <2> SUFFICES ASSUME NEW i \in E!Ids
               PROVE  /\ accounts'[i] \in Accounts /\ accounts'[i].phone = accounts[i].phone
                      /\ accounts'[i].key = accounts[i].key
                      /\ accounts'[i] = accounts[i] \/ accounts[i].owner
    OBVIOUS
  <2>1. accounts[i] \in Accounts
    BY DEF EnrollmentInv, EnrollmentTypes
  <2>. QED  BY <1>1, <2>1 DEF Accounts
<1>3. EnrollmentTypes'
  BY <1>1, <1>2 DEF EnrollmentInv, EnrollmentTypes
<1>4. FreeRows'
  BY <1>1, <1>2, BlankAccount DEF EnrollmentInv, FreeRows, E!Absent
<1>5. KnownKeys' /\ NewKeys' /\ PastIsKnown' /\ RevokedForGood'
  BY <1>1, <1>2 DEF EnrollmentInv, KnownKeys, NewKeys, PastIsKnown, RevokedForGood
<1>6. LinksStay /\ NoneRevived
  BY <1>1, <1>2 DEF LinksStay, NoneRevived
<1>. QED  BY <1>3, <1>4, <1>5, <1>6, AccountsStay DEF EnrollmentInv

LEMMA BootstrapStep ==
  ASSUME EnrollmentInv, NEW i \in E!Ids, NEW c \in Chosen, E!Bootstrap(i, c)
  PROVE  EnrollmentInv'
<1> DEFINE o == E!Owners \subseteq {i}
           a == [accounts[i] EXCEPT !.dual = TRUE, !.key = c, !.owner = o]
<1>1. /\ accounts[i].phone = PhoneOf[c] /\ keyState[c] \in {"ABSENT", "ACTIVE"}
      /\ accounts[i].key \in {NoKey, c}
      /\ keyState' = [keyState EXCEPT ![c] = "ACTIVE"]
      /\ accounts' = [accounts EXCEPT ![i].dual = TRUE, ![i].key = c, ![i].owner = o]
      /\ keyPast' = [keyPast EXCEPT ![c] = "linked"]
      /\ UNCHANGED <<nextId, challenge, submits, approving, leaving>>
  BY DEF E!Bootstrap, E!Acceptable, E!Linkable, E!handlers
<1>2. accounts[i] \in Accounts /\ accounts' = [accounts EXCEPT ![i] = a] /\ o \in BOOLEAN
      /\ c \in E!Credentials
  BY <1>1, EnrollmentConstants DEF EnrollmentInv, EnrollmentTypes
<1> HIDE DEF o
<1>3. a \in Accounts /\ a.phone = accounts[i].phone /\ a.key = c
  BY <1>2 DEF Accounts
<1> HIDE DEF a
<1>4. /\ accounts'[i] = a /\ accounts' \in [E!Ids -> Accounts]
      /\ \A j \in E!Ids : j # i => accounts'[j] = accounts[j]
      /\ keyState'[c] = "ACTIVE" /\ keyState' \in [E!Credentials -> KeyStates]
      /\ keyPast'[c] = "linked" /\ keyPast' \in [E!Credentials -> KeyPasts]
      /\ \A d \in E!Credentials : d # c => keyState'[d] = keyState[d] /\ keyPast'[d] = keyPast[d]
  <2>1. accounts \in [E!Ids -> Accounts] /\ keyState \in [E!Credentials -> KeyStates]
        /\ accounts' = [accounts EXCEPT ![i] = a] /\ keyState' = [keyState EXCEPT ![c] = "ACTIVE"]
        /\ keyPast \in [E!Credentials -> KeyPasts] /\ keyPast' = [keyPast EXCEPT ![c] = "linked"]
    BY <1>1, <1>2 DEF EnrollmentInv, EnrollmentTypes
  <2>. QED  BY <1>2, <1>3, <2>1 DEF KeyStates, KeyPasts
<1>5. EnrollmentTypes'
  BY <1>1, <1>4 DEF EnrollmentInv, EnrollmentTypes
<1>6. a.phone \in Phones /\ NoPhone \notin Phones
  BY <1>1, <1>2, <1>3, EnrollmentConstants
<1>7. FreeRows'
  <2>1. accounts[i].phone # NoPhone
    BY <1>3, <1>6
  <2>2. \A j \in E!Ids : /\ accounts'[j].phone = NoPhone => accounts'[j] = E!Absent
                         /\ j >= nextId' => accounts'[j].phone = NoPhone
    BY <1>1, <1>3, <1>4, <1>6, <2>1 DEF EnrollmentInv, FreeRows
  <2>. QED  BY <2>2 DEF FreeRows, E!Absent
<1>8. \A j \in E!Ids : accounts[j].key \in E!Credentials \cup {NoKey}
  BY DEF EnrollmentInv, EnrollmentTypes, Accounts
<1>9. \A l \in leaving : l.key \in E!Credentials \cup {NoKey}
  BY DEF EnrollmentInv, EnrollmentTypes
<1>10. KnownKeys'
  BY <1>1, <1>3, <1>4, <1>8, <1>9, EnrollmentConstants DEF EnrollmentInv, EnrollmentTypes, KnownKeys
<1>11. NewKeys'
  <2>1. \A r \in submits : r.key \in E!Credentials /\ r.key # c
    BY EnrollmentConstants DEF EnrollmentInv, EnrollmentTypes
  <2>. QED  BY <1>1, <1>4, <2>1 DEF EnrollmentInv, NewKeys
<1>12. PastIsKnown'
  <2>1. /\ \A d \in E!Credentials : keyState'[d] = "ABSENT" => keyPast'[d] = "unlinked"
        /\ \A d \in Chosen : keyPast'[d] # "revived" /\ (keyState'[d] = "ACTIVE" => keyPast'[d] = "linked")
    BY <1>4, EnrollmentConstants DEF EnrollmentInv, PastIsKnown
  <2>2. \A j \in E!Ids : accounts'[j].key # NoKey => keyPast'[accounts'[j].key] # "unlinked"
    BY <1>3, <1>4, <1>8 DEF EnrollmentInv, PastIsKnown
  <2>3. \A l \in leaving : l.key # NoKey => keyPast'[l.key] # "unlinked"
    BY <1>4, <1>9 DEF EnrollmentInv, PastIsKnown
  <2>. QED  BY <1>1, <2>1, <2>2, <2>3 DEF PastIsKnown
<1>13. RevokedForGood'
  <2> SUFFICES ASSUME NEW l \in leaving, l.revoked, l.key # NoKey, keyPast'[l.key] = "linked"
               PROVE  keyState'[l.key] \in Taken
    BY <1>1 DEF RevokedForGood
  <2>1. l.key # c
    BY <1>1, <1>2 DEF EnrollmentInv, KnownKeys, PastIsKnown, RevokedForGood, Taken
  <2>. QED  BY <1>4, <1>9, <2>1 DEF EnrollmentInv, RevokedForGood
<1>14. LinkedOrTaken'
  <2> SUFFICES ASSUME NEW d \in E!Credentials, keyPast'[d] = "linked", keyState'[d] \notin Taken
               PROVE  \E j \in E!Ids : accounts'[j].key = d /\ accounts'[j].phone = PhoneOf[d]
    BY DEF LinkedOrTaken, HasAccount
  <2>1. CASE d = c
    BY <1>1, <1>3, <1>4, <2>1
  <2>2. CASE d # c
    <3>1. keyPast[d] = "linked" /\ keyState[d] \notin Taken /\ d # NoKey
      BY <1>4, <2>2, EnrollmentConstants
    <3>2. PICK j \in E!Ids : accounts[j].key = d /\ accounts[j].phone = PhoneOf[d]
      BY <3>1 DEF EnrollmentInv, LinkedOrTaken, HasAccount
    <3>3. j # i
      BY <1>1, <2>2, <3>1, <3>2
    <3>. QED  BY <1>4, <3>2, <3>3
  <2>. QED  BY <2>1, <2>2
<1>. QED  BY <1>5, <1>7, <1>10, <1>11, <1>12, <1>13, <1>14 DEF EnrollmentInv

(* One key comes to another state, and no account changes: a linked key     *)
(* that is live again was live, or its past says so.                        *)
LEMMA KeyChanges ==
  ASSUME EnrollmentInv, NEW c \in E!Credentials, NEW s \in KeyStates \ {"ABSENT"},
         c \in Chosen => s \in Taken /\ keyPast' = keyPast,
         s \in Taken \/ keyPast'[c] # "linked" \/ keyState[c] \notin Taken,
         keyPast' \in {keyPast, [keyPast EXCEPT ![c] = "revived"]},
         keyState' = [keyState EXCEPT ![c] = s], UNCHANGED <<accounts, nextId>>,
         challenge' \in [Challenges -> {"none", "issued", "used"}],
         submits' \subseteq submits, \A r \in submits' : r.key # c, approving' \subseteq approving,
         leaving' \subseteq [row : E!Ids, key : E!Credentials \cup {NoKey}, revoked : BOOLEAN],
         \A l \in leaving' : \/ l \in leaving
                             \/ l.key = c /\ l.key # NoKey /\ keyPast[c] # "unlinked" /\ s \in Taken
  PROVE  EnrollmentInv'
<1>1. /\ keyState'[c] = s /\ keyState' \in [E!Credentials -> KeyStates]
      /\ keyPast' \in [E!Credentials -> KeyPasts] /\ keyPast'[c] \in {keyPast[c], "revived"}
      /\ \A d \in E!Credentials : d # c => keyState'[d] = keyState[d] /\ keyPast'[d] = keyPast[d]
  BY DEF EnrollmentInv, EnrollmentTypes, KeyPasts
<1>2. EnrollmentTypes'
  BY <1>1 DEF EnrollmentInv, EnrollmentTypes
<1>3. FreeRows'
  BY DEF EnrollmentInv, FreeRows
<1>4. /\ \A j \in E!Ids : accounts[j].key \in E!Credentials \cup {NoKey}
      /\ \A l \in leaving : l.key \in E!Credentials \cup {NoKey}
      /\ approving \subseteq E!Credentials /\ \A r \in submits : r.key \in E!Credentials
  BY EnrollmentConstants DEF EnrollmentInv, EnrollmentTypes, Accounts
<1>5. KnownKeys'
  <2>1. \A i \in E!Ids : accounts'[i].key # NoKey => keyState'[accounts'[i].key] # "ABSENT"
    BY <1>1, <1>4 DEF EnrollmentInv, KnownKeys
  <2>2. \A d \in approving' : keyState'[d] # "ABSENT"
    BY <1>1, <1>4 DEF EnrollmentInv, KnownKeys
  <2>3. \A l \in leaving' : (l.key # NoKey => keyState'[l.key] # "ABSENT") /\ (l.key = NoKey => l.revoked)
    BY <1>1, <1>4 DEF EnrollmentInv, KnownKeys
  <2>. QED  BY <2>1, <2>2, <2>3 DEF KnownKeys
<1>6. NewKeys'
  BY <1>1, <1>4 DEF EnrollmentInv, NewKeys
<1>7. PastIsKnown'
  <2>1. \A d \in E!Credentials : keyState'[d] = "ABSENT" => keyPast'[d] = "unlinked"
    BY <1>1 DEF EnrollmentInv, PastIsKnown
  <2>2. \A d \in Chosen : keyPast'[d] # "revived" /\ (keyState'[d] = "ACTIVE" => keyPast'[d] = "linked")
    BY <1>1, EnrollmentConstants DEF EnrollmentInv, PastIsKnown, Taken
  <2>3. \A i \in E!Ids : accounts'[i].key # NoKey => keyPast'[accounts'[i].key] # "unlinked"
    BY <1>1, <1>4 DEF EnrollmentInv, PastIsKnown
  <2>4. \A l \in leaving' : l.key # NoKey => keyPast'[l.key] # "unlinked"
    BY <1>1, <1>4 DEF EnrollmentInv, PastIsKnown
  <2>. QED  BY <2>1, <2>2, <2>3, <2>4 DEF PastIsKnown
<1>8. RevokedForGood'
  <2> SUFFICES ASSUME NEW l \in leaving', l.revoked, l.key # NoKey, keyPast'[l.key] = "linked"
               PROVE  keyState'[l.key] \in Taken
    BY DEF RevokedForGood
  <2>1. CASE l.key # c
    BY <1>1, <1>4, <2>1 DEF EnrollmentInv, RevokedForGood
  <2>2. CASE l.key = c
    BY <1>1, <2>2 DEF EnrollmentInv, RevokedForGood
  <2>. QED  BY <2>1, <2>2
<1>9. LinkedOrTaken'
  <2> SUFFICES ASSUME NEW d \in E!Credentials, keyPast'[d] = "linked", keyState'[d] \notin Taken
               PROVE  HasAccount(d)
    BY DEF LinkedOrTaken, HasAccount
  <2>1. keyPast[d] = "linked" /\ keyState[d] \notin Taken
    BY <1>1
  <2>. QED  BY <2>1 DEF EnrollmentInv, LinkedOrTaken
<1>. QED  BY <1>2, <1>3, <1>5, <1>6, <1>7, <1>8, <1>9 DEF EnrollmentInv

(* A handler begins or ends, and neither accounts nor keys change.          *)
LEMMA HandlersChange ==
  ASSUME EnrollmentInv, UNCHANGED <<accounts, nextId, keyState, keyPast>>,
         challenge' \in [Challenges -> {"none", "issued", "used"}],
         submits' \subseteq [challenge : Challenges, key : Enrolled], NewKeys',
         approving' \subseteq Enrolled, \A c \in approving' : keyState[c] # "ABSENT",
         leaving' \subseteq [row : E!Ids, key : E!Credentials \cup {NoKey}, revoked : BOOLEAN],
         \A l \in leaving' : \/ l \in leaving
                             \/ /\ l.revoked <=> l.key = NoKey
                                /\ l.key # NoKey => keyState[l.key] # "ABSENT" /\ keyPast[l.key] # "unlinked"
  PROVE  EnrollmentInv'
<1>1. EnrollmentTypes' /\ FreeRows'
  BY DEF EnrollmentInv, EnrollmentTypes, FreeRows
<1>2. KnownKeys' /\ PastIsKnown'
  BY EnrollmentConstants DEF EnrollmentInv, KnownKeys, PastIsKnown
<1>3. RevokedForGood'
  BY DEF EnrollmentInv, RevokedForGood
<1>4. LinksStay /\ NoneRevived
  BY DEF LinksStay, NoneRevived
<1>. QED  BY <1>1, <1>2, <1>3, <1>4, AccountsStay DEF EnrollmentInv

LEMMA ChallengeSteps ==
  ASSUME EnrollmentInv,
         \/ \E e \in Challenges : E!IssueChallenge(e) \/ \E c \in Enrolled : E!SubmitChecked(e, c)
         \/ \E c \in Enrolled : E!ApprovalChecked(c)
         \/ E!ReconcileOnly
         \/ E!Crash
  PROVE  EnrollmentInv'
<1> USE DEF EnrollmentInv, EnrollmentTypes, KnownKeys, NewKeys
<1>1. ASSUME NEW e \in Challenges, E!IssueChallenge(e)  PROVE EnrollmentInv'
  BY <1>1, HandlersChange DEF E!IssueChallenge, E!IfActive, E!handlers
<1>2. ASSUME NEW e \in Challenges, NEW c \in Enrolled, E!SubmitChecked(e, c)  PROVE EnrollmentInv'
  <2>1. NewKeys'
    BY <1>2 DEF E!SubmitChecked, E!IfActive
  <2>. QED  BY <1>2, <2>1, HandlersChange DEF E!SubmitChecked, E!IfActive
<1>3. ASSUME NEW c \in Enrolled, E!ApprovalChecked(c)  PROVE EnrollmentInv'
  BY <1>3, HandlersChange DEF E!ApprovalChecked, E!IfActive
<1>4. CASE E!ReconcileOnly
  BY <1>4, HandlersChange DEF E!ReconcileOnly, E!handlers
<1>5. CASE E!Crash
  BY <1>5, HandlersChange DEF E!Crash
<1>. QED  BY <1>1, <1>2, <1>3, <1>4, <1>5

LEMMA KeySubmitStep ==
  ASSUME EnrollmentInv, NEW r \in submits, E!SubmitCommitted(r)
  PROVE  EnrollmentInv'
<1>1. r.challenge \in Challenges /\ r.key \in Enrolled /\ r.key \in E!Credentials /\ r.key \notin Chosen
  BY EnrollmentConstants DEF EnrollmentInv, EnrollmentTypes
<1>2. /\ submits' \subseteq submits /\ UNCHANGED <<accounts, nextId, approving, leaving, keyPast>>
      /\ keyState[r.key] = "ABSENT" /\ \A q \in submits' : q.key # r.key
  BY DEF E!SubmitCommitted, EnrollmentInv, NewKeys
<1>3. CASE challenge[r.challenge] = "issued"
  <2>1. /\ challenge' = [challenge EXCEPT ![r.challenge] = "used"]
        /\ keyState' = [keyState EXCEPT ![r.key] = "PENDING"]
    BY <1>3 DEF E!SubmitCommitted
  <2>2. challenge' \in [Challenges -> {"none", "issued", "used"}]
    BY <2>1 DEF EnrollmentInv, EnrollmentTypes
  <2>3. leaving' \subseteq [row : E!Ids, key : E!Credentials \cup {NoKey}, revoked : BOOLEAN]
    BY <1>2 DEF EnrollmentInv, EnrollmentTypes
  <2>. QED  BY <1>1, <1>2, <2>1, <2>2, <2>3, KeyChanges DEF KeyStates, Taken
<1>4. CASE challenge[r.challenge] # "issued"
  <2>1. UNCHANGED <<challenge, keyState>>
    BY <1>4 DEF E!SubmitCommitted
  <2>. QED  BY <1>2, <2>1, HandlersChange DEF EnrollmentInv, EnrollmentTypes, KnownKeys, NewKeys
<1>. QED  BY <1>3, <1>4

(* A key that is registered is not being submitted.                         *)
LEMMA NotSubmitted ==
  ASSUME EnrollmentInv, NEW c \in E!Credentials, keyState[c] # "ABSENT"
  PROVE  \A r \in submits : r.key # c
  BY DEF EnrollmentInv, NewKeys

LEMMA ApprovalStep ==
  ASSUME EnrollmentInv, NEW c \in Enrolled, E!ApprovalWritten(c)
  PROVE  EnrollmentInv'
<1>1. c \in E!Credentials /\ c \notin Chosen /\ c \in approving /\ keyState[c] # "ABSENT"
  BY EnrollmentConstants DEF E!ApprovalWritten, EnrollmentInv, KnownKeys
<1>2. /\ keyState' = [keyState EXCEPT ![c] = "ACTIVE"] /\ approving' \subseteq approving
      /\ keyPast' = [keyPast EXCEPT ![c] = IF keyState[c] \notin {"ABSENT", "DISABLED", "REVOKED"}
                                    THEN keyPast[c] ELSE "revived"]
      /\ UNCHANGED <<accounts, nextId, challenge, submits, leaving>>
  BY DEF E!ApprovalWritten, E!Live
<1>3. /\ keyPast' \in {keyPast, [keyPast EXCEPT ![c] = "revived"]}
      /\ keyPast'[c] # "linked" \/ keyState[c] \notin Taken
  BY <1>1, <1>2 DEF EnrollmentInv, EnrollmentTypes, Taken
<1>. QED
  BY <1>1, <1>2, <1>3, NotSubmitted, KeyChanges DEF KeyStates, EnrollmentInv, EnrollmentTypes

LEMMA WithdrawStep ==
  ASSUME EnrollmentInv, NEW c \in E!Credentials, NEW s \in Withdrawn, E!Withdraw(c, s)
  PROVE  EnrollmentInv'
<1>1. s \in Taken /\ s \in KeyStates \ {"ABSENT"} /\ keyState[c] # "ABSENT"
  BY EnrollmentConstants DEF E!Withdraw, Taken, KeyStates
<1>2. /\ keyState' = [keyState EXCEPT ![c] = s]
      /\ UNCHANGED <<accounts, nextId, challenge, submits, approving, leaving, keyPast>>
  BY DEF E!Withdraw, E!handlers
<1>. QED  BY <1>1, <1>2, NotSubmitted, KeyChanges DEF EnrollmentInv, EnrollmentTypes

LEMMA LeaveSteps ==
  ASSUME EnrollmentInv, NEW i \in E!Ids, NEW c \in E!Credentials \cup {NoKey}, E!Leave(i, c),
         c # NoKey => keyState[c] # "ABSENT" /\ keyPast[c] # "unlinked"
  PROVE  EnrollmentInv'
<1> DEFINE l == [row |-> i, key |-> c, revoked |-> c = NoKey]
<1>1. leaving' = leaving \cup {l} /\ UNCHANGED <<accounts, nextId, keyState, challenge, submits, approving, keyPast>>
  BY DEF E!Leave
<1>2. /\ l \in [row : E!Ids, key : E!Credentials \cup {NoKey}, revoked : BOOLEAN]
      /\ l.revoked <=> l.key = NoKey
      /\ l.key = c
  OBVIOUS
<1> HIDE DEF l
<1>. QED  BY <1>1, <1>2, HandlersChange DEF EnrollmentInv, EnrollmentTypes, KnownKeys, NewKeys

LEMMA PreflightStep ==
  ASSUME EnrollmentInv, NEW i \in E!Ids, E!DeletePreflight(i)
  PROVE  EnrollmentInv'
<1>1. accounts[i].key \in E!Credentials \cup {NoKey}
  BY DEF EnrollmentInv, EnrollmentTypes, Accounts
<1>. QED  BY <1>1, LeaveSteps DEF E!DeletePreflight, EnrollmentInv, KnownKeys, PastIsKnown

LEMMA LogoutStep ==
  ASSUME EnrollmentInv, NEW c \in E!Credentials, E!LogoutProof(c)
  PROVE  EnrollmentInv'
<1>1. PICK i \in E!Ids : accounts[i].key = c /\ E!Leave(i, c)
  BY DEF E!LogoutProof, E!Keyed
<1>2. c # NoKey /\ keyState[c] # "ABSENT" /\ keyPast[c] # "unlinked"
  BY <1>1, EnrollmentConstants DEF E!LogoutProof, EnrollmentInv, PastIsKnown
<1>. QED  BY <1>1, <1>2, LeaveSteps

LEMMA RevokeStep ==
  ASSUME EnrollmentInv, NEW l \in leaving, E!RevokeKey(l)
  PROVE  EnrollmentInv'
<1>1. /\ l \in [row : E!Ids, key : E!Credentials \cup {NoKey}, revoked : BOOLEAN]
      /\ l.key # NoKey /\ l.key \in E!Credentials
      /\ keyState[l.key] # "ABSENT" /\ keyPast[l.key] # "unlinked"
  BY DEF E!RevokeKey, EnrollmentInv, EnrollmentTypes, KnownKeys, PastIsKnown
<1> DEFINE r == [l EXCEPT !.revoked = TRUE]
<1>2. r \in [row : E!Ids, key : E!Credentials \cup {NoKey}, revoked : BOOLEAN] /\ r.key = l.key
  BY <1>1
<1>3. /\ keyState' = [keyState EXCEPT ![l.key] = "REVOKED"]
      /\ leaving' \subseteq leaving \cup {r}
      /\ UNCHANGED <<accounts, nextId, challenge, submits, approving, keyPast>>
  BY DEF E!RevokeKey
<1> HIDE DEF r
<1>4. leaving' \subseteq [row : E!Ids, key : E!Credentials \cup {NoKey}, revoked : BOOLEAN]
  BY <1>2, <1>3 DEF EnrollmentInv, EnrollmentTypes
<1>5. \A m \in leaving' : m \in leaving \/ (m.key = l.key /\ m.key # NoKey)
  BY <1>1, <1>2, <1>3
<1>6. "REVOKED" \in Taken /\ "REVOKED" \in KeyStates \ {"ABSENT"}
  BY DEF Taken, KeyStates
<1>. QED  BY <1>1, <1>3, <1>4, <1>5, <1>6, NotSubmitted, KeyChanges DEF EnrollmentInv, EnrollmentTypes

(* A set of numbers has a first one.                                        *)
LEMMA LeastNumber ==
  ASSUME NEW T \in SUBSET Nat, T # {}
  PROVE  \E m \in T : \A k \in T : m <= k
<1> DEFINE less == OpToRel(<, Nat)
<1>1. IsWellFoundedOn(less, Nat)
  BY NatLessThanWellFounded
<1>2. PICK m \in T : \A k \in T : <<k, m>> \notin less
  <2> HIDE DEF less
  <2>. QED  BY <1>1, WFMin
<1>3. \A k \in T : ~(k < m)
  BY <1>2 DEF OpToRel
<1>. QED  BY <1>3

LEMMA HeirFacts ==
  ASSUME NEW i \in E!Ids
  PROVE  /\ E!Heirs(i) \subseteq E!Actives(i) /\ E!Actives(i) \subseteq E!Ids \ {i}
         /\ \A j \in E!Actives(i) : accounts[j].active
         /\ E!Heirs(i) = {} => ~accounts[i].owner \/ E!Actives(i) = {}
<1>1. E!Actives(i) \subseteq E!Ids \ {i} /\ \A j \in E!Actives(i) : accounts[j].active
  BY DEF E!Actives
<1>2. E!Actives(i) # {} => E!Heir(i) \in E!Actives(i)
  BY <1>1, EnrollmentConstants, LeastNumber DEF E!Heir
<1>. QED  BY <1>1, <1>2 DEF E!Heirs

(* What the end of a deletion does to the accounts: nothing, or the row of  *)
(* a revoked key is gone and its heir owns the tenant.                      *)
RowLeaves(l) ==
  /\ E!Unchanged(l) /\ \A j \in E!Heirs(l.row) : accounts[j].key # NoKey
  /\ accounts' \in [E!Ids -> Accounts] /\ accounts'[l.row] = E!Absent
  /\ \A i \in E!Ids \ {l.row} : /\ accounts'[i].phone = accounts[i].phone
                                /\ accounts'[i].key = accounts[i].key
                                /\ accounts'[i].active = accounts[i].active
                                /\ accounts'[i] = accounts[i] \/ i \in E!Heirs(l.row)
                                /\ i \in E!Heirs(l.row) => accounts'[i].owner

LEMMA LeavingEnds ==
  ASSUME EnrollmentInv, NEW l \in leaving, E!FinishLeaving(l)
  PROVE  /\ l.row \in E!Ids /\ l.key \in E!Credentials \cup {NoKey} /\ l.revoked
         /\ leaving' \subseteq leaving /\ UNCHANGED <<nextId, keyState, challenge, submits, approving, keyPast>>
         /\ accounts' = accounts \/ RowLeaves(l)
<1>1. l.row \in E!Ids /\ l.key \in E!Credentials \cup {NoKey}
  BY DEF EnrollmentInv, EnrollmentTypes
<1>2. /\ l.revoked /\ leaving' \subseteq leaving
      /\ UNCHANGED <<nextId, keyState, challenge, submits, approving, keyPast>>
  BY DEF E!FinishLeaving
<1>3. ASSUME E!Unchanged(l), \A j \in E!Heirs(l.row) : accounts[j].key # NoKey,
             accounts' = [i \in E!Ids |->
               IF i = l.row THEN E!Absent
               ELSE IF i \in E!Heirs(l.row) THEN [accounts[i] EXCEPT !.owner = TRUE, !.dual = TRUE]
               ELSE accounts[i]]
      PROVE  RowLeaves(l)
  <2> SUFFICES ASSUME NEW i \in E!Ids \ {l.row}
               PROVE  /\ accounts'[i] \in Accounts
                      /\ accounts'[i].phone = accounts[i].phone
                      /\ accounts'[i].key = accounts[i].key
                      /\ accounts'[i].active = accounts[i].active
                      /\ accounts'[i] = accounts[i] \/ i \in E!Heirs(l.row)
                      /\ i \in E!Heirs(l.row) => accounts'[i].owner
    <3>1. accounts'[l.row] = E!Absent /\ E!Absent \in Accounts
      BY <1>1, <1>3, BlankAccount
    <3>2. DOMAIN accounts' = E!Ids /\ accounts' = [i \in E!Ids |-> accounts'[i]]
      BY <1>3
    <3>. QED  BY <1>3, <3>1, <3>2 DEF RowLeaves
  <2>1. accounts[i] \in Accounts
    BY DEF EnrollmentInv, EnrollmentTypes
  <2>2. CASE i \in E!Heirs(l.row)
    <3>1. accounts'[i] = [accounts[i] EXCEPT !.owner = TRUE, !.dual = TRUE]
      BY <1>3, <2>2
    <3>. QED  BY <2>1, <2>2, <3>1 DEF Accounts
  <2>3. CASE i \notin E!Heirs(l.row)
    BY <1>3, <2>1, <2>3
  <2>. QED  BY <2>2, <2>3
<1>4. accounts' = accounts \/ RowLeaves(l)
  BY <1>3 DEF E!FinishLeaving
<1>. QED  BY <1>1, <1>2, <1>4

LEMMA LeavingStep ==
  ASSUME EnrollmentInv, NEW l \in leaving, E!FinishLeaving(l)
  PROVE  EnrollmentInv'
<1>1. /\ l.row \in E!Ids /\ l.key \in E!Credentials \cup {NoKey} /\ l.revoked
      /\ leaving' \subseteq leaving /\ UNCHANGED <<nextId, keyState, challenge, submits, approving, keyPast>>
  BY LeavingEnds
<1>2. CASE accounts' = accounts
  BY <1>1, <1>2, HandlersChange DEF EnrollmentInv, EnrollmentTypes, KnownKeys, NewKeys
<1>3. CASE RowLeaves(l)
  <2>1. EnrollmentTypes'
    BY <1>1, <1>3 DEF EnrollmentInv, EnrollmentTypes, RowLeaves
  <2>2. \A i \in E!Ids : accounts'[i].phone # NoPhone => accounts[i].phone # NoPhone
    BY <1>3, BlankAccount DEF RowLeaves
  <2>3. FreeRows'
    <3>1. \A i \in E!Ids : accounts'[i].phone = NoPhone => accounts'[i] = E!Absent
      <4> SUFFICES ASSUME NEW i \in E!Ids, i # l.row, accounts'[i].phone = NoPhone
                   PROVE  accounts'[i] = E!Absent
        BY <1>3 DEF RowLeaves
      <4>1. accounts[i] = E!Absent
        BY <1>3 DEF RowLeaves, EnrollmentInv, FreeRows
      <4>2. i \notin E!Heirs(l.row)
        BY <1>1, <4>1, HeirFacts, BlankAccount
      <4>. QED  BY <1>3, <4>1, <4>2 DEF RowLeaves
    <3>2. \A i \in E!Ids : i >= nextId' => accounts'[i].phone = NoPhone
      BY <1>1, <2>2 DEF EnrollmentInv, FreeRows
    <3>. QED  BY <3>1, <3>2 DEF FreeRows, E!Absent
  <2>4. KnownKeys' /\ NewKeys' /\ RevokedForGood'
    BY <1>1, <1>3, BlankAccount DEF RowLeaves, EnrollmentInv, KnownKeys, NewKeys, RevokedForGood
  <2>5. PastIsKnown'
    BY <1>1, <1>3, BlankAccount DEF RowLeaves, EnrollmentInv, PastIsKnown
  <2>6. LinkedOrTaken'
    <3> SUFFICES ASSUME NEW c \in E!Credentials, keyPast[c] = "linked", keyState[c] \notin Taken
                 PROVE  \E i \in E!Ids : accounts'[i].key = c /\ accounts'[i].phone = PhoneOf[c]
      BY <1>1 DEF LinkedOrTaken, HasAccount
    <3>1. PICK i \in E!Ids : accounts[i].key = c /\ accounts[i].phone = PhoneOf[c]
      BY DEF EnrollmentInv, LinkedOrTaken, HasAccount
    <3>2. c # NoKey
      BY EnrollmentConstants
    <3>3. i # l.row
      BY <1>1, <1>3, <3>1, <3>2 DEF RowLeaves, E!Unchanged, EnrollmentInv, RevokedForGood
    <3>. QED  BY <1>3, <3>1, <3>3 DEF RowLeaves
  <2>. QED  BY <2>1, <2>3, <2>4, <2>5, <2>6 DEF EnrollmentInv
<1>. QED  BY <1>2, <1>3, LeavingEnds

LEMMA EnrollmentStep == ASSUME EnrollmentInv, [E!Next]_E!vars  PROVE EnrollmentInv'
<1>1. CASE UNCHANGED E!vars
  <2>1. UNCHANGED <<accounts, nextId, keyState, challenge, submits, approving, leaving, keyPast>>
    BY <1>1 DEF E!vars, E!handlers
  <2>. QED  BY <2>1, HandlersChange DEF EnrollmentInv, EnrollmentTypes, KnownKeys, NewKeys
<1>2. CASE E!Accounts
  BY <1>2, RequestStep, SetActiveStep, DisableTenantStep DEF E!Accounts
<1>3. CASE E!Keys
  BY <1>3, BootstrapStep, BindStep, ChallengeSteps, KeySubmitStep, ApprovalStep, WithdrawStep DEF E!Keys
<1>4. CASE E!Leaving
  BY <1>4, PreflightStep, LogoutStep, RevokeStep, LeavingStep DEF E!Leaving
<1>. QED  BY <1>1, <1>2, <1>3, <1>4, ChallengeSteps DEF E!Next

LEMMA EnrollmentAlways == Spec => [](part = "enrollment" => EnrollmentInv)
<1>1. Init => (part = "enrollment" => EnrollmentInv)
  BY EnrollmentInit DEF Init
<1>2. (part = "enrollment" => EnrollmentInv) /\ [Next]_vars => (part = "enrollment" => EnrollmentInv)'
  <2> SUFFICES ASSUME part = "enrollment" => EnrollmentInv, [Next]_vars, part' = "enrollment"
               PROVE  EnrollmentInv'
    OBVIOUS
  <2>1. part = "enrollment" /\ [E!Next]_E!vars
    BY DEF Next, vars, E!vars, E!handlers
  <2>. QED  BY <2>1, EnrollmentStep
<1>. QED  BY <1>1, <1>2, PTL DEF Spec

LEMMA KeyAccounted == ASSUME EnrollmentInv  PROVE E!KeyHasItsAccount
<1> SUFFICES ASSUME NEW c \in E!Credentials, keyState[c] = "ACTIVE", c \in Chosen \/ keyPast[c] = "linked"
             PROVE  HasAccount(c)
  BY DEF E!KeyHasItsAccount, E!Keyed, HasAccount
<1>1. keyPast[c] = "linked"
  BY DEF EnrollmentInv, PastIsKnown
<1>. QED  BY <1>1 DEF EnrollmentInv, LinkedOrTaken, Taken

(* A live key that the app chose, and any other live key that an account    *)
(* was linked to and no late approval has revived, has an account of its    *)
(* phone through which it can be revoked, however registrations, enrolments,*)
(* deletions and logouts overlap (main.py, acl_management.py).              *)
THEOREM KeyAlwaysHasItsAccount == Spec => []KeyHasItsAccount
<1>1. (part = "enrollment" => EnrollmentInv) => KeyHasItsAccount
  BY KeyAccounted DEF KeyHasItsAccount
<1>. QED  BY <1>1, EnrollmentAlways, PTL

(* The steps on which the owner changes.                                    *)
SameOwners == \A i \in E!Ids : accounts'[i].owner = accounts[i].owner

LEMMA OwnersStay == ASSUME SameOwners  PROVE E!OwnerPassesOn
  BY DEF SameOwners, E!OwnerPassesOn, E!Owners

LEMMA OwnerStep ==
  ASSUME EnrollmentInv, E!Next  PROVE E!OwnerPassesOn
<1>1. ASSUME accounts' = accounts  PROVE E!OwnerPassesOn
  BY <1>1, OwnersStay DEF SameOwners
<1>2. ASSUME NEW p \in Phones, E!Request(p)  PROVE E!OwnerPassesOn
  <2> DEFINE a == [E!Absent EXCEPT !.phone = p]
  <2>1. nextId \in E!Ids /\ accounts' = [accounts EXCEPT ![nextId] = a]
    BY <1>2 DEF E!Request
  <2>2. a.owner = FALSE /\ E!Absent.owner = FALSE
    BY DEF E!Absent
  <2>3. nextId \in Nat /\ accounts[nextId] = E!Absent /\ DOMAIN accounts = E!Ids
    BY <2>1 DEF EnrollmentInv, EnrollmentTypes, FreeRows
  <2> HIDE DEF a
  <2>4. SameOwners
    BY <2>1, <2>2, <2>3 DEF SameOwners
  <2>. QED  BY <2>4, OwnersStay
<1>3. ASSUME NEW i \in E!Ids, NEW b \in BOOLEAN, E!SetActive(i, b)  PROVE E!OwnerPassesOn
  <2>1. accounts' = [accounts EXCEPT ![i] = [accounts[i] EXCEPT !.active = b]] /\ DOMAIN accounts = E!Ids
        /\ accounts[i] \in Accounts
    BY <1>3 DEF E!SetActive, EnrollmentInv, EnrollmentTypes
  <2>2. [accounts[i] EXCEPT !.active = b].owner = accounts[i].owner
    BY <2>1 DEF Accounts
  <2>3. SameOwners
    BY <2>1, <2>2 DEF SameOwners
  <2>. QED  BY <2>3, OwnersStay
<1>4. CASE E!DisableTenant
  <2> SUFFICES ASSUME NEW i \in E!Ids  PROVE accounts'[i].owner = accounts[i].owner
    BY OwnersStay DEF SameOwners
  <2>1. accounts[i] \in Accounts
        /\ accounts'[i] = IF accounts[i].owner THEN [accounts[i] EXCEPT !.active = FALSE] ELSE accounts[i]
    BY <1>4 DEF E!DisableTenant, EnrollmentInv, EnrollmentTypes
  <2>. QED  BY <2>1 DEF Accounts
<1>5. ASSUME NEW i \in E!Ids, NEW c \in E!Credentials, E!Bind(i, c)  PROVE E!OwnerPassesOn
  <2>1. accounts' = [accounts EXCEPT ![i] = [accounts[i] EXCEPT !.key = c]] /\ DOMAIN accounts = E!Ids
        /\ accounts[i] \in Accounts
    BY <1>5 DEF E!Bind, EnrollmentInv, EnrollmentTypes
  <2>2. [accounts[i] EXCEPT !.key = c].owner = accounts[i].owner
    BY <2>1 DEF Accounts
  <2>3. SameOwners
    BY <2>1, <2>2 DEF SameOwners
  <2>. QED  BY <2>3, OwnersStay
<1>6. ASSUME NEW i \in E!Ids, NEW c \in Chosen, E!Bootstrap(i, c)  PROVE E!OwnerPassesOn
  <2> DEFINE o == E!Owners \subseteq {i}
             a == [accounts[i] EXCEPT !.dual = TRUE, !.key = c, !.owner = o]
  <2>1. accounts' = [accounts EXCEPT ![i] = a] /\ DOMAIN accounts = E!Ids /\ accounts[i] \in Accounts
    BY <1>6 DEF E!Bootstrap, EnrollmentInv, EnrollmentTypes
  <2>2. o => E!Owners \subseteq {i}
    OBVIOUS
  <2>3. ~o => \E j \in E!Ids : j # i /\ accounts[j].owner
    BY DEF E!Owners
  <2> HIDE DEF o
  <2>4. a.owner = o /\ a.key = c
    BY <2>1 DEF Accounts
  <2> HIDE DEF a
  <2>5. accounts'[i].owner = o /\ accounts'[i].key = c /\ c # NoKey
        /\ \A j \in E!Ids : j # i => accounts'[j] = accounts[j]
    BY <2>1, <2>4, EnrollmentConstants
  <2>. QED  BY <2>3, <2>5 DEF E!OwnerPassesOn, E!Owners
<1>7. ASSUME NEW l \in leaving, E!FinishLeaving(l)  PROVE E!OwnerPassesOn
  <2>1. CASE accounts' = accounts
    BY <1>1, <2>1
  <2>2. CASE RowLeaves(l)
    <3>1. l.row \in E!Ids
      BY <1>7, LeavingEnds
    <3>2. /\ E!Heirs(l.row) \subseteq E!Ids \ {l.row}
          /\ E!Heirs(l.row) = {} => ~accounts[l.row].owner \/ E!Actives(l.row) = {}
      BY <3>1, HeirFacts
    <3>3. ASSUME NEW i \in E!Ids, accounts'[i].owner, ~accounts[i].owner  PROVE accounts'[i].key # NoKey
      BY <2>2, <3>1, <3>3, BlankAccount DEF RowLeaves
    <3>4. ASSUME E!Owners # {}, E!Owners' = {}, NEW i \in E!Ids  PROVE ~accounts'[i].active
      <4>1. PICK j \in E!Ids : accounts[j].owner
        BY <3>4 DEF E!Owners
      <4>2. \A k \in E!Ids : ~accounts'[k].owner
        BY <3>4 DEF E!Owners
      <4>3. j = l.row /\ E!Heirs(l.row) = {}
        BY <2>2, <3>2, <4>1, <4>2 DEF RowLeaves
      <4>4. E!Actives(l.row) = {}
        BY <3>2, <4>1, <4>3
      <4>. QED  BY <2>2, <4>4, BlankAccount DEF RowLeaves, E!Actives
    <3>5. E!Owners # {} /\ E!Owners' = {} => \A i \in E!Ids : ~accounts'[i].active
      BY <3>4
    <3>6. \A i \in E!Owners' \ E!Owners : accounts'[i].key # NoKey
      BY <3>3 DEF E!Owners
    <3>. QED  BY <3>5, <3>6 DEF E!OwnerPassesOn
  <2>. QED  BY <1>7, <2>1, <2>2, LeavingEnds
<1>8. E!Crash => accounts' = accounts
  BY DEF E!Crash
<1>9. E!Accounts => E!OwnerPassesOn
  BY <1>2, <1>3, <1>4 DEF E!Accounts
<1>10. E!Keys => E!OwnerPassesOn
  BY <1>1, <1>5, <1>6
  DEF E!Keys, E!IssueChallenge, E!SubmitChecked, E!SubmitCommitted, E!ApprovalChecked, E!ApprovalWritten,
      E!Withdraw, E!ReconcileOnly, E!handlers
<1>11. E!Leaving => E!OwnerPassesOn
  BY <1>1, <1>7 DEF E!Leaving, E!DeletePreflight, E!LogoutProof, E!Leave, E!RevokeKey
<1>. QED  BY <1>1, <1>8, <1>9, <1>10, <1>11 DEF E!Next

(* A key enters the table by the end of a submission or by the app's choice.*)
LEMMA ChallengeStep ==
  ASSUME EnrollmentInv, E!Next  PROVE E!OneKeyPerChallenge
<1> SUFFICES ASSUME NEW c \in Enrolled, keyState[c] = "ABSENT", keyState'[c] # "ABSENT"
             PROVE  \E e \in Challenges : challenge[e] = "issued" /\ challenge'[e] = "used"
  BY DEF E!OneKeyPerChallenge
<1>1. c \in E!Credentials /\ c \notin Chosen /\ c # NoKey /\ keyState \in [E!Credentials -> KeyStates]
  BY EnrollmentConstants DEF EnrollmentInv, EnrollmentTypes
<1>2. ASSUME NEW r \in submits, E!SubmitCommitted(r)
      PROVE  \E e \in Challenges : challenge[e] = "issued" /\ challenge'[e] = "used"
  <2>1. r.challenge \in Challenges /\ challenge \in [Challenges -> {"none", "issued", "used"}]
    BY DEF EnrollmentInv, EnrollmentTypes
  <2>2. challenge[r.challenge] = "issued" /\ challenge' = [challenge EXCEPT ![r.challenge] = "used"]
    BY <1>2 DEF E!SubmitCommitted
  <2>. QED  BY <2>1, <2>2
<1>3. ASSUME NEW d, NEW s, keyState' = [keyState EXCEPT ![d] = s]  PROVE d = c
  BY <1>1, <1>3
<1>4. E!Accounts => keyState' = keyState
  BY DEF E!Accounts, E!Request, E!SetActive, E!DisableTenant
<1>5. ASSUME NEW i \in E!Ids, NEW d \in Chosen, E!Bootstrap(i, d)  PROVE FALSE
  BY <1>1, <1>3, <1>5 DEF E!Bootstrap
<1>6. ASSUME NEW d \in Enrolled, E!ApprovalWritten(d)  PROVE FALSE
  BY <1>3, <1>6 DEF E!ApprovalWritten, EnrollmentInv, KnownKeys
<1>7. ASSUME NEW d \in E!Credentials, NEW s \in Withdrawn, E!Withdraw(d, s)  PROVE FALSE
  BY <1>3, <1>7 DEF E!Withdraw
<1>8. ASSUME NEW l \in leaving, E!RevokeKey(l)  PROVE FALSE
  BY <1>1, <1>3, <1>8 DEF E!RevokeKey, EnrollmentInv, KnownKeys
<1>9. E!Keys => \E r \in submits : E!SubmitCommitted(r)
  BY <1>5, <1>6, <1>7
  DEF E!Keys, E!Bind, E!IssueChallenge, E!SubmitChecked, E!ApprovalChecked, E!ReconcileOnly, E!handlers
<1>10. ~E!Leaving
  BY <1>8 DEF E!Leaving, E!DeletePreflight, E!LogoutProof, E!Leave, E!FinishLeaving
<1>11. ~E!Crash
  BY DEF E!Crash
<1>. QED  BY <1>2, <1>4, <1>9, <1>10, <1>11 DEF E!Next

(* The tenant loses its owner only when no account is active any more, an   *)
(* account that takes it over has a key, and a challenge admits one key     *)
(* (delete_tenant_admin, mobile_account_logout, submit_enrollment).         *)
THEOREM TenantAlwaysKept == Spec => TenantIsKept
<1>1. (part = "enrollment" => EnrollmentInv) /\ [Next]_vars => [part = "enrollment" => E!TenantIsKept]_vars
  <2> SUFFICES ASSUME part = "enrollment" => EnrollmentInv, Next, part = "enrollment"
               PROVE  E!TenantIsKept
    OBVIOUS
  <2>1. E!Next /\ EnrollmentInv
    BY DEF Next
  <2>. QED  BY <2>1, OwnerStep, ChallengeStep DEF E!TenantIsKept
<1>. QED  BY <1>1, EnrollmentAlways, PTL DEF Spec, TenantIsKept

HIDE DEF accounts, nextId, keyState, tenant, challenge, submits, approving, leaving, keyPast

-----------------------------------------------------------------------------
(* AdminControl.                                                           *)
(*                                                                         *)
(* What permits an effect (a nonce, a PENDING proposal) is spent in the    *)
(* transaction that precedes it, and only the handler that spent it may    *)
(* publish: a permit is unspent, or in the hands of one handler, or gone;  *)
(* what it permits has not happened in the first two.                      *)
proposal  == x3
used      == x4
opens     == x6
told      == x10
deletionJob == x11
deletions == x12
exports   == x14
audit     == x15
call      == x16
USE DEF proposal, used, opens, told, deletionJob, deletions, exports, audit, call

Proposals == [status : {"none", "PENDING", "RECONCILIATION_REQUIRED", "PUBLISHED"},
              proposer : Operators \cup {"nobody"},
              approver : Approvers \cup {"nobody"}, fresh : BOOLEAN]

ControlTypes == proposal \in Proposals /\ opens \in [A!Things -> Nat] /\ DOMAIN call = Handlers

Spent(t) == IF t = "proposal" THEN proposal.status \notin {"none", "PENDING"} ELSE t \in used
Publishes(h, t) == call[h].pc = "publish" /\ call[h].for = t

(* A permit is unspent, or one handler has it, or it is gone.               *)
PermitSpentOnce ==
  \A t \in A!Things :
    /\ opens[t] <= 1
    /\ ~Spent(t) => opens[t] = 0
    /\ \A h \in Handlers :
         Publishes(h, t) => /\ Spent(t) /\ opens[t] = 0
                            /\ \A g \in Handlers : Publishes(g, t) => g = h

KeyUsedOnce == deletions <= 1 /\ (deletionJob = "none" => deletions = 0)

(* What an effect leaves behind was there before it.                        *)
NamesKept ==
  Spent("proposal") =>
    proposal.approver \in Approvers \ {proposal.proposer} /\ A!Entry("reserved") \in audit
AuditKept ==
  /\ \A h \in Handlers : call[h].pc \in {"save", "tell"} => <<"config", call[h].value>> \in audit
  /\ \A v \in told : <<"config", v>> \in audit
  /\ deletions > 0 => A!Entry("deleted") \in audit
  /\ exports > 0 => A!Entry("exported") \in audit

ControlInv == ControlTypes /\ PermitSpentOnce /\ KeyUsedOnce /\ NamesKept /\ AuditKept

LEMMA ControlInit ==
  ASSUME A!ControlAssumption, A!Init  PROVE ControlInv
<1>1. ControlTypes
  BY DEF A!Init, ControlTypes, A!NoProposal, Proposals
<1>2. ~Spent("proposal") /\ \A t \in A!Things : opens[t] = 0
  BY DEF A!Init, Spent, A!NoProposal
<1>3. \A h \in Handlers : call[h].pc = "idle"
  BY DEF A!Init, A!Rest, A!At
<1>4. PermitSpentOnce
  BY <1>2, <1>3 DEF PermitSpentOnce, Publishes
<1>5. AuditKept /\ KeyUsedOnce
  BY <1>3 DEF A!Init, AuditKept, KeyUsedOnce
<1>. QED  BY <1>1, <1>2, <1>4, <1>5 DEF ControlInv, NamesKept

(* Where a handler goes; the others stay where they are.                    *)
HandlerMoved(h) == DOMAIN call' = Handlers /\ \A g \in Handlers : g # h => call'[g] = call[g]

LEMMA Moves ==
  ASSUME ControlInv, NEW h \in Handlers, NEW c, call' = [call EXCEPT ![h] = c]
  PROVE  HandlerMoved(h) /\ call'[h] = c
<1>1. DOMAIN call = Handlers
  BY DEF ControlInv, ControlTypes
<1>. QED  BY <1>1 DEF HandlerMoved

LEMMA DoesOf ==
  ASSUME ControlInv, NEW h \in Handlers, NEW pc, NEW for, A!Does(h, pc, for)
  PROVE  HandlerMoved(h) /\ call'[h].pc = pc /\ call'[h].for = for
<1>1. call' = [call EXCEPT ![h] = A!At(pc, for, 0)]
  BY DEF A!Does
<1>2. HandlerMoved(h) /\ call'[h] = A!At(pc, for, 0)
  BY <1>1, Moves
<1>. QED  BY <1>2 DEF A!Rest, A!At

LEMMA GoesOf ==
  ASSUME ControlInv, NEW h \in Handlers, NEW pc, NEW v, A!Goes(h, pc, v)
  PROVE  HandlerMoved(h) /\ call'[h].pc = pc /\ call'[h].value = v
<1>1. call' = [call EXCEPT ![h] = A!At(pc, "nothing", v)]
  BY DEF A!Goes
<1>2. HandlerMoved(h) /\ call'[h] = A!At(pc, "nothing", v)
  BY <1>1, Moves
<1>. QED  BY <1>2 DEF A!Rest, A!At

LEMMA EndsOf ==
  ASSUME ControlInv, NEW h \in Handlers, A!Ends(h)
  PROVE  HandlerMoved(h) /\ call'[h].pc = "idle"
<1>1. call' = [call EXCEPT ![h] = A!Rest]
  BY DEF A!Ends
<1>2. HandlerMoved(h) /\ call'[h] = A!Rest
  BY <1>1, Moves
<1>. QED  BY <1>2 DEF A!Rest, A!At

(* The steps that neither spend nor use a permit.                           *)
LEMMA PermitsSame ==
  ASSUME ControlInv, opens' = opens, \A t \in A!Things : Spent(t)' <=> Spent(t),
         \A h \in Handlers : call'[h].pc = "publish" => call'[h] = call[h]
  PROVE  PermitSpentOnce'
<1>1. \A h \in Handlers, t \in A!Things : Publishes(h, t)' => Publishes(h, t)
  BY DEF Publishes
<1>. QED  BY <1>1 DEF ControlInv, PermitSpentOnce

(* A permit is spent by the handler that will publish, or by nobody.        *)
LEMMA PermitSpends ==
  ASSUME ControlInv, NEW h \in Handlers, NEW t \in A!Things, ~Spent(t), Spent(t)', opens' = opens,
         \A u \in A!Things : u # t => (Spent(u)' <=> Spent(u)),
         call' = call \/ (HandlerMoved(h) /\ call'[h].pc = "publish" /\ call'[h].for = t)
  PROVE  PermitSpentOnce'
<1>1. \A g \in Handlers : ~Publishes(g, t)
  BY DEF ControlInv, PermitSpentOnce
<1>2. \A g \in Handlers, u \in A!Things : Publishes(g, u)' => Publishes(g, u) \/ (g = h /\ u = t)
  <2>1. CASE call' = call
    BY <2>1 DEF Publishes
  <2>2. CASE HandlerMoved(h) /\ call'[h].pc = "publish" /\ call'[h].for = t
    BY <2>2 DEF Publishes, HandlerMoved
  <2>. QED  BY <2>1, <2>2
<1>3. ASSUME NEW u \in A!Things
      PROVE  /\ opens'[u] <= 1
             /\ ~Spent(u)' => opens'[u] = 0
             /\ \A g \in Handlers :
                  Publishes(g, u)' => /\ Spent(u)' /\ opens'[u] = 0
                                      /\ \A k \in Handlers : Publishes(k, u)' => k = g
  <2>1. CASE u = t
    BY <1>1, <1>2, <2>1 DEF ControlInv, PermitSpentOnce
  <2>2. CASE u # t
    BY <1>2, <2>2 DEF ControlInv, PermitSpentOnce
  <2>. QED  BY <2>1, <2>2
<1>. QED  BY <1>3 DEF PermitSpentOnce

LEMMA SessionSteps ==
  ASSUME A!ControlAssumption, ControlInv, A!Login \/ A!Logout \/ A!Revoke \/ A!WithdrawConsent
  PROVE  ControlInv'
<1>1. UNCHANGED <<proposal, used, opens, told, deletionJob, deletions, exports, audit, call>>
  BY DEF A!Login, A!Logout, A!Revoke, A!WithdrawConsent, A!approval, A!phone, A!data
<1>2. \A t \in A!Things : Spent(t)' <=> Spent(t)
  BY <1>1 DEF Spent
<1>3. PermitSpentOnce'
  BY <1>1, <1>2, PermitsSame
<1>4. NamesKept'
  BY <1>1 DEF ControlInv, NamesKept, Spent
<1>. QED  BY <1>1, <1>3, <1>4 DEF ControlInv, ControlTypes, KeyUsedOnce, AuditKept

LEMMA ProposalSteps ==
  ASSUME A!ControlAssumption, ControlInv, A!Propose \/ A!ProposalExpires
  PROVE  ControlInv'
<1>1. UNCHANGED <<used, opens, told, deletionJob, deletions, exports, call>> /\ audit \subseteq audit'
  BY DEF A!Propose, A!ProposalExpires, A!phone, A!data
<1>2. ~Spent("proposal") /\ ~Spent("proposal")' /\ ControlTypes'
  <2>1. CASE A!Propose
    <3>1. PICK a \in Operators : proposal' = [A!NoProposal EXCEPT !.status = "PENDING", !.proposer = a]
      BY <2>1 DEF A!Propose
    <3>2. proposal' \in Proposals /\ proposal'.status = "PENDING"
      BY <3>1 DEF A!NoProposal, Proposals
    <3>. QED  BY <1>1, <2>1, <3>2 DEF A!Propose, Spent, ControlInv, ControlTypes
  <2>2. CASE A!ProposalExpires
    <3>1. proposal' \in Proposals /\ proposal'.status = "PENDING"
      BY <2>2 DEF A!ProposalExpires, ControlInv, ControlTypes, Proposals
    <3>. QED  BY <1>1, <2>2, <3>1 DEF A!ProposalExpires, Spent, ControlInv, ControlTypes
  <2>. QED  BY <2>1, <2>2
<1>3. \A t \in A!Things : Spent(t)' <=> Spent(t)
  BY <1>1, <1>2 DEF Spent
<1>4. PermitSpentOnce'
  BY <1>1, <1>3, PermitsSame
<1>5. NamesKept'
  BY <1>2 DEF NamesKept
<1>. QED  BY <1>1, <1>2, <1>4, <1>5 DEF ControlInv, KeyUsedOnce, AuditKept

LEMMA ReserveStep ==
  ASSUME A!ControlAssumption, ControlInv, NEW h \in Handlers, A!Reserve(h)
  PROVE  ControlInv'
<1>1. PICK a \in Approvers : a # proposal.proposer /\ proposal' = A!Reserved(a)
  BY DEF A!Reserve, A!Another
<1>2. /\ UNCHANGED <<used, opens, told, deletionJob, deletions, exports>>
      /\ audit' = audit \union {A!Entry("reserved")} /\ proposal.status = "PENDING"
  BY DEF A!Reserve, A!phone, A!data
<1>3. /\ proposal' \in Proposals /\ proposal'.status = "RECONCILIATION_REQUIRED"
      /\ proposal'.approver = a /\ proposal'.proposer = proposal.proposer
  BY <1>1 DEF A!Reserved, ControlInv, ControlTypes, Proposals
<1>4. ~Spent("proposal") /\ Spent("proposal")' /\ \A u \in A!Things : u # "proposal" => (Spent(u)' <=> Spent(u))
  BY <1>2, <1>3 DEF Spent
<1>5. call' = call \/ (HandlerMoved(h) /\ call'[h].pc = "publish" /\ call'[h].for = "proposal")
  BY DoesOf DEF A!Reserve
<1>6. PermitSpentOnce'
  BY <1>2, <1>4, <1>5, PermitSpends DEF A!Things
<1>7. ControlTypes'
  BY <1>2, <1>3, <1>5 DEF ControlInv, ControlTypes, HandlerMoved
<1>8. NamesKept'
  BY <1>1, <1>2, <1>3 DEF NamesKept
<1>9. AuditKept'
  BY <1>2, <1>5 DEF ControlInv, AuditKept, HandlerMoved
<1>. QED  BY <1>2, <1>6, <1>7, <1>8, <1>9 DEF ControlInv, KeyUsedOnce

LEMMA FinishStep ==
  ASSUME A!ControlAssumption, ControlInv, NEW h \in Handlers, A!Finish(h)
  PROVE  ControlInv'
<1>1. UNCHANGED <<used, opens, told, deletionJob, deletions, exports>> /\ audit \subseteq audit' /\ A!Ends(h)
  BY DEF A!Finish, A!phone, A!data
<1>2. \/ proposal' = proposal
      \/ proposal.status = "RECONCILIATION_REQUIRED" /\ proposal' = [proposal EXCEPT !.status = "PUBLISHED"]
  BY DEF A!Finish
<1>3. /\ proposal' \in Proposals
      /\ proposal'.status \in {"none", "PENDING"} <=> proposal.status \in {"none", "PENDING"}
      /\ proposal'.approver = proposal.approver /\ proposal'.proposer = proposal.proposer
  BY <1>2 DEF ControlInv, ControlTypes, Proposals
<1>4. HandlerMoved(h) /\ call'[h].pc = "idle"
  BY <1>1, EndsOf
<1>5. \A t \in A!Things : Spent(t)' <=> Spent(t)
  BY <1>1, <1>3 DEF Spent
<1>6. PermitSpentOnce'
  BY <1>1, <1>4, <1>5, PermitsSame DEF HandlerMoved
<1>7. ControlTypes'
  BY <1>1, <1>3, <1>4 DEF ControlInv, ControlTypes, HandlerMoved
<1>8. NamesKept'
  BY <1>1, <1>3 DEF ControlInv, NamesKept, Spent
<1>9. AuditKept'
  BY <1>1, <1>4 DEF ControlInv, AuditKept, HandlerMoved
<1>. QED  BY <1>1, <1>6, <1>7, <1>8, <1>9 DEF ControlInv, KeyUsedOnce

LEMMA ConsumeStep ==
  ASSUME A!ControlAssumption, ControlInv, NEW h \in Handlers, A!Consume(h)
  PROVE  ControlInv'
<1>1. PICK n \in Proofs \ used : used' = used \union {n} /\ (A!Does(h, "publish", n) \/ call' = call)
  BY DEF A!Consume, A!Consumed
<1>2. UNCHANGED <<proposal, opens, told, deletionJob, deletions, exports, audit>>
  BY DEF A!Consume, A!approval, A!data
<1>3. n \in A!Things /\ n # "proposal"
  BY DEF A!Things, A!ControlAssumption
<1>4. ~Spent(n) /\ Spent(n)' /\ \A u \in A!Things : u # n => (Spent(u)' <=> Spent(u))
  BY <1>1, <1>2, <1>3 DEF Spent
<1>5. call' = call \/ (HandlerMoved(h) /\ call'[h].pc = "publish" /\ call'[h].for = n)
  BY <1>1, DoesOf
<1>6. PermitSpentOnce'
  BY <1>2, <1>3, <1>4, <1>5, PermitSpends
<1>7. ControlTypes'
  BY <1>2, <1>5 DEF ControlInv, ControlTypes, HandlerMoved
<1>8. NamesKept'
  BY <1>2 DEF ControlInv, NamesKept, Spent
<1>9. AuditKept'
  BY <1>2, <1>5 DEF ControlInv, AuditKept, HandlerMoved
<1>. QED  BY <1>2, <1>6, <1>7, <1>8, <1>9 DEF ControlInv, KeyUsedOnce

(* The one step that uses a permit: nobody else has it.                     *)
LEMMA PublishOpenStep ==
  ASSUME A!ControlAssumption, ControlInv, NEW h \in Handlers, A!PublishOpen(h)
  PROVE  ControlInv'
<1>1. PICK t \in A!Things : t = call[h].for /\ Publishes(h, t)
  BY DEF A!PublishOpen, Publishes
<1>2. UNCHANGED <<proposal, used, told, deletionJob, deletions, exports, audit>>
  BY DEF A!PublishOpen, A!approval, A!phone, A!data
<1>3. HandlerMoved(h) /\ call'[h].pc \in {"idle", "finish"}
  BY DoesOf, EndsOf DEF A!PublishOpen
<1>4. opens' = opens \/ opens' = [opens EXCEPT ![t] = @ + 1]
  BY <1>1 DEF A!PublishOpen
<1>5. Spent(t) /\ opens[t] = 0 /\ \A g \in Handlers : Publishes(g, t) => g = h
  BY <1>1 DEF ControlInv, PermitSpentOnce
<1>6. \A u \in A!Things : Spent(u)' <=> Spent(u)
  BY <1>2 DEF Spent
<1>7. \A g \in Handlers, u \in A!Things : Publishes(g, u)' => g # h /\ u # t /\ Publishes(g, u)
  BY <1>3, <1>5 DEF Publishes, HandlerMoved
<1>8. opens' \in [A!Things -> Nat] /\ opens'[t] <= 1 /\ \A u \in A!Things : u # t => opens'[u] = opens[u]
  BY <1>4, <1>5 DEF ControlInv, ControlTypes
<1>9. PermitSpentOnce'
  <2>1. ASSUME NEW u \in A!Things
        PROVE  /\ opens'[u] <= 1
               /\ ~Spent(u)' => opens'[u] = 0
               /\ \A g \in Handlers :
                    Publishes(g, u)' => /\ Spent(u)' /\ opens'[u] = 0
                                        /\ \A k \in Handlers : Publishes(k, u)' => k = g
    <3>1. CASE u = t
      BY <1>5, <1>6, <1>7, <1>8, <3>1
    <3>2. CASE u # t
      BY <1>6, <1>7, <1>8, <3>2 DEF ControlInv, PermitSpentOnce
    <3>. QED  BY <3>1, <3>2
  <2>. QED  BY <2>1 DEF PermitSpentOnce
<1>10. ControlTypes'
  BY <1>2, <1>3, <1>8 DEF ControlInv, ControlTypes, HandlerMoved
<1>11. NamesKept'
  BY <1>2 DEF ControlInv, NamesKept, Spent
<1>12. AuditKept'
  BY <1>2, <1>3 DEF ControlInv, AuditKept, HandlerMoved
<1>. QED  BY <1>2, <1>9, <1>10, <1>11, <1>12 DEF ControlInv, KeyUsedOnce

LEMMA ArmSteps ==
  ASSUME A!ControlAssumption, ControlInv, NEW h \in Handlers, A!LookUp(h) \/ A!PublishArm(h)
  PROVE  ControlInv'
<1>1. UNCHANGED <<proposal, used, opens, told, deletionJob, deletions, exports, audit>>
  BY DEF A!LookUp, A!PublishArm, A!approval, A!phone, A!data
<1>2. HandlerMoved(h) /\ call'[h].pc \in {"idle", "arm"}
  BY DoesOf, EndsOf DEF A!LookUp, A!PublishArm
<1>3. \A t \in A!Things : Spent(t)' <=> Spent(t)
  BY <1>1 DEF Spent
<1>4. PermitSpentOnce'
  BY <1>1, <1>2, <1>3, PermitsSame DEF HandlerMoved
<1>5. NamesKept'
  BY <1>1 DEF ControlInv, NamesKept, Spent
<1>6. AuditKept' /\ ControlTypes'
  BY <1>1, <1>2 DEF ControlInv, AuditKept, ControlTypes, HandlerMoved
<1>. QED  BY <1>1, <1>4, <1>5, <1>6 DEF ControlInv, KeyUsedOnce

LEMMA ConfigSteps ==
  ASSUME A!ControlAssumption, ControlInv, NEW h \in Handlers,
         A!ChangeConfig(h) \/ A!AuditConfig(h) \/ A!SaveConfig(h) \/ A!PublishConfig(h)
  PROVE  ControlInv'
<1>1. UNCHANGED <<proposal, used, opens, deletionJob, deletions, exports>> /\ audit \subseteq audit'
  BY DEF A!ChangeConfig, A!AuditConfig, A!SaveConfig, A!PublishConfig, A!AuditFirst, A!approval, A!phone, A!data
<1>2. /\ HandlerMoved(h) /\ call'[h].pc \in {"idle", "audit", "save", "tell"}
      /\ call'[h].pc \in {"save", "tell"} => <<"config", call'[h].value>> \in audit'
      /\ \A v \in told' : v \in told \/ (call[h].pc = "tell" /\ v = call[h].value)
  <2>1. CASE A!ChangeConfig(h)
    <3>1. PICK v \in Settings : A!Goes(h, "audit", v)
      BY <2>1 DEF A!ChangeConfig
    <3>2. HandlerMoved(h) /\ call'[h].pc = "audit"
      BY <3>1, GoesOf
    <3>. QED  BY <2>1, <3>2 DEF A!ChangeConfig
  <2>2. CASE A!AuditConfig(h)
    <3>1. told' = told
      BY <2>2 DEF A!AuditConfig, A!data
    <3>2. CASE A!Ends(h)
      BY <3>1, <3>2, EndsOf
    <3>3. CASE audit' = A!AuditFirst(h) /\ A!Goes(h, "save", call[h].value)
      BY <3>1, <3>3, GoesOf DEF A!AuditFirst
    <3>. QED  BY <2>2, <3>2, <3>3 DEF A!AuditConfig
  <2>3. CASE A!SaveConfig(h)
    <3>1. call[h].pc = "save" /\ A!Goes(h, "tell", call[h].value) /\ UNCHANGED <<told, audit>>
      BY <2>3 DEF A!SaveConfig
    <3>2. <<"config", call[h].value>> \in audit
      BY <3>1 DEF ControlInv, AuditKept
    <3>. QED  BY <3>1, <3>2, GoesOf
  <2>4. CASE A!PublishConfig(h)
    <3>1. /\ call[h].pc = "tell" /\ told' \in {told, told \union {call[h].value}} /\ A!Ends(h)
          /\ audit' = audit
      BY <2>4 DEF A!PublishConfig
    <3>. QED  BY <3>1, EndsOf
  <2>. QED  BY <2>1, <2>2, <2>3, <2>4
<1>3. \A t \in A!Things : Spent(t)' <=> Spent(t)
  BY <1>1 DEF Spent
<1>4. PermitSpentOnce'
  BY <1>1, <1>2, <1>3, PermitsSame DEF HandlerMoved
<1>5. AuditKept'
  <2>1. \A v \in told' : <<"config", v>> \in audit
    BY <1>2 DEF ControlInv, AuditKept
  <2>2. \A g \in Handlers : call'[g].pc \in {"save", "tell"} => <<"config", call'[g].value>> \in audit'
    BY <1>1, <1>2 DEF ControlInv, AuditKept, HandlerMoved
  <2>. QED  BY <1>1, <2>1, <2>2 DEF ControlInv, AuditKept
<1>6. ControlTypes'
  BY <1>1, <1>2 DEF ControlInv, ControlTypes, HandlerMoved
<1>7. NamesKept'
  BY <1>1 DEF ControlInv, NamesKept, Spent
<1>. QED  BY <1>1, <1>4, <1>5, <1>6, <1>7 DEF ControlInv, KeyUsedOnce

LEMMA DataSteps ==
  ASSUME A!ControlAssumption, ControlInv, A!Delete \/ A!Export
  PROVE  ControlInv'
<1>1. UNCHANGED <<proposal, used, opens, told, call>> /\ audit \subseteq audit'
  BY DEF A!Delete, A!Export, A!approval, A!phone
<1>2. \A t \in A!Things : Spent(t)' <=> Spent(t)
  BY <1>1 DEF Spent
<1>3. PermitSpentOnce'
  BY <1>1, <1>2, PermitsSame
<1>4. KeyUsedOnce'
  <2>1. CASE A!Delete
    BY <2>1 DEF A!Delete, A!Deletable, A!ControlAssumption, ControlInv, KeyUsedOnce
  <2>2. CASE A!Export
    BY <2>2 DEF A!Export, ControlInv, KeyUsedOnce
  <2>. QED  BY <2>1, <2>2
<1>5. AuditKept'
  BY <1>1 DEF A!Delete, A!Export, ControlInv, AuditKept
<1>6. NamesKept'
  BY <1>1 DEF ControlInv, NamesKept, Spent
<1>. QED  BY <1>1, <1>3, <1>4, <1>5, <1>6 DEF ControlInv, ControlTypes

LEMMA RestartControl ==
  ASSUME A!ControlAssumption, ControlInv, A!Restart
  PROVE  ControlInv'
<1>1. UNCHANGED <<proposal, used, opens, told, deletionJob, deletions, exports, audit>>
  BY DEF A!Restart, A!approval, A!phone
<1>2. DOMAIN call' = Handlers /\ \A h \in Handlers : call'[h].pc = "idle"
  BY DEF A!Restart, A!Rest, A!At
<1>3. \A t \in A!Things : Spent(t)' <=> Spent(t)
  BY <1>1 DEF Spent
<1>4. PermitSpentOnce'
  BY <1>1, <1>2, <1>3, PermitsSame
<1>5. NamesKept'
  BY <1>1 DEF ControlInv, NamesKept, Spent
<1>. QED  BY <1>1, <1>2, <1>4, <1>5 DEF ControlInv, ControlTypes, KeyUsedOnce, AuditKept

LEMMA ControlStep ==
  ASSUME A!ControlAssumption, ControlInv, [A!Next]_A!vars  PROVE ControlInv'
<1>1. CASE UNCHANGED A!vars
  <2>1. UNCHANGED <<proposal, used, opens, told, deletionJob, deletions, exports, audit, call>>
    BY <1>1 DEF A!vars, A!approval, A!phone, A!data
  <2>2. \A t \in A!Things : Spent(t)' <=> Spent(t)
    BY <2>1 DEF Spent
  <2>3. PermitSpentOnce'
    BY <2>1, <2>2, PermitsSame
  <2>4. NamesKept'
    BY <2>1 DEF ControlInv, NamesKept, Spent
  <2>. QED  BY <2>1, <2>3, <2>4 DEF ControlInv, ControlTypes, KeyUsedOnce, AuditKept
<1>. QED
  BY <1>1, SessionSteps, ProposalSteps, ReserveStep, FinishStep, ConsumeStep, PublishOpenStep,
     ArmSteps, ConfigSteps, DataSteps, RestartControl DEF A!Next

LEMMA ControlAlways == Spec => [](part = "control" => ControlInv)
<1>1. Init => (part = "control" => ControlInv)
  BY ControlInit, PartsAssumption DEF Init
<1>2. (part = "control" => ControlInv) /\ [Next]_vars => (part = "control" => ControlInv)'
  BY ControlStep, PartsAssumption DEF Next, vars, A!vars, A!approval, A!phone, A!data
<1>. QED  BY <1>1, <1>2, PTL DEF Spec

(* No repetition, crash or uncertain outcome opens the door twice for one   *)
(* approval or one signed request, or deletes twice under one key           *)
(* (approve_force_open, manual_open_v2, run_privacy_retention).             *)
THEOREM EffectsAlwaysOnce == Spec => []EffectsHappenOnce
<1>1. (part = "control" => ControlInv) => EffectsHappenOnce
  BY DEF ControlInv, PermitSpentOnce, KeyUsedOnce, EffectsHappenOnce, A!EffectsHappenOnce,
         A!OneOpenPerApproval, A!OneOpenPerProof, A!OneDeletionPerKey, A!Things
<1>. QED  BY <1>1, ControlAlways, PTL

(* What was done was audited before, and a force-open has two names         *)
(* (approve_force_open, _audit_admin).                                      *)
THEOREM EffectsAlwaysAccountable == Spec => []EffectIsAccountable
<1>1. (part = "control" => ControlInv) => EffectIsAccountable
  BY DEF ControlInv, ControlTypes, PermitSpentOnce, NamesKept, AuditKept, EffectIsAccountable,
         A!EffectIsAccountable, A!TwoPersons, A!EffectIsAudited, A!Things
<1>. QED  BY <1>1, ControlAlways, PTL

HIDE DEF proposal, used, opens, told, deletionJob, deletions, exports, audit, call

-----------------------------------------------------------------------------
(* BrokerActivation.                                                       *)
(*                                                                         *)
(* A service that is down has an item in the record rollback() would read, *)
(* and the item's original stands under its backup name or the service's.  *)
(* The journal names it before it is stopped, and is dropped only once     *)
(* current.json tells the same or both services are up again.              *)
known       == x1
incoming    == x2
stage       == x3
current     == x4
pendingTx   == x5
activation  == x6
drawnNames  == x7
USE DEF known, incoming, stage, current, pendingTx, activation, drawnNames

Containers == [svc : B!Services, name : Nat, id : Nat, up : BOOLEAN]
Items == [svc : B!Services, name : Nat \ {0}, id : Nat]
Activations == [n : Nat, items : Seq(Items)]
Transactions == [items : Seq(Items), prev : Seq(Activations)]
ApplySteps == {"prepare", "stop", "rename", "create", "verify"}
BackSteps == {"restore", "rename_back", "start_back"}
Activating == [op : {"none", "stage", "apply", "rollback"}, n : Nat, todo : Seq(Items),
               at : {"-", "begin", "probe", "unlink"} \cup ApplySteps \cup BackSteps,
               svc : B!Services \cup {"-"}]

(* Who holds a name among the containers C.                                 *)
Holds(C, s, n, id) == \E k \in C : k.svc = s /\ k.name = n /\ k.id = id
NoneHolds(C, s, n) == \A k \in C : ~(k.svc = s /\ k.name = n)
Serves(C, s) == \E k \in C : k.svc = s /\ k.name = 0 /\ k.up
InReach(C, it) ==
  \/ Holds(C, it.svc, it.name, it.id)
  \/ NoneHolds(C, it.svc, it.name) /\ Holds(C, it.svc, 0, it.id)
OnTheWay(C, T) == \A s \in B!Services : Serves(C, s) \/ \E it \in T : it.svc = s /\ InReach(C, it)

ItemsOf(q) == {q[i] : i \in 1..Len(q)}
(* What the rollback would go by.                                           *)
Recorded == IF pendingTx # <<>> THEN ItemsOf(pendingTx[1].items)
            ELSE IF current # <<>> THEN ItemsOf(current[1].items) ELSE {}

ActivationTypes ==
  /\ known \subseteq Containers /\ drawnNames \in Nat
  /\ current \in Seq(Activations) /\ pendingTx \in Seq(Transactions) /\ Len(pendingTx) <= 1
  /\ activation \in Activating

(* A name is held once, and no backup name is older than its draw.          *)
NamesInOrder ==
  /\ \A k, l \in known : k.svc = l.svc /\ k.name = l.name => k = l
  /\ \A k \in known : k.name <= drawnNames

(* A replacement that is under way: its name is free until the original has *)
(* it, and the journal names that original before it is touched.            *)
Journaled(n) ==
  \E it \in ItemsOf(pendingTx[1].items) :
    it.svc = activation.svc /\ it.name = activation.n /\ Holds(known, it.svc, n, it.id)

ReplaceInOrder ==
  activation.at \in ApplySteps =>
    /\ pendingTx # <<>> /\ activation.op = "apply"
    /\ activation.svc \in B!Services /\ activation.n \in 1..drawnNames
    /\ activation.svc = "mosquitto" => NoneHolds(known, "telegraf", activation.n)
    /\ activation.at \in {"prepare", "stop", "rename"} => NoneHolds(known, activation.svc, activation.n)
    /\ activation.at \in {"stop", "rename"} => Journaled(0)
    /\ activation.at = "create" => NoneHolds(known, activation.svc, 0) /\ Journaled(activation.n)

(* The journal goes when the record that is left tells the same, or when    *)
(* there is nothing to roll back.                                           *)
UnlinkInOrder ==
  activation.at = "unlink" =>
    /\ pendingTx # <<>>
    /\ \/ activation.op = "apply" /\ current # <<>> /\ current[1].items = pendingTx[1].items
       \/ activation.op = "rollback" /\ OnTheWay(known, {})

(* A restore has recorded items left to do, and what is done is served.     *)
RestoreInOrder ==
  activation.at \in BackSteps =>
    /\ activation.op \in {"apply", "rollback"} /\ (activation.op = "apply" => pendingTx # <<>>)
    /\ pendingTx # <<>> \/ current # <<>>
    /\ ItemsOf(activation.todo) \subseteq Recorded /\ OnTheWay(known, ItemsOf(activation.todo))
    /\ activation.at \in {"rename_back", "start_back"} => activation.todo # <<>>
    /\ activation.at = "rename_back" =>
         LET it == Head(activation.todo)
         IN  NoneHolds(known, it.svc, 0) /\ Holds(known, it.svc, it.name, it.id)

ActivationInv ==
  /\ ActivationTypes /\ NamesInOrder /\ OnTheWay(known, Recorded)
  /\ ReplaceInOrder /\ UnlinkInOrder /\ RestoreInOrder

LEMMA HeldFacts ==
  /\ \A s, n : (B!Held(s, n) = {} <=> NoneHolds(known, s, n)) /\ B!Held(s, n) \subseteq known
  /\ \A s, n : \A k : k \in B!Held(s, n) <=> k \in known /\ k.svc = s /\ k.name = n
  /\ \A s, n, id : B!HeldBy(s, n, id) <=> Holds(known, s, n, id)
  /\ \A s : B!Serving(s) <=> Serves(known, s)
  BY DEF B!Held, B!HeldBy, B!Serving, NoneHolds, Holds, Serves

LEMMA ItemsFacts ==
  ASSUME NEW D, NEW q \in Seq(D)
  PROVE  /\ ItemsOf(q) \subseteq D /\ (q = <<>> => ItemsOf(q) = {})
         /\ \A e \in D : ItemsOf(Append(q, e)) = ItemsOf(q) \cup {e}
         /\ q # <<>> => /\ Head(q) \in D /\ Tail(q) \in Seq(D)
                        /\ ItemsOf(q) = {Head(q)} \cup ItemsOf(Tail(q))
<1>1. ItemsOf(q) \subseteq D /\ (q = <<>> => ItemsOf(q) = {})
  BY DEF ItemsOf
<1>2. ASSUME NEW e \in D  PROVE ItemsOf(Append(q, e)) = ItemsOf(q) \cup {e}
  <2>1. /\ Append(q, e) \in Seq(D) /\ Len(Append(q, e)) = Len(q) + 1 /\ Len(q) \in Nat
        /\ Append(q, e)[Len(q) + 1] = e /\ \A i \in 1..Len(q) : Append(q, e)[i] = q[i]
    OBVIOUS
  <2> DEFINE r == Append(q, e)
             c == Len(q)
  <2>2. Len(r) = c + 1 /\ c \in Nat /\ r[c + 1] = e /\ \A i \in 1..c : r[i] = q[i]
    BY <2>1
  <2> HIDE DEF r
  <2>3. ItemsOf(q) = {q[i] : i \in 1..c} /\ ItemsOf(r) = {r[i] : i \in 1..c + 1}
    BY <2>2 DEF ItemsOf
  <2> HIDE DEF c
  <2>4. ItemsOf(r) = ItemsOf(q) \cup {e}
    BY <2>2, <2>3
  <2>. QED  BY <2>4 DEF r
<1>3. ASSUME q # <<>>
      PROVE  /\ Head(q) \in D /\ Tail(q) \in Seq(D)
             /\ ItemsOf(q) = {Head(q)} \cup ItemsOf(Tail(q))
  <2>1. /\ Head(q) \in D /\ Tail(q) \in Seq(D) /\ Head(q) = q[1] /\ Len(Tail(q)) = Len(q) - 1
        /\ Len(q) \in Nat /\ Len(q) > 0 /\ \A i \in 1..Len(q) - 1 : Tail(q)[i] = q[i + 1]
    BY <1>3
  <2> DEFINE t == Tail(q)
             c == Len(q)
             h == Head(q)
  <2>2. c \in Nat /\ c > 0 /\ Len(t) = c - 1 /\ h = q[1] /\ \A i \in 1..c - 1 : t[i] = q[i + 1]
    BY <2>1
  <2> HIDE DEF t, h
  <2>3. ItemsOf(q) = {q[i] : i \in 1..c} /\ ItemsOf(t) = {t[i] : i \in 1..c - 1}
    BY <2>2 DEF ItemsOf
  <2> HIDE DEF c
  <2>4. \A i \in 1..c : i = 1 \/ (i - 1 \in 1..c - 1 /\ q[i] = t[i - 1])
    BY <2>2
  <2>5. \A i \in 1..c - 1 : i + 1 \in 1..c /\ t[i] = q[i + 1]
    BY <2>2
  <2>6. ItemsOf(q) \subseteq {h} \cup ItemsOf(t)
    <3>1. ASSUME NEW i \in 1..c  PROVE q[i] \in {h} \cup ItemsOf(t)
      <4>1. CASE i = 1
        BY <4>1, <2>2
      <4>2. CASE i - 1 \in 1..c - 1 /\ q[i] = t[i - 1]
        BY <4>2, <2>3
      <4>. QED  BY <4>1, <4>2, <2>4
    <3>. QED  BY <3>1, <2>3
  <2>7. {h} \cup ItemsOf(t) \subseteq ItemsOf(q)
    BY <2>2, <2>3, <2>5
  <2>8. ItemsOf(q) = {h} \cup ItemsOf(t)
    BY <2>6, <2>7
  <2>. QED  BY <2>1, <2>8 DEF t, h
<1>. QED  BY <1>1, <1>2, <1>3

LEMMA FirstOf ==
  ASSUME NEW D, NEW q \in Seq(D), q # <<>>
  PROVE  q[1] \in D /\ Head(q) = q[1] /\ Tail(q) \in Seq(D)
OBVIOUS

LEMMA JournalFacts ==
  ASSUME ActivationTypes
  PROVE  /\ pendingTx # <<>> => /\ pendingTx[1] \in Transactions /\ pendingTx[1].items \in Seq(Items)
                                /\ pendingTx[1].prev \in Seq(Activations)
         /\ current # <<>> => /\ current[1] \in Activations /\ current[1].items \in Seq(Items)
                              /\ Tail(current) \in Seq(Activations)
         /\ activation.todo \in Seq(Items)
         /\ Recorded \subseteq Items
<1>1. pendingTx # <<>> => /\ pendingTx[1] \in Transactions /\ pendingTx[1].items \in Seq(Items)
                          /\ pendingTx[1].prev \in Seq(Activations)
  <2>1. pendingTx # <<>> => pendingTx[1] \in Transactions
    BY FirstOf DEF ActivationTypes
  <2>. QED  BY <2>1 DEF Transactions
<1>2. current # <<>> => /\ current[1] \in Activations /\ current[1].items \in Seq(Items)
                        /\ Tail(current) \in Seq(Activations)
  <2>1. current # <<>> => current[1] \in Activations /\ Tail(current) \in Seq(Activations)
    BY FirstOf DEF ActivationTypes
  <2>. QED  BY <2>1 DEF Activations
<1>3. activation.todo \in Seq(Items)
  BY DEF ActivationTypes, Activating
<1>. QED  BY <1>1, <1>2, <1>3, ItemsFacts DEF Recorded

(* What a step of one service leaves of the other.                          *)
Elsewhere(v) ==
  \A s \in B!Services \ {v} :
    /\ Serves(known, s) => Serves(known', s)
    /\ \A n : NoneHolds(known, s, n) => NoneHolds(known', s, n)
    /\ \A n, id : Holds(known, s, n, id) => Holds(known', s, n, id)

LEMMA WayStays ==
  ASSUME NEW T, NEW v, OnTheWay(known, T), Elsewhere(v),
         Serves(known', v) \/ \E it \in T : it.svc = v /\ InReach(known', it)
  PROVE  OnTheWay(known', T)
<1> SUFFICES ASSUME NEW s \in B!Services, s # v
             PROVE  Serves(known', s) \/ \E it \in T : it.svc = s /\ InReach(known', it)
  BY DEF OnTheWay
<1>1. CASE Serves(known, s)
  BY <1>1 DEF Elsewhere
<1>2. ASSUME NEW it \in T, it.svc = s, InReach(known, it)  PROVE InReach(known', it)
  BY <1>2 DEF Elsewhere, InReach
<1>. QED  BY <1>1, <1>2 DEF OnTheWay

LEMMA WayGrows ==
  ASSUME NEW C, NEW T, NEW U, T \subseteq U, OnTheWay(C, T)
  PROVE  OnTheWay(C, U)
  BY DEF OnTheWay

(* A container comes to another state or to another, free name.             *)
LEMMA Moved ==
  ASSUME ActivationTypes, NamesInOrder, NEW k \in known, NEW l \in Containers,
         l.svc = k.svc, l.id = k.id, l.name = k.name \/ NoneHolds(known, k.svc, l.name),
         l.name <= drawnNames, drawnNames' = drawnNames, known' = (known \ {k}) \cup {l}
  PROVE  /\ known' \subseteq Containers /\ NamesInOrder' /\ Elsewhere(k.svc)
         /\ Holds(known', k.svc, l.name, k.id)
         /\ l.name # k.name => NoneHolds(known', k.svc, k.name)
         /\ l.name = 0 /\ l.up => Serves(known', k.svc)
         /\ \A n : n # l.name /\ NoneHolds(known, k.svc, n) => NoneHolds(known', k.svc, n)
         /\ \A n, id : n # k.name /\ Holds(known, k.svc, n, id) => Holds(known', k.svc, n, id)
<1>1. known' \subseteq Containers
  BY DEF ActivationTypes
<1>2. NamesInOrder'
  <2>1. ASSUME NEW a \in known', NEW b \in known', a.svc = b.svc, a.name = b.name  PROVE a = b
    BY <2>1 DEF NamesInOrder, NoneHolds
  <2>2. ASSUME NEW a \in known'  PROVE a.name <= drawnNames'
    BY <2>2 DEF NamesInOrder
  <2>. QED  BY <2>1, <2>2 DEF NamesInOrder
<1>3. Elsewhere(k.svc)
  <2> SUFFICES ASSUME NEW s \in B!Services \ {k.svc}
               PROVE  /\ Serves(known, s) => Serves(known', s)
                      /\ \A n : NoneHolds(known, s, n) => NoneHolds(known', s, n)
                      /\ \A n, id : Holds(known, s, n, id) => Holds(known', s, n, id)
    BY DEF Elsewhere
  <2>1. \A a : a.svc = s => (a \in known <=> a \in known')
    OBVIOUS
  <2>. QED  BY <2>1 DEF Serves, NoneHolds, Holds
<1>4. Holds(known', k.svc, l.name, k.id)
  BY DEF Holds
<1>5. l.name # k.name => NoneHolds(known', k.svc, k.name)
  BY DEF NamesInOrder, NoneHolds
<1>6. l.name = 0 /\ l.up => Serves(known', k.svc)
  BY DEF Serves
<1>7. \A n : n # l.name /\ NoneHolds(known, k.svc, n) => NoneHolds(known', k.svc, n)
  BY DEF NoneHolds
<1>8. \A n, id : n # k.name /\ Holds(known, k.svc, n, id) => Holds(known', k.svc, n, id)
  BY DEF Holds
<1>. QED  BY <1>1, <1>2, <1>3, <1>4, <1>5, <1>6, <1>7, <1>8

(* A container that is stopped or started keeps its name.                   *)
LEMMA Turned ==
  ASSUME ActivationTypes, NamesInOrder, NEW k \in known, NEW b \in BOOLEAN,
         known' = (known \ {k}) \cup {[k EXCEPT !.up = b]}, drawnNames' = drawnNames
  PROVE  /\ known' \subseteq Containers /\ NamesInOrder' /\ Elsewhere(k.svc)
         /\ k.name = 0 /\ b => Serves(known', k.svc)
         /\ \A n : NoneHolds(known, k.svc, n) => NoneHolds(known', k.svc, n)
         /\ \A n, id : Holds(known, k.svc, n, id) => Holds(known', k.svc, n, id)
<1> DEFINE l == [k EXCEPT !.up = b]
<1>1. k \in Containers
  BY DEF ActivationTypes
<1>2. l \in Containers /\ l.svc = k.svc /\ l.id = k.id /\ l.name = k.name /\ l.up = b
  BY <1>1 DEF Containers
<1>3. known' = (known \ {k}) \cup {l} /\ l.name <= drawnNames
  BY <1>2 DEF NamesInOrder
<1> HIDE DEF l
<1>4. \A n : NoneHolds(known, k.svc, n) => n # l.name
  BY <1>2 DEF NoneHolds
<1>5. \A id : Holds(known, k.svc, k.name, id) => id = k.id
  BY DEF Holds, NamesInOrder
<1>. QED  BY <1>2, <1>3, <1>4, <1>5, Moved

(* A container is created under the service's own name.                     *)
LEMMA Created ==
  ASSUME ActivationTypes, NamesInOrder, NEW l \in Containers, l.name = 0, NoneHolds(known, l.svc, 0),
         known' = known \cup {l}, drawnNames' = drawnNames
  PROVE  /\ known' \subseteq Containers /\ NamesInOrder' /\ Elsewhere(l.svc)
         /\ l.up => Serves(known', l.svc)
         /\ \A n : n # 0 /\ NoneHolds(known, l.svc, n) => NoneHolds(known', l.svc, n)
         /\ \A n, id : Holds(known, l.svc, n, id) => Holds(known', l.svc, n, id)
<1>1. NamesInOrder'
  BY DEF NamesInOrder, NoneHolds, ActivationTypes
<1>2. Elsewhere(l.svc)
  BY DEF Elsewhere, Serves, NoneHolds, Holds
<1>. QED  BY <1>1, <1>2 DEF ActivationTypes, Serves, NoneHolds, Holds

(* The container that serves is deleted.                                    *)
LEMMA Deleted ==
  ASSUME ActivationTypes, NamesInOrder, NEW v, known' = known \ B!Held(v, 0), drawnNames' = drawnNames
  PROVE  /\ known' \subseteq Containers /\ NamesInOrder' /\ Elsewhere(v)
         /\ NoneHolds(known', v, 0)
         /\ \A n, id : n # 0 /\ Holds(known, v, n, id) => Holds(known', v, n, id)
<1>1. \A k : k \in known' <=> k \in known /\ ~(k.svc = v /\ k.name = 0)
  BY HeldFacts
<1>2. Elsewhere(v)
  BY <1>1 DEF Elsewhere, Serves, NoneHolds, Holds
<1>3. known' \subseteq Containers /\ NamesInOrder' /\ NoneHolds(known', v, 0)
  BY <1>1 DEF ActivationTypes, NamesInOrder, NoneHolds
<1>4. \A n, id : n # 0 /\ Holds(known, v, n, id) => Holds(known', v, n, id)
  BY <1>1 DEF Holds
<1>. QED  BY <1>2, <1>3, <1>4

LEMMA IdleFacts ==
  /\ B!Idle \in Activating /\ B!Idle.at = "-"
  /\ \A op \in {"stage", "apply", "rollback"} :
        LET j == [B!Idle EXCEPT !.op = op, !.at = "begin"] IN j \in Activating /\ j.at = "begin"
<1> DEFINE e == <<>>
<1>1. e \in Seq(Items)
  OBVIOUS
<1>2. B!Idle = [op |-> "none", at |-> "-", svc |-> "-", n |-> 0, todo |-> e]
  BY DEF B!Idle
<1> HIDE DEF e
<1>3. B!Idle \in Activating /\ B!Idle.at = "-"
  BY <1>1, <1>2 DEF Activating
<1>4. ASSUME NEW op \in {"stage", "apply", "rollback"}
      PROVE  LET j == [B!Idle EXCEPT !.op = op, !.at = "begin"] IN j \in Activating /\ j.at = "begin"
  BY <1>3 DEF Activating
<1>. QED  BY <1>3, <1>4

LEMMA ActivationInit == B!Init => ActivationInv
<1> SUFFICES ASSUME B!Init  PROVE ActivationInv
  OBVIOUS
<1>1. known = {[svc |-> v, name |-> 0, id |-> 0, up |-> TRUE] : v \in B!Services}
  BY DEF B!Init
<1>2. known \subseteq Containers
  <2>1. ASSUME NEW v \in B!Services  PROVE [svc |-> v, name |-> 0, id |-> 0, up |-> TRUE] \in Containers
    BY DEF Containers
  <2>. QED  BY <1>1, <2>1
<1>3. ActivationTypes
  <2> DEFINE e == <<>>
  <2>1. e \in Seq(Activations) /\ e \in Seq(Transactions) /\ Len(e) <= 1
    OBVIOUS
  <2>2. current = e /\ pendingTx = e /\ drawnNames = 0 /\ activation = B!Idle
    BY DEF B!Init
  <2> HIDE DEF e
  <2>. QED  BY <1>2, <2>1, <2>2, IdleFacts DEF ActivationTypes
<1>4. NamesInOrder
  <2>1. \A k \in known : k.name = 0 /\ k.id = 0 /\ k.up = TRUE /\ k = [svc |-> k.svc, name |-> 0, id |-> 0, up |-> TRUE]
    BY <1>1
  <2>2. \A k, l \in known : k.svc = l.svc => k = l
    BY <2>1
  <2>. QED  BY <2>1, <2>2 DEF NamesInOrder, B!Init
<1>5. \A v \in B!Services : Serves(known, v)
  <2> SUFFICES ASSUME NEW v \in B!Services  PROVE Serves(known, v)
    OBVIOUS
  <2> DEFINE k == [svc |-> v, name |-> 0, id |-> 0, up |-> TRUE]
  <2>1. k \in known /\ k.svc = v /\ k.name = 0 /\ k.up
    BY <1>1
  <2> HIDE DEF k
  <2>. QED  BY <2>1 DEF Serves
<1>. QED  BY <1>3, <1>4, <1>5
          DEF ActivationInv, OnTheWay, ReplaceInOrder, UnlinkInOrder, RestoreInOrder,
              B!Init, B!Idle, ApplySteps, BackSteps

(* No replacement, restore or commit is under way after the step.           *)
LEMMA Rests ==
  ASSUME ActivationTypes', NamesInOrder', OnTheWay(known', Recorded'),
         activation'.at \notin ApplySteps \cup BackSteps \cup {"unlink"}
  PROVE  ActivationInv'
BY DEF ActivationInv, ReplaceInOrder, UnlinkInOrder, RestoreInOrder

LEMMA RecordKept ==
  ASSUME current' = current, pendingTx' = pendingTx
  PROVE  Recorded' = Recorded
BY DEF Recorded

LEMMA QuietStep ==
  ASSUME ActivationInv, UNCHANGED <<known, current, pendingTx, drawnNames>>,
         activation' \in Activating,
         activation'.at \notin ApplySteps \cup BackSteps \cup {"unlink"}
  PROVE  ActivationInv'
<1>1. ActivationTypes' /\ NamesInOrder' /\ OnTheWay(known', Recorded')
  BY RecordKept DEF ActivationInv, ActivationTypes, NamesInOrder
<1>. QED  BY <1>1, Rests

LEMMA GoFacts ==
  ASSUME ActivationTypes,
         NEW at \in {"-", "begin", "probe", "unlink"} \cup ApplySteps \cup BackSteps,
         activation' = [activation EXCEPT !.at = at]
  PROVE  /\ activation' \in Activating /\ activation'.at = at /\ activation'.op = activation.op
         /\ activation'.n = activation.n /\ activation'.todo = activation.todo
         /\ activation'.svc = activation.svc
BY DEF ActivationTypes, Activating

LEMMA StageSteps ==
  ASSUME ActivationInv,
         \/ \E i \in Inputs, cut \in BOOLEAN : B!Receive(i, cut)
         \/ \E op \in {"stage", "apply", "rollback"} : B!Submit(op)
         \/ B!StageBegin \/ B!StageEnd \/ B!JobEnds
  PROVE  ActivationInv'
<1>1. ASSUME NEW i \in Inputs, NEW cut \in BOOLEAN, B!Receive(i, cut)  PROVE ActivationInv'
  BY <1>1, QuietStep, IdleFacts DEF B!Receive, ApplySteps, BackSteps
<1>2. ASSUME NEW op \in {"stage", "apply", "rollback"}, B!Submit(op)  PROVE ActivationInv'
  BY <1>2, QuietStep, IdleFacts DEF B!Submit, ApplySteps, BackSteps
<1>3. CASE B!StageBegin
  <2>1. activation' \in Activating /\ activation'.at = "probe"
    BY <1>3, GoFacts DEF B!StageBegin, B!Go, ActivationInv
  <2>. QED  BY <1>3, <2>1, QuietStep DEF B!StageBegin, ApplySteps, BackSteps
<1>4. CASE B!StageEnd
  BY <1>4, QuietStep, IdleFacts DEF B!StageEnd, ApplySteps, BackSteps
<1>5. CASE B!JobEnds
  BY <1>5, QuietStep, IdleFacts DEF B!JobEnds, ApplySteps, BackSteps
<1>. QED  BY <1>1, <1>2, <1>3, <1>4, <1>5

(* The replacement.                                                         *)
LEMMA BeginsApply ==
  ASSUME ActivationInv, B!ApplyBegin
  PROVE  ActivationInv'
<1> USE DEF ActivationInv
<1> DEFINE tx == [items |-> <<>>, prev |-> current]
<1>1. tx \in Transactions /\ tx.items = <<>>
  BY DEF ActivationTypes, Transactions
<1>2. /\ pendingTx' = <<tx>> /\ known' = known /\ current' = current /\ drawnNames' = drawnNames + 1
      /\ \A v \in B!Services : Serves(known, v)
      /\ activation.op = "apply"
      /\ activation' = [activation EXCEPT !.at = "prepare", !.svc = "mosquitto", !.n = drawnNames + 1]
  BY HeldFacts DEF B!ApplyBegin, B!Healthy
<1>3. /\ pendingTx' \in Seq(Transactions) /\ Len(pendingTx') = 1 /\ pendingTx' # <<>>
      /\ pendingTx'[1] = tx
  BY <1>1, <1>2
<1> HIDE DEF tx
<1>4. drawnNames' \in Nat /\ drawnNames + 1 \in 1..drawnNames' /\ drawnNames + 1 \in Nat
  BY <1>2 DEF ActivationTypes
<1>5. /\ activation' \in Activating /\ activation'.at = "prepare" /\ activation'.svc = "mosquitto"
      /\ activation'.n = drawnNames + 1 /\ activation'.op = "apply"
  BY <1>2, <1>4 DEF ActivationTypes, Activating, B!Services, ApplySteps
<1>6. \A v : NoneHolds(known, v, drawnNames + 1)
  <2>1. \A k \in known : k.name # drawnNames + 1
    BY DEF NamesInOrder, ActivationTypes, Containers
  <2>. QED  BY <2>1 DEF NoneHolds
<1>7. ActivationTypes' /\ NamesInOrder'
  <2>1. NamesInOrder'
    BY <1>2 DEF NamesInOrder, ActivationTypes, Containers
  <2>. QED  BY <1>2, <1>3, <1>4, <1>5, <2>1 DEF ActivationTypes
<1>8. OnTheWay(known', Recorded')
  BY <1>2 DEF OnTheWay
<1>9. ReplaceInOrder'
  BY <1>2, <1>3, <1>4, <1>5, <1>6 DEF ReplaceInOrder, B!Services
<1>. QED  BY <1>5, <1>7, <1>8, <1>9 DEF UnlinkInOrder, RestoreInOrder, BackSteps

LEMMA Prepares ==
  ASSUME ActivationInv, B!Prepare
  PROVE  ActivationInv'
<1> USE DEF ActivationInv
<1>1. PICK k \in B!Held(activation.svc, 0) :
        pendingTx' = B!Prepared(B!Item(activation.svc, activation.n, k.id))
  BY DEF B!Prepare
<1> DEFINE it == B!Item(activation.svc, activation.n, k.id)
           tx == pendingTx[1]
           ux == [tx EXCEPT !.items = Append(@, it)]
<1>2. /\ activation.at = "prepare" /\ pendingTx # <<>> /\ activation.op = "apply"
      /\ activation.svc \in B!Services /\ activation.n \in 1..drawnNames
      /\ activation.svc = "mosquitto" => NoneHolds(known, "telegraf", activation.n)
      /\ NoneHolds(known, activation.svc, activation.n)
  BY DEF B!Prepare, B!At, ReplaceInOrder, ApplySteps
<1>3. /\ known' = known /\ current' = current /\ drawnNames' = drawnNames
      /\ activation' \in Activating /\ activation'.at = "stop" /\ activation'.op = activation.op
      /\ activation'.n = activation.n /\ activation'.svc = activation.svc
  BY GoFacts DEF B!Prepare, B!Go, ApplySteps
<1>4. k \in known /\ k.svc = activation.svc /\ k.name = 0 /\ k.id \in Nat
  BY HeldFacts DEF ActivationTypes, Containers
<1>5. it \in Items /\ it.svc = activation.svc /\ it.name = activation.n /\ it.id = k.id
  BY <1>2, <1>4 DEF B!Item, Items, ActivationTypes
<1>6. tx \in Transactions /\ tx.items \in Seq(Items)
  BY <1>2, JournalFacts
<1>7. pendingTx' = <<ux>>
  BY <1>1 DEF B!Prepared
<1> HIDE DEF it
<1>8. /\ ux \in Transactions /\ ux.items = Append(tx.items, it)
  <2> DEFINE items == Append(tx.items, it)
  <2>1. items \in Seq(Items)
    BY <1>5, <1>6
  <2>2. ux = [tx EXCEPT !.items = items]
    OBVIOUS
  <2> HIDE DEF items, ux, tx
  <2>3. ux \in Transactions /\ ux.items = items
    BY <1>6, <2>1, <2>2 DEF Transactions
  <2>. QED  BY <2>3 DEF items
<1> HIDE DEF ux
<1>9. pendingTx' \in Seq(Transactions) /\ Len(pendingTx') = 1 /\ pendingTx' # <<>> /\ pendingTx'[1] = ux
  BY <1>7, <1>8
<1>10. ItemsOf(ux.items) = ItemsOf(tx.items) \cup {it}
  BY <1>5, <1>6, <1>8, ItemsFacts
<1>11. Recorded' = Recorded \cup {it}
  BY <1>2, <1>9, <1>10 DEF Recorded
<1>12. ActivationTypes' /\ NamesInOrder' /\ OnTheWay(known', Recorded')
  BY <1>3, <1>9, <1>11, WayGrows DEF ActivationTypes, NamesInOrder
<1>13. Journaled(0)'
  <2>1. it \in ItemsOf(pendingTx'[1].items)
    BY <1>9, <1>10
  <2>2. Holds(known', it.svc, 0, it.id)
    BY <1>3, <1>4, <1>5 DEF Holds
  <2>. QED  BY <2>1, <2>2, <1>3, <1>5 DEF Journaled
<1>14. ReplaceInOrder'
  BY <1>2, <1>3, <1>9, <1>13 DEF ReplaceInOrder
<1>. QED  BY <1>3, <1>12, <1>14 DEF UnlinkInOrder, RestoreInOrder, BackSteps

(* A service whose replacement is under way has its original in reach.      *)
LEMMA JournalTells ==
  ASSUME NEW n, NEW C, pendingTx # <<>>,
         NEW it \in ItemsOf(pendingTx[1].items), it.svc = activation.svc, InReach(C, it)
  PROVE  \E i \in Recorded : i.svc = activation.svc /\ InReach(C, i)
BY DEF Recorded

LEMMA TurnedOriginal ==
  ASSUME ActivationInv, activation.at \in {"stop", "rename"}, NEW k \in B!Held(activation.svc, 0),
         NEW b \in BOOLEAN, known' = (known \ {k}) \cup {[k EXCEPT !.up = b]}, drawnNames' = drawnNames
  PROVE  /\ known' \subseteq Containers /\ NamesInOrder' /\ OnTheWay(known', Recorded)
         /\ Elsewhere(activation.svc) /\ NoneHolds(known', activation.svc, activation.n)
         /\ \E it \in ItemsOf(pendingTx[1].items) :
              it.svc = activation.svc /\ it.name = activation.n /\ Holds(known', it.svc, 0, it.id)
<1> USE DEF ActivationInv
<1>1. k \in known /\ k.svc = activation.svc /\ k.name = 0
  BY HeldFacts
<1>2. pendingTx # <<>> /\ NoneHolds(known, activation.svc, activation.n) /\ Journaled(0)
  BY DEF ReplaceInOrder, ApplySteps
<1>3. /\ known' \subseteq Containers /\ NamesInOrder' /\ Elsewhere(k.svc)
      /\ \A n : NoneHolds(known, k.svc, n) => NoneHolds(known', k.svc, n)
      /\ \A n, id : Holds(known, k.svc, n, id) => Holds(known', k.svc, n, id)
  BY <1>1, Turned
<1>4. PICK it \in ItemsOf(pendingTx[1].items) :
        it.svc = activation.svc /\ it.name = activation.n /\ Holds(known, it.svc, 0, it.id)
  BY <1>2 DEF Journaled
<1>5. Holds(known', it.svc, 0, it.id) /\ NoneHolds(known', activation.svc, activation.n)
  BY <1>1, <1>2, <1>3, <1>4
<1>6. \E i \in Recorded : i.svc = activation.svc /\ InReach(known', i)
  BY <1>2, <1>4, <1>5 DEF Recorded, InReach
<1>7. OnTheWay(known', Recorded)
  BY <1>1, <1>3, <1>6, WayStays
<1>. QED  BY <1>1, <1>3, <1>4, <1>5, <1>7

LEMMA MovedOriginal ==
  ASSUME ActivationInv, activation.at = "rename", NEW k \in B!Held(activation.svc, 0),
         known' = (known \ {k}) \cup {[k EXCEPT !.name = activation.n]}, drawnNames' = drawnNames
  PROVE  /\ known' \subseteq Containers /\ NamesInOrder' /\ OnTheWay(known', Recorded)
         /\ Elsewhere(activation.svc) /\ NoneHolds(known', activation.svc, 0)
         /\ \E it \in ItemsOf(pendingTx[1].items) :
              /\ it.svc = activation.svc /\ it.name = activation.n
              /\ Holds(known', it.svc, activation.n, it.id)
<1> USE DEF ActivationInv
<1> DEFINE l == [k EXCEPT !.name = activation.n]
<1>1. k \in known /\ k.svc = activation.svc /\ k.name = 0 /\ k \in Containers
  BY HeldFacts DEF ActivationTypes
<1>2. /\ pendingTx # <<>> /\ NoneHolds(known, activation.svc, activation.n) /\ Journaled(0)
      /\ activation.n \in 1..drawnNames /\ drawnNames \in Nat
  BY DEF ReplaceInOrder, ApplySteps, ActivationTypes
<1>3. /\ l \in Containers /\ l.svc = k.svc /\ l.id = k.id /\ l.name = activation.n
      /\ l.name <= drawnNames /\ l.name # k.name
  BY <1>1, <1>2 DEF Containers
<1>4. known' = (known \ {k}) \cup {l}
  OBVIOUS
<1> HIDE DEF l
<1>5. /\ known' \subseteq Containers /\ NamesInOrder' /\ Elsewhere(k.svc)
      /\ Holds(known', k.svc, l.name, k.id) /\ NoneHolds(known', k.svc, k.name)
  BY <1>1, <1>2, <1>3, <1>4, Moved
<1>6. PICK it \in ItemsOf(pendingTx[1].items) :
        it.svc = activation.svc /\ it.name = activation.n /\ Holds(known, it.svc, 0, it.id)
  BY <1>2 DEF Journaled
<1>7. it.id = k.id
  BY <1>1, <1>6 DEF Holds, NamesInOrder
<1>8. Holds(known', it.svc, activation.n, it.id)
  BY <1>1, <1>3, <1>5, <1>6, <1>7
<1>9. \E i \in Recorded : i.svc = activation.svc /\ InReach(known', i)
  BY <1>2, <1>6, <1>8 DEF Recorded, InReach
<1>10. OnTheWay(known', Recorded)
  BY <1>1, <1>5, <1>9, WayStays
<1>. QED  BY <1>1, <1>5, <1>6, <1>8, <1>10

LEMMA Stops ==
  ASSUME ActivationInv, B!Stop
  PROVE  ActivationInv'
<1> USE DEF ActivationInv
<1>1. PICK k \in B!Held(activation.svc, 0) : B!Replace(k, [k EXCEPT !.up = FALSE])
  BY DEF B!Stop
<1>2. /\ activation.at = "stop" /\ pendingTx # <<>> /\ activation.op = "apply"
      /\ activation.svc \in B!Services /\ activation.n \in 1..drawnNames
      /\ activation.svc = "mosquitto" => NoneHolds(known, "telegraf", activation.n)
  BY DEF B!Stop, B!At, ReplaceInOrder, ApplySteps
<1>3. /\ pendingTx' = pendingTx /\ current' = current /\ drawnNames' = drawnNames
      /\ activation' \in Activating /\ activation'.at = "rename" /\ activation'.op = activation.op
      /\ activation'.n = activation.n /\ activation'.svc = activation.svc
  BY GoFacts DEF B!Stop, B!Go, ApplySteps
<1>4. /\ known' \subseteq Containers /\ NamesInOrder' /\ OnTheWay(known', Recorded)
      /\ Elsewhere(activation.svc) /\ NoneHolds(known', activation.svc, activation.n)
      /\ \E it \in ItemsOf(pendingTx[1].items) :
           it.svc = activation.svc /\ it.name = activation.n /\ Holds(known', it.svc, 0, it.id)
  BY <1>1, <1>2, <1>3, TurnedOriginal DEF B!Replace
<1>5. ActivationTypes' /\ OnTheWay(known', Recorded')
  BY <1>3, <1>4, RecordKept DEF ActivationTypes
<1>6. Journaled(0)'
  BY <1>3, <1>4 DEF Journaled
<1>7. activation.svc = "mosquitto" => NoneHolds(known', "telegraf", activation.n)
  BY <1>2, <1>4 DEF Elsewhere, B!Services
<1>8. ReplaceInOrder'
  BY <1>2, <1>3, <1>4, <1>6, <1>7 DEF ReplaceInOrder
<1>. QED  BY <1>3, <1>4, <1>5, <1>8 DEF UnlinkInOrder, RestoreInOrder, BackSteps

LEMMA Renames ==
  ASSUME ActivationInv, B!Rename
  PROVE  ActivationInv'
<1> USE DEF ActivationInv
<1>1. PICK k \in B!Held(activation.svc, 0) : B!Replace(k, [k EXCEPT !.name = activation.n])
  BY DEF B!Rename
<1>2. /\ activation.at = "rename" /\ pendingTx # <<>> /\ activation.op = "apply"
      /\ activation.svc \in B!Services /\ activation.n \in 1..drawnNames
      /\ activation.svc = "mosquitto" => NoneHolds(known, "telegraf", activation.n)
  BY DEF B!Rename, B!At, ReplaceInOrder, ApplySteps
<1>3. /\ pendingTx' = pendingTx /\ current' = current /\ drawnNames' = drawnNames
      /\ activation' \in Activating /\ activation'.at = "create" /\ activation'.op = activation.op
      /\ activation'.n = activation.n /\ activation'.svc = activation.svc
  BY GoFacts DEF B!Rename, B!Go, ApplySteps
<1>4. /\ known' \subseteq Containers /\ NamesInOrder' /\ OnTheWay(known', Recorded)
      /\ Elsewhere(activation.svc) /\ NoneHolds(known', activation.svc, 0)
      /\ \E it \in ItemsOf(pendingTx[1].items) :
           /\ it.svc = activation.svc /\ it.name = activation.n
           /\ Holds(known', it.svc, activation.n, it.id)
  BY <1>1, <1>2, <1>3, MovedOriginal DEF B!Replace
<1>5. ActivationTypes' /\ OnTheWay(known', Recorded')
  BY <1>3, <1>4, RecordKept DEF ActivationTypes
<1>6. \E it \in ItemsOf(pendingTx'[1].items) :
        it.svc = activation'.svc /\ it.name = activation'.n /\ Holds(known', it.svc, activation'.n, it.id)
  BY <1>3, <1>4
<1>7. activation.svc = "mosquitto" => NoneHolds(known', "telegraf", activation.n)
  BY <1>2, <1>4 DEF Elsewhere, B!Services
<1>8. ReplaceInOrder'
  BY <1>2, <1>3, <1>4, <1>6, <1>7 DEF ReplaceInOrder, Journaled
<1>. QED  BY <1>3, <1>4, <1>5, <1>8 DEF UnlinkInOrder, RestoreInOrder, BackSteps

LEMMA NewFacts ==
  ASSUME ActivationInv, activation.at = "create", NEW up \in BOOLEAN
  PROVE  /\ B!New(up) \in Containers /\ B!New(up).svc = activation.svc /\ B!New(up).name = 0
         /\ B!New(up).up = up
BY DEF B!New, Containers, ActivationInv, ActivationTypes, Activating, ReplaceInOrder, ApplySteps

LEMMA Creates ==
  ASSUME ActivationInv, B!Create
  PROVE  ActivationInv'
<1> USE DEF ActivationInv
<1> DEFINE l == B!New(TRUE)
<1>1. /\ activation.at = "create" /\ pendingTx # <<>> /\ activation.op = "apply"
      /\ activation.svc \in B!Services /\ activation.n \in 1..drawnNames
      /\ activation.svc = "mosquitto" => NoneHolds(known, "telegraf", activation.n)
      /\ NoneHolds(known, activation.svc, 0)
  BY DEF B!Create, B!At, ReplaceInOrder, ApplySteps
<1>2. l \in Containers /\ l.svc = activation.svc /\ l.name = 0 /\ l.up
  BY <1>1, NewFacts
<1>3. /\ pendingTx' = pendingTx /\ current' = current /\ drawnNames' = drawnNames
      /\ known' = known \cup {l}
  BY DEF B!Create
<1> HIDE DEF l
<1>4. known' \subseteq Containers /\ NamesInOrder' /\ Elsewhere(activation.svc) /\ Serves(known', activation.svc)
  BY <1>1, <1>2, <1>3, Created
<1>5. OnTheWay(known', Recorded)
  BY <1>4, WayStays
<1>6. /\ activation' \in Activating /\ activation'.op = "apply" /\ activation'.n = activation.n
      /\ activation'.svc = "telegraf"
      /\ \/ activation'.at = "prepare" /\ activation.svc = "mosquitto"
         \/ activation'.at = "verify"
  BY <1>1 DEF B!Create, B!Services, ActivationTypes, Activating, ApplySteps
<1>7. activation.svc = "mosquitto" => NoneHolds(known', "telegraf", activation.n)
  BY <1>1, <1>4 DEF Elsewhere, B!Services
<1>8. ActivationTypes' /\ OnTheWay(known', Recorded')
  BY <1>3, <1>4, <1>5, <1>6, RecordKept DEF ActivationTypes
<1>9. ReplaceInOrder'
  BY <1>1, <1>3, <1>6, <1>7 DEF ReplaceInOrder, B!Services
<1>. QED  BY <1>4, <1>6, <1>8, <1>9 DEF UnlinkInOrder, RestoreInOrder, BackSteps

LEMMA Commits ==
  ASSUME ActivationInv, B!Commit
  PROVE  ActivationInv'
<1> USE DEF ActivationInv
<1> DEFINE a == [n |-> activation.n, items |-> pendingTx[1].items]
           p == pendingTx[1].prev
<1>1. activation.at = "verify" /\ pendingTx # <<>> /\ activation.op = "apply"
  BY DEF B!Commit, B!At, ReplaceInOrder, ApplySteps
<1>2. p \in Seq(Activations) /\ pendingTx[1].items \in Seq(Items)
  BY <1>1, JournalFacts
<1>3. a \in Activations /\ a.items = pendingTx[1].items
  BY <1>2 DEF Activations, ActivationTypes, Activating
<1>4. current' = <<a>> \o p
  BY DEF B!Commit
<1> HIDE DEF a, p
<1>5. current' \in Seq(Activations) /\ current' # <<>> /\ current'[1] = a
  BY <1>2, <1>3, <1>4
<1>6. /\ known' = known /\ pendingTx' = pendingTx /\ drawnNames' = drawnNames
      /\ activation' \in Activating /\ activation'.at = "unlink" /\ activation'.op = activation.op
  BY GoFacts DEF B!Commit, B!Go, ApplySteps
<1>7. ActivationTypes' /\ NamesInOrder'
  BY <1>5, <1>6 DEF ActivationTypes, NamesInOrder
<1>8. Recorded' = Recorded
  BY <1>1, <1>6 DEF Recorded
<1>9. UnlinkInOrder'
  BY <1>1, <1>3, <1>5, <1>6 DEF UnlinkInOrder
<1>. QED  BY <1>6, <1>7, <1>8, <1>9 DEF ReplaceInOrder, RestoreInOrder, BackSteps, ApplySteps

LEMMA Unlinks ==
  ASSUME ActivationInv, B!Unlink
  PROVE  ActivationInv'
<1> USE DEF ActivationInv
<1>1. /\ activation.at = "unlink" /\ pendingTx' = <<>> /\ activation' = B!Idle
      /\ UNCHANGED <<known, current, drawnNames>>
  BY DEF B!Unlink, B!At
<1>2. ActivationTypes' /\ NamesInOrder'
  BY <1>1, IdleFacts DEF ActivationTypes, NamesInOrder
<1>3. OnTheWay(known', Recorded')
  <2>1. CASE activation.op = "apply"
    BY <1>1, <2>1 DEF UnlinkInOrder, Recorded
  <2>2. CASE activation.op = "rollback"
    BY <1>1, <2>2, WayGrows DEF UnlinkInOrder
  <2>. QED  BY <1>1, <2>1, <2>2 DEF UnlinkInOrder
<1>. QED  BY <1>1, <1>2, <1>3, IdleFacts, Rests DEF ApplySteps, BackSteps

(* Failures, and the rollback.                                              *)
LEMMA RestoreBegins ==
  ASSUME ActivationInv, known' \subseteq Containers, NamesInOrder', OnTheWay(known', Recorded),
         UNCHANGED <<pendingTx, current, drawnNames>>,
         NEW items \in Seq(Items), ItemsOf(items) = Recorded,
         activation' = [activation EXCEPT !.at = "restore", !.todo = items],
         \/ activation.op = "apply" /\ pendingTx # <<>>
         \/ activation.op = "rollback" /\ (pendingTx # <<>> \/ current # <<>>)
  PROVE  ActivationInv'
<1> USE DEF ActivationInv
<1>1. /\ activation' \in Activating /\ activation'.at = "restore" /\ activation'.op = activation.op
      /\ activation'.todo = items
  BY DEF ActivationTypes, Activating, BackSteps
<1>2. ActivationTypes' /\ OnTheWay(known', Recorded') /\ Recorded' = Recorded
  BY <1>1, RecordKept DEF ActivationTypes
<1>3. RestoreInOrder'
  BY <1>1, <1>2 DEF RestoreInOrder
<1>. QED  BY <1>1, <1>2, <1>3 DEF ReplaceInOrder, UnlinkInOrder, ApplySteps

LEMMA PendingItems ==
  ASSUME ActivationInv, pendingTx # <<>>
  PROVE  pendingTx[1].items \in Seq(Items) /\ ItemsOf(pendingTx[1].items) = Recorded
BY JournalFacts DEF Recorded, ActivationInv

LEMMA FailsToStop ==
  ASSUME ActivationInv, B!StopFails \/ B!RenameFails
  PROVE  ActivationInv'
<1> USE DEF ActivationInv
<1>1. /\ activation.at \in {"stop", "rename"} /\ pendingTx # <<>> /\ activation.op = "apply"
      /\ UNCHANGED <<pendingTx, current, drawnNames>>
      /\ activation' = [activation EXCEPT !.at = "restore", !.todo = pendingTx[1].items]
  BY DEF B!StopFails, B!RenameFails, B!Restoring, B!At, ReplaceInOrder, ApplySteps
<1>2. known' \subseteq Containers /\ NamesInOrder' /\ OnTheWay(known', Recorded)
  <2>1. ASSUME NEW k \in B!Held(activation.svc, 0), NEW b \in BOOLEAN, B!Replace(k, [k EXCEPT !.up = b])
        PROVE  known' \subseteq Containers /\ NamesInOrder' /\ OnTheWay(known', Recorded)
    BY <1>1, <2>1, TurnedOriginal DEF B!Replace
  <2>2. CASE UNCHANGED known
    BY <1>1, <2>2 DEF ActivationTypes, NamesInOrder
  <2>3. ASSUME NEW k \in B!Held(activation.svc, 0), activation.at = "rename",
               B!Replace(k, [k EXCEPT !.name = activation.n])
        PROVE  known' \subseteq Containers /\ NamesInOrder' /\ OnTheWay(known', Recorded)
    BY <1>1, <2>3, MovedOriginal DEF B!Replace
  <2>4. CASE B!StopFails
    BY <2>1, <2>4 DEF B!StopFails
  <2>5. CASE B!RenameFails
    BY <2>1, <2>2, <2>3, <2>5 DEF B!RenameFails, B!BringUp, B!At
  <2>. QED  BY <2>4, <2>5
<1>. QED  BY <1>1, <1>2, PendingItems, RestoreBegins

LEMMA FailsToCreate ==
  ASSUME ActivationInv, B!CreateFails
  PROVE  ActivationInv'
<1> USE DEF ActivationInv
<1>1. /\ activation.at = "create" /\ pendingTx # <<>> /\ activation.op = "apply"
      /\ UNCHANGED <<pendingTx, current, drawnNames>>
      /\ activation' = [activation EXCEPT !.at = "restore", !.todo = pendingTx[1].items]
      /\ NoneHolds(known, activation.svc, 0) /\ Journaled(activation.n)
      /\ activation.n \in 1..drawnNames /\ drawnNames \in Nat
  BY DEF B!CreateFails, B!Restoring, B!At, ReplaceInOrder, ApplySteps, ActivationTypes
<1>2. PICK it \in ItemsOf(pendingTx[1].items) :
        it.svc = activation.svc /\ it.name = activation.n /\ Holds(known, it.svc, activation.n, it.id)
  BY <1>1 DEF Journaled
<1>3. PICK k \in B!Held(activation.svc, activation.n) :
          \/ B!Replace(k, [k EXCEPT !.name = 0, !.up = TRUE])
          \/ B!Replace(k, [k EXCEPT !.name = 0])
          \/ known' = known \cup {B!New(FALSE)}
          \/ UNCHANGED known
  BY DEF B!CreateFails
<1>4. k \in known /\ k \in Containers /\ k.svc = activation.svc /\ k.name = activation.n /\ k.name # 0
  BY <1>1, HeldFacts DEF ActivationTypes
<1>5. k.id = it.id
  BY <1>2, <1>4 DEF Holds, NamesInOrder
<1>6. known' \subseteq Containers /\ NamesInOrder' /\ OnTheWay(known', Recorded)
  <2>1. ASSUME NEW l \in Containers, l.svc = k.svc, l.id = k.id, l.name = 0, known' = (known \ {k}) \cup {l}
        PROVE  known' \subseteq Containers /\ NamesInOrder' /\ OnTheWay(known', Recorded)
    <3>1. /\ known' \subseteq Containers /\ NamesInOrder' /\ Elsewhere(k.svc)
          /\ Holds(known', k.svc, 0, k.id) /\ NoneHolds(known', k.svc, k.name)
      <4>1. ActivationTypes /\ NamesInOrder /\ drawnNames' = drawnNames
        BY <1>1
      <4>2. NoneHolds(known, k.svc, l.name) /\ l.name <= drawnNames
        BY <1>1, <1>4, <2>1
      <4>3. l.name # k.name
        BY <1>4, <2>1
      <4>4. known' \subseteq Containers /\ NamesInOrder' /\ Elsewhere(k.svc)
        BY <1>4, <2>1, <4>1, <4>2, Moved
      <4>5. Holds(known', k.svc, l.name, k.id) /\ NoneHolds(known', k.svc, k.name)
        BY <1>4, <2>1, <4>1, <4>2, <4>3, Moved
      <4>. QED  BY <2>1, <4>4, <4>5
    <3>2. InReach(known', it)
      BY <1>2, <1>4, <1>5, <3>1 DEF InReach
    <3>3. \E i \in Recorded : i.svc = activation.svc /\ InReach(known', i)
      BY <1>1, <1>2, <3>2 DEF Recorded
    <3>. QED  BY <1>4, <3>1, <3>3, WayStays
  <2>2. CASE B!Replace(k, [k EXCEPT !.name = 0, !.up = TRUE])
    <3>1. LET l == [k EXCEPT !.name = 0, !.up = TRUE]
          IN  l \in Containers /\ l.svc = k.svc /\ l.id = k.id /\ l.name = 0
      BY <1>4 DEF Containers
    <3>. QED  BY <2>1, <2>2, <3>1 DEF B!Replace
  <2>3. CASE B!Replace(k, [k EXCEPT !.name = 0])
    <3>1. LET l == [k EXCEPT !.name = 0]
          IN  l \in Containers /\ l.svc = k.svc /\ l.id = k.id /\ l.name = 0
      BY <1>4 DEF Containers
    <3>. QED  BY <2>1, <2>3, <3>1 DEF B!Replace
  <2>4. CASE known' = known \cup {B!New(FALSE)}
    <3>1. B!New(FALSE) \in Containers /\ B!New(FALSE).svc = activation.svc /\ B!New(FALSE).name = 0
      BY <1>1, NewFacts
    <3>2. /\ known' \subseteq Containers /\ NamesInOrder' /\ Elsewhere(activation.svc)
          /\ \A n, id : Holds(known, activation.svc, n, id) => Holds(known', activation.svc, n, id)
      BY <1>1, <2>4, <3>1, Created
    <3>3. InReach(known', it)
      BY <1>2, <3>2 DEF InReach
    <3>4. \E i \in Recorded : i.svc = activation.svc /\ InReach(known', i)
      BY <1>1, <1>2, <3>3 DEF Recorded
    <3>. QED  BY <3>2, <3>4, WayStays
  <2>5. CASE UNCHANGED known
    BY <1>1, <2>5 DEF ActivationTypes, NamesInOrder
  <2>. QED  BY <1>3, <2>2, <2>3, <2>4, <2>5
<1>. QED  BY <1>1, <1>6, PendingItems, RestoreBegins

LEMMA FailsToCheck ==
  ASSUME ActivationInv, B!CheckFails
  PROVE  ActivationInv'
<1> USE DEF ActivationInv
<1>1. /\ pendingTx # <<>> /\ activation.op = "apply"
      /\ UNCHANGED <<known, pendingTx, current, drawnNames>>
      /\ activation' = [activation EXCEPT !.at = "restore", !.todo = pendingTx[1].items]
  BY DEF B!CheckFails, B!Restoring, B!At, ReplaceInOrder, UnlinkInOrder, ApplySteps
<1>2. known' \subseteq Containers /\ NamesInOrder' /\ OnTheWay(known', Recorded)
  BY <1>1 DEF ActivationTypes, NamesInOrder
<1>. QED  BY <1>1, <1>2, PendingItems, RestoreBegins

LEMMA TransactionFacts ==
  ASSUME ActivationTypes, pendingTx # <<>> \/ current # <<>>
  PROVE  /\ B!Transaction.items \in Seq(Items) /\ ItemsOf(B!Transaction.items) = Recorded
         /\ B!Transaction.prev \in Seq(Activations)
BY JournalFacts DEF B!Transaction, Recorded

LEMMA BeginsRollback ==
  ASSUME ActivationInv, B!RollbackBegin
  PROVE  ActivationInv'
<1> USE DEF ActivationInv
<1>1. /\ activation.op = "rollback" /\ (pendingTx # <<>> \/ current # <<>>)
      /\ UNCHANGED <<known, pendingTx, current, drawnNames>>
      /\ activation' = [activation EXCEPT !.at = "restore", !.todo = B!Transaction.items]
  BY DEF B!RollbackBegin
<1>2. known' \subseteq Containers /\ NamesInOrder' /\ OnTheWay(known', Recorded)
  BY <1>1 DEF ActivationTypes, NamesInOrder
<1>. QED  BY <1>1, <1>2, TransactionFacts, RestoreBegins

(* What is restored serves, the rest stays in reach.                        *)
LEMMA WayShrinks ==
  ASSUME NEW C, NEW h, NEW U, OnTheWay(C, {h} \cup U), Serves(C, h.svc)
  PROVE  OnTheWay(C, U)
BY DEF OnTheWay

LEMMA Starts ==
  ASSUME ActivationInv, B!RestoreInPlace \/ B!RestoreStart
  PROVE  ActivationInv'
<1> USE DEF ActivationInv
<1> DEFINE i == Head(activation.todo)
           t == Tail(activation.todo)
<1>1. /\ activation.at \in BackSteps /\ activation.todo # <<>>
      /\ UNCHANGED <<pendingTx, current, drawnNames>>
      /\ activation' = [activation EXCEPT !.at = "restore", !.todo = t]
      /\ B!BringUp(i.svc)
  <2>1. CASE B!RestoreInPlace
    <3>1. activation' = [activation EXCEPT !.todo = t] /\ activation.at = "restore"
      BY <2>1 DEF B!RestoreInPlace, B!At
    <3>2. activation' = [activation EXCEPT !.at = "restore", !.todo = t]
      BY <3>1 DEF ActivationTypes, Activating
    <3>. QED  BY <2>1, <3>2 DEF B!RestoreInPlace, B!At, BackSteps
  <2>2. CASE B!RestoreStart
    BY <2>2 DEF B!RestoreStart, B!At, RestoreInOrder, BackSteps
  <2>. QED  BY <2>1, <2>2
<1>2. activation.todo \in Seq(Items)
  BY JournalFacts
<1>3. i \in Items /\ t \in Seq(Items) /\ ItemsOf(activation.todo) = {i} \cup ItemsOf(t)
  BY <1>1, <1>2, ItemsFacts
<1> HIDE DEF i, t
<1>4. PICK k \in B!Held(i.svc, 0) : known' = (known \ {k}) \cup {[k EXCEPT !.up = TRUE]}
  BY <1>1 DEF B!BringUp, B!Replace
<1>5. k \in known /\ k.svc = i.svc /\ k.name = 0
  BY HeldFacts
<1>6. known' \subseteq Containers /\ NamesInOrder' /\ Elsewhere(i.svc) /\ Serves(known', i.svc)
  BY <1>1, <1>4, <1>5, Turned
<1>7. /\ activation.op \in {"apply", "rollback"} /\ (activation.op = "apply" => pendingTx # <<>>)
      /\ pendingTx # <<>> \/ current # <<>>
      /\ ItemsOf(activation.todo) \subseteq Recorded /\ OnTheWay(known, ItemsOf(activation.todo))
  BY <1>1 DEF RestoreInOrder
<1>8. OnTheWay(known', ItemsOf(activation.todo))
  BY <1>6, <1>7, WayStays
<1>9. OnTheWay(known', ItemsOf(t)) /\ OnTheWay(known', Recorded)
  BY <1>3, <1>6, <1>7, <1>8, WayShrinks, WayGrows
<1>10. /\ activation' \in Activating /\ activation'.at = "restore" /\ activation'.op = activation.op
       /\ activation'.todo = t
  BY <1>1, <1>3 DEF ActivationTypes, Activating, BackSteps
<1>11. ActivationTypes' /\ OnTheWay(known', Recorded') /\ Recorded' = Recorded
  BY <1>1, <1>6, <1>9, <1>10, RecordKept DEF ActivationTypes
<1>12. RestoreInOrder'
  BY <1>1, <1>3, <1>7, <1>9, <1>10, <1>11 DEF RestoreInOrder
<1>. QED  BY <1>6, <1>10, <1>11, <1>12 DEF ReplaceInOrder, UnlinkInOrder, ApplySteps

(* The replacement is removed, the original takes its name back.            *)
LEMMA Deletes ==
  ASSUME ActivationInv, B!RestoreDelete
  PROVE  ActivationInv'
<1> USE DEF ActivationInv
<1> DEFINE i == Head(activation.todo)
<1>1. /\ activation.at = "restore" /\ activation.todo # <<>>
      /\ UNCHANGED <<pendingTx, current, drawnNames>>
      /\ Holds(known, i.svc, i.name, i.id) /\ known' = known \ B!Held(i.svc, 0)
  BY HeldFacts DEF B!RestoreDelete, B!At
<1>2. i \in Items /\ i \in ItemsOf(activation.todo)
  BY <1>1, JournalFacts, ItemsFacts
<1>3. /\ activation' \in Activating /\ activation'.at = "rename_back" /\ activation'.op = activation.op
      /\ activation'.todo = activation.todo
  BY GoFacts DEF B!RestoreDelete, B!Go, BackSteps
<1>4. Head(activation'.todo) = i
  BY <1>3
<1> HIDE DEF i
<1>5. i.name # 0
  BY <1>2 DEF Items
<1>6. /\ known' \subseteq Containers /\ NamesInOrder' /\ Elsewhere(i.svc) /\ NoneHolds(known', i.svc, 0)
      /\ Holds(known', i.svc, i.name, i.id)
  BY <1>1, <1>5, Deleted
<1>7. /\ activation.op \in {"apply", "rollback"} /\ (activation.op = "apply" => pendingTx # <<>>)
      /\ pendingTx # <<>> \/ current # <<>>
      /\ ItemsOf(activation.todo) \subseteq Recorded /\ OnTheWay(known, ItemsOf(activation.todo))
  BY <1>1 DEF RestoreInOrder, BackSteps
<1>8. OnTheWay(known', ItemsOf(activation.todo)) /\ OnTheWay(known', Recorded)
  BY <1>2, <1>6, <1>7, WayStays, WayGrows DEF InReach
<1>9. ActivationTypes' /\ OnTheWay(known', Recorded') /\ Recorded' = Recorded
  BY <1>1, <1>3, <1>6, <1>8, RecordKept DEF ActivationTypes
<1>10. RestoreInOrder'
  BY <1>1, <1>3, <1>4, <1>6, <1>7, <1>8, <1>9 DEF RestoreInOrder
<1>. QED  BY <1>3, <1>6, <1>9, <1>10 DEF ReplaceInOrder, UnlinkInOrder, ApplySteps

LEMMA RenamesBack ==
  ASSUME ActivationInv, B!RestoreRename
  PROVE  ActivationInv'
<1> USE DEF ActivationInv
<1> DEFINE i == Head(activation.todo)
<1>1. activation.at = "rename_back" /\ activation.todo # <<>> /\ UNCHANGED <<pendingTx, current, drawnNames>>
  BY DEF B!RestoreRename, B!At, RestoreInOrder, BackSteps
<1>2. PICK k \in B!Held(i.svc, i.name) : known' = (known \ {k}) \cup {[k EXCEPT !.name = 0]}
  BY DEF B!RestoreRename, B!Replace
<1>3. i \in Items /\ i \in ItemsOf(activation.todo)
  BY <1>1, JournalFacts, ItemsFacts
<1>4. /\ activation' \in Activating /\ activation'.at = "start_back" /\ activation'.op = activation.op
      /\ activation'.todo = activation.todo
  BY GoFacts DEF B!RestoreRename, B!Go, BackSteps
<1>5. /\ activation.op \in {"apply", "rollback"} /\ (activation.op = "apply" => pendingTx # <<>>)
      /\ pendingTx # <<>> \/ current # <<>>
      /\ ItemsOf(activation.todo) \subseteq Recorded /\ OnTheWay(known, ItemsOf(activation.todo))
      /\ NoneHolds(known, i.svc, 0) /\ Holds(known, i.svc, i.name, i.id)
  BY <1>1 DEF RestoreInOrder, BackSteps
<1> HIDE DEF i
<1> DEFINE l == [k EXCEPT !.name = 0]
<1>6. k \in known /\ k \in Containers /\ k.svc = i.svc /\ k.name = i.name /\ k.name # 0
  BY <1>3, HeldFacts DEF ActivationTypes, Items
<1>7. l \in Containers /\ l.svc = k.svc /\ l.id = k.id /\ l.name = 0 /\ l.name <= drawnNames
  BY <1>6 DEF Containers, ActivationTypes
<1>8. known' = (known \ {k}) \cup {l}
  BY <1>2
<1> HIDE DEF l
<1>9. k.id = i.id
  BY <1>5, <1>6 DEF Holds, NamesInOrder
<1>10. /\ known' \subseteq Containers /\ NamesInOrder' /\ Elsewhere(i.svc)
       /\ Holds(known', i.svc, 0, k.id) /\ NoneHolds(known', i.svc, i.name)
  BY <1>1, <1>5, <1>6, <1>7, <1>8, Moved
<1>11. InReach(known', i)
  BY <1>9, <1>10 DEF InReach
<1>12. OnTheWay(known', ItemsOf(activation.todo)) /\ OnTheWay(known', Recorded)
  BY <1>3, <1>5, <1>10, <1>11, WayStays, WayGrows
<1>13. ActivationTypes' /\ OnTheWay(known', Recorded') /\ Recorded' = Recorded
  BY <1>1, <1>4, <1>10, <1>12, RecordKept DEF ActivationTypes
<1>14. RestoreInOrder'
  BY <1>1, <1>4, <1>5, <1>12, <1>13 DEF RestoreInOrder
<1>. QED  BY <1>4, <1>10, <1>13, <1>14 DEF ReplaceInOrder, UnlinkInOrder, ApplySteps

LEMMA EndsRestore ==
  ASSUME ActivationInv, B!RestoreDone
  PROVE  ActivationInv'
<1> USE DEF ActivationInv
<1>1. /\ activation.at = "restore" /\ activation.todo = <<>> /\ known' = known /\ drawnNames' = drawnNames
      /\ activation.op \in {"apply", "rollback"}
      /\ pendingTx # <<>> \/ current # <<>>
      /\ OnTheWay(known, ItemsOf(activation.todo))
  BY DEF B!RestoreDone, B!At, RestoreInOrder, BackSteps
<1>2. OnTheWay(known', {}) /\ OnTheWay(known', Recorded')
  BY <1>1, JournalFacts, ItemsFacts, WayGrows
<1>3. NamesInOrder'
  BY <1>1 DEF NamesInOrder
<1>4. CASE activation.op = "apply"
  <2>1. pendingTx' = <<>> /\ activation' = B!Idle /\ current' = current
    BY <1>4 DEF B!RestoreDone
  <2>2. ActivationTypes'
    BY <1>1, <2>1, IdleFacts DEF ActivationTypes
  <2>. QED  BY <1>2, <1>3, <2>1, <2>2, IdleFacts, Rests DEF ApplySteps, BackSteps
<1>5. CASE activation.op = "rollback"
  <2>1. current' = B!Transaction.prev /\ pendingTx' = pendingTx
    BY <1>5 DEF B!RestoreDone
  <2>2. current' \in Seq(Activations)
    BY <1>1, <2>1, TransactionFacts
  <2>3. CASE pendingTx = <<>>
    <3>1. activation' = B!Idle
      BY <1>5, <2>3 DEF B!RestoreDone
    <3>2. ActivationTypes'
      BY <1>1, <2>1, <2>2, <3>1, IdleFacts DEF ActivationTypes
    <3>. QED  BY <1>2, <1>3, <3>1, <3>2, IdleFacts, Rests DEF ApplySteps, BackSteps
  <2>4. CASE pendingTx # <<>>
    <3>1. activation' = [activation EXCEPT !.at = "unlink"]
      BY <1>5, <2>4 DEF B!RestoreDone, B!Go
    <3>2. activation' \in Activating /\ activation'.at = "unlink" /\ activation'.op = activation.op
      BY <3>1, GoFacts
    <3>3. ActivationTypes'
      BY <1>1, <2>1, <2>2, <3>2 DEF ActivationTypes
    <3>4. UnlinkInOrder'
      BY <1>2, <1>5, <2>1, <2>4, <3>2 DEF UnlinkInOrder
    <3>. QED  BY <1>2, <1>3, <3>2, <3>3, <3>4
              DEF ReplaceInOrder, RestoreInOrder, ApplySteps, BackSteps
  <2>. QED  BY <2>3, <2>4
<1>. QED  BY <1>1, <1>4, <1>5

LEMMA ActivationStep ==
  ASSUME ActivationInv, [B!Next]_(B!bvars)
  PROVE  ActivationInv'
<1>1. CASE UNCHANGED B!bvars
  <2>1. UNCHANGED <<known, current, pendingTx, drawnNames, activation>>
    BY <1>1 DEF B!bvars
  <2>. QED
    BY <2>1, RecordKept
       DEF ActivationInv, ActivationTypes, NamesInOrder, ReplaceInOrder, Journaled, UnlinkInOrder,
           RestoreInOrder
<1>2. CASE B!Next
  BY <1>2, StageSteps, BeginsApply, Prepares, Stops, Renames, Creates, Commits, Unlinks, FailsToStop,
     FailsToCreate, FailsToCheck, BeginsRollback, Starts, Deletes, RenamesBack, EndsRestore
     DEF B!Next
<1>. QED  BY <1>1, <1>2

LEMMA ActivationAlways == Spec => [](part = "broker" => ActivationInv)
<1>1. Init => (part = "broker" => ActivationInv)
  BY ActivationInit DEF Init
<1>2. (part = "broker" => ActivationInv) /\ [Next]_vars => (part = "broker" => ActivationInv)'
  BY ActivationStep DEF Next, vars, B!bvars
<1>. QED  BY <1>1, <1>2, PTL DEF Spec

LEMMA ActivationSafe ==
  ASSUME ActivationInv
  PROVE  B!WayBack
<1> SUFFICES ASSUME NEW s \in B!Services, ~Serves(known, s)
             PROVE  /\ pendingTx # <<>> \/ current # <<>>
                    /\ \E i \in 1..Len(B!Transaction.items) :
                         B!Transaction.items[i].svc = s /\ B!Reachable(B!Transaction.items[i])
  BY HeldFacts DEF B!WayBack
<1>1. PICK it \in Recorded : it.svc = s /\ InReach(known, it)
  BY DEF ActivationInv, OnTheWay
<1>2. pendingTx # <<>> \/ current # <<>>
  BY <1>1 DEF Recorded
<1>3. it \in ItemsOf(B!Transaction.items)
  BY <1>1, <1>2, TransactionFacts DEF ActivationInv
<1>4. B!Reachable(it)
  BY <1>1, HeldFacts DEF InReach, B!Reachable
<1>5. PICK i \in 1..Len(B!Transaction.items) : B!Transaction.items[i] = it
  BY <1>3 DEF ItemsOf
<1>. QED  BY <1>1, <1>2, <1>4, <1>5

(* Whenever an activation or a rollback is cut short, a broker or collector *)
(* that is not running can be brought back by the rollback an operator asks *)
(* for: what it reads names the stopped original, which stands under its    *)
(* backup name or the service's own (replace_container journals before it   *)
(* stops, rollback() drops the journal after it restored).                  *)
THEOREM WayBackAlways == Spec => []WayBack
<1>1. (part = "broker" => ActivationInv) => WayBack
  BY ActivationSafe DEF WayBack
<1>. QED  BY <1>1, ActivationAlways, PTL

HIDE DEF known, incoming, stage, current, pendingTx, activation, drawnNames

-----------------------------------------------------------------------------
(* HaAdoption.                                                             *)
(*                                                                         *)
(* While Home Assistant is down and its adoption undecided, the worker is  *)
(* on its way, or the watchdog has yet to act, or one of the actors is in  *)
(* the middle of a restore that starts it.                                 *)
running   == x1
haConfig  == x2
private   == x3
haJournal == x5
actorAt   == x6
USE DEF running, haConfig, private, haJournal, actorAt

Adopting  == {"stop", "snapshot", "close", "install", "launch", "observe"}
Restoring == {"begin", "stop_again", "put_back", "open", "start", "start_only", "confirm"}

AdoptionTypes ==
  /\ haJournal \in [completed : BOOLEAN, restored : BOOLEAN] /\ running \in BOOLEAN
  /\ DOMAIN actorAt = H!Actors
  /\ actorAt["worker"] \in Adopting \cup Restoring \cup {"leave", "call_off", "off"}
  /\ actorAt["watchdog"] \in Restoring \cup {"asleep", "kill", "off"}
  /\ actorAt["rollback"] \in Restoring \cup {"off"}

Undecided == ~haJournal.completed /\ ~haJournal.restored
WatchdogAhead == actorAt["watchdog"] \in {"asleep", "kill"}

(* Until the worker has an outcome on record, the watchdog is still to come *)
(* and no rollback job runs.                                                *)
WorkerIsWatched ==
  /\ actorAt["worker"] \in Adopting \cup Restoring \cup {"leave"} =>
       Undecided /\ WatchdogAhead /\ actorAt["rollback"] = "off"
  /\ actorAt["worker"] = "call_off" =>
       ~Undecided /\ actorAt["watchdog"] \in {"asleep", "kill", "off"}

(* A stopped Home Assistant: the watchdog will find the adoption undecided, *)
(* or a restore is on its way to the start.                                 *)
SomebodyStarts ==
  ~running => \/ Undecided /\ WatchdogAhead
              \/ \E a \in {"watchdog", "rollback"} :
                   actorAt[a] \in {"begin", "put_back", "open", "start", "start_only"}

DirectoryClosed ==
  /\ haConfig # "old" => private
  /\ actorAt["worker"] = "install" => private
  /\ \A a \in H!Actors : actorAt[a] = "open" => haConfig = "old"

AdoptionInv == AdoptionTypes /\ WorkerIsWatched /\ SomebodyStarts /\ DirectoryClosed

LEMMA AdoptionInit == H!Init => AdoptionInv
  BY DEF H!Init, H!Actors, H!NoJournal, AdoptionInv, AdoptionTypes, WorkerIsWatched, SomebodyStarts,
         DirectoryClosed, Adopting, Restoring

(* An actor moves, the others stay.                                         *)
LEMMA ActorGoes ==
  ASSUME AdoptionInv, NEW a \in H!Actors, NEW s, H!Go(a, s)
  PROVE  /\ DOMAIN actorAt' = H!Actors /\ actorAt'[a] = s
         /\ \A b \in H!Actors : b # a => actorAt'[b] = actorAt[b]
  BY DEF H!Go, AdoptionInv, AdoptionTypes

(* The worker on its way through the adoption.                              *)
LEMMA AdopterSteps ==
  ASSUME AdoptionInv,
         \/ H!HaStops \/ H!Snapshot \/ H!CloseDirectory \/ H!Install \/ H!HaStarts \/ H!Fails
  PROVE  AdoptionInv'
<1>1. PICK s \in Adopting \cup {"begin"} :
        H!Go("worker", s) /\ (s = "install" => private') /\ (haConfig' # "old" => private')
  BY DEF H!HaStops, H!Snapshot, H!CloseDirectory, H!Install, H!HaStarts, H!Fails, H!HaFiles, H!At,
         Adopting, AdoptionInv, DirectoryClosed
<1>2. actorAt["worker"] \in Adopting
  BY DEF H!HaStops, H!Snapshot, H!CloseDirectory, H!Install, H!HaStarts, H!Fails, Adopting, H!At
<1>3. /\ Undecided /\ WatchdogAhead /\ actorAt["rollback"] = "off"
      /\ haJournal' = haJournal /\ running' \in BOOLEAN
  BY <1>2 DEF AdoptionInv, AdoptionTypes, WorkerIsWatched, H!HaStops, H!Snapshot, H!CloseDirectory,
              H!Install, H!HaStarts, H!Fails
<1>4. /\ DOMAIN actorAt' = H!Actors /\ actorAt'["worker"] = s
      /\ actorAt'["watchdog"] = actorAt["watchdog"] /\ actorAt'["rollback"] = actorAt["rollback"]
  BY <1>1, ActorGoes DEF H!Actors
<1>5. AdoptionTypes' /\ WorkerIsWatched' /\ SomebodyStarts'
  BY <1>3, <1>4 DEF AdoptionInv, AdoptionTypes, WorkerIsWatched, SomebodyStarts, Undecided,
                    WatchdogAhead, Adopting, Restoring
<1>6. DirectoryClosed'
  <2>1. \A a \in H!Actors : actorAt'[a] # "open"
    BY <1>3, <1>4 DEF WatchdogAhead, H!Actors, Adopting
  <2>. QED  BY <1>1, <1>4, <2>1 DEF DirectoryClosed
<1>. QED  BY <1>5, <1>6 DEF AdoptionInv

(* The worker with its outcome on record, or killed.                        *)
LEMMA WorkerEnds ==
  ASSUME AdoptionInv, H!Complete \/ H!CallOff \/ H!Leave \/ H!Killed
  PROVE  AdoptionInv'
<1>1. UNCHANGED <<running, haConfig, private>>
  BY DEF H!Complete, H!CallOff, H!Leave, H!Killed, H!HaFiles
<1>2. CASE H!Complete
  <2>1. H!Go("worker", "call_off") /\ actorAt["worker"] = "observe" /\ running
        /\ haJournal' = [haJournal EXCEPT !.completed = TRUE]
    BY <1>2 DEF H!Complete, H!At, H!Witnessed
  <2>2. /\ DOMAIN actorAt' = H!Actors /\ actorAt'["worker"] = "call_off"
        /\ actorAt'["watchdog"] = actorAt["watchdog"] /\ actorAt'["rollback"] = actorAt["rollback"]
    BY <2>1, ActorGoes DEF H!Actors
  <2>. QED
    BY <1>1, <2>1, <2>2 DEF AdoptionInv, AdoptionTypes, WorkerIsWatched, SomebodyStarts,
       DirectoryClosed, Undecided, WatchdogAhead, Adopting, Restoring, H!Actors
<1>3. CASE H!CallOff
  BY <1>1, <1>3 DEF H!CallOff, H!At, AdoptionInv, AdoptionTypes, WorkerIsWatched, SomebodyStarts,
     DirectoryClosed, Undecided, WatchdogAhead, Adopting, Restoring, H!Actors
<1>4. CASE H!Leave \/ H!Killed
  <2>1. H!Go("worker", "off") /\ haJournal' = haJournal
    BY <1>4 DEF H!Leave, H!Killed
  <2>2. /\ DOMAIN actorAt' = H!Actors /\ actorAt'["worker"] = "off"
        /\ actorAt'["watchdog"] = actorAt["watchdog"] /\ actorAt'["rollback"] = actorAt["rollback"]
    BY <2>1, ActorGoes DEF H!Actors
  <2>. QED
    BY <1>1, <2>1, <2>2 DEF AdoptionInv, AdoptionTypes, WorkerIsWatched, SomebodyStarts,
       DirectoryClosed, Undecided, WatchdogAhead, Adopting, Restoring, H!Actors
<1>. QED  BY <1>2, <1>3, <1>4

(* A restore moves from step to step; only its first half leaves Home       *)
(* Assistant stopped, and its second half starts it.                        *)
LEMMA ActorRestoreSteps ==
  ASSUME H!AdoptionAssumption, AdoptionInv, NEW a \in H!Actors,
         \/ H!RestoreBegins(a) \/ H!RestoreStops(a) \/ H!PutBack(a) \/ H!OpenDirectory(a)
         \/ H!StartAgain(a)
  PROVE  AdoptionInv'
<1>. DEFINE Turns(s) ==
        /\ H!Go(a, s)
        /\ running' = running \/ running' \/ actorAt[a] = "stop_again"
        /\ actorAt[a] = "stop_again" => s = "put_back" \/ a = "worker"
        /\ actorAt[a] \in {"begin", "put_back", "open"} /\ ~running =>
             s \in {"put_back", "open", "start", "start_only"}
        /\ actorAt[a] \in {"start", "start_only"} => running'
        /\ s = "leave" => a = "worker"
        /\ s = "open" => haConfig' = "old"
        /\ haConfig' \in {haConfig, "old"}
        /\ private' = private \/ (actorAt[a] = "open" /\ haConfig' = haConfig)
<1>1. PICK s \in {"stop_again", "put_back", "open", "start", "start_only", "confirm", "leave", "off"} : Turns(s)
  <2>1. CASE H!RestoreBegins(a)
    <3>1. Turns("stop_again") \/ Turns("put_back")
      BY <2>1 DEF H!RestoreBegins, H!At, H!HaFiles
    <3>. QED  BY <3>1
  <2>2. CASE H!RestoreStops(a)
    <3>1. Turns("put_back") \/ Turns("off")
      BY <2>2 DEF H!RestoreStops, H!At, H!HaFiles, H!AdoptionAssumption
    <3>. QED  BY <3>1
  <2>3. CASE H!PutBack(a)
    <3>1. Turns("open") \/ Turns("start") \/ Turns("start_only")
      BY <2>3, SMT DEF H!PutBack, H!At
    <3>. QED  BY <3>1
  <2>4. CASE H!OpenDirectory(a)
    <3>1. Turns("start")
      BY <2>4 DEF H!OpenDirectory, H!At
    <3>. QED  BY <3>1
  <2>5. CASE H!StartAgain(a)
    <3>1. Turns("confirm") \/ Turns("leave") \/ Turns("off")
      BY <2>5 DEF H!StartAgain, H!GivesUp, H!At, H!HaFiles
    <3>. QED  BY <3>1
  <2>. QED  BY <2>1, <2>2, <2>3, <2>4, <2>5
<1>2. actorAt[a] \in Restoring /\ haJournal' = haJournal /\ running' \in BOOLEAN
  BY DEF H!RestoreBegins, H!RestoreStops, H!PutBack, H!OpenDirectory, H!StartAgain, H!At, Restoring,
         AdoptionInv, AdoptionTypes
<1>3. /\ DOMAIN actorAt' = H!Actors /\ actorAt'[a] = s
      /\ \A b \in H!Actors : b # a => actorAt'[b] = actorAt[b]
  BY <1>1, ActorGoes
<1>4. AdoptionTypes'
  BY <1>1, <1>2, <1>3 DEF AdoptionInv, AdoptionTypes, H!Actors, Restoring
<1>5. WorkerIsWatched'
  BY <1>1, <1>2, <1>3 DEF AdoptionInv, AdoptionTypes, WorkerIsWatched, Undecided, WatchdogAhead,
                          H!Actors, Restoring, Adopting
<1>6. SomebodyStarts'
  <2>1. CASE a = "worker"
    BY <1>1, <1>2, <1>3, <2>1 DEF AdoptionInv, WorkerIsWatched, SomebodyStarts, Undecided, WatchdogAhead,
                                  H!Actors
  <2>2. CASE a # "worker"
    BY <1>1, <1>2, <1>3, <2>2 DEF AdoptionInv, SomebodyStarts, Undecided, WatchdogAhead, H!Actors, Restoring
  <2>. QED  BY <2>1, <2>2
<1>7. DirectoryClosed'
  <2>1. actorAt[a] = "open" => haConfig = "old" /\ actorAt'["worker"] # "install"
    BY <1>1, <1>2, <1>3 DEF AdoptionInv, DirectoryClosed, WorkerIsWatched, WatchdogAhead, H!Actors, Adopting,
       Restoring
  <2>2. actorAt'["worker"] = "install" => actorAt["worker"] = "install"
    BY <1>1, <1>3 DEF H!Actors
  <2>. QED  BY <1>1, <1>3, <2>1, <2>2 DEF AdoptionInv, DirectoryClosed
<1>. QED  BY <1>4, <1>5, <1>6, <1>7 DEF AdoptionInv

(* A restore ends: it is on record, or Home Assistant was stopped again by  *)
(* another one, which is still to start it.                                 *)
LEMMA AdoptionConfirmStep ==
  ASSUME AdoptionInv, NEW a \in H!Actors, H!Confirm(a)
  PROVE  AdoptionInv'
<1>1. PICK s \in {"leave", "call_off", "off"} :
        /\ H!Go(a, s)
        /\ s = "off" <=> a # "worker"
        /\ \/ haJournal' = haJournal /\ ~running /\ s # "call_off"
           \/ haJournal' = [haJournal EXCEPT !.restored = TRUE] /\ running /\ s # "leave"
  BY DEF H!Confirm, H!GivesUp
<1>2. actorAt[a] = "confirm" /\ UNCHANGED <<running, haConfig, private>>
  BY DEF H!Confirm, H!At, H!HaFiles
<1>3. /\ DOMAIN actorAt' = H!Actors /\ actorAt'[a] = s
      /\ \A b \in H!Actors : b # a => actorAt'[b] = actorAt[b]
  BY <1>1, ActorGoes
<1>4. /\ haJournal' \in [completed : BOOLEAN, restored : BOOLEAN]
      /\ running => haJournal'.restored
      /\ ~running => haJournal' = haJournal
  BY <1>1 DEF AdoptionInv, AdoptionTypes
<1>5. AdoptionTypes'
  BY <1>1, <1>2, <1>3, <1>4 DEF AdoptionInv, AdoptionTypes, H!Actors
<1>6. WorkerIsWatched'
  <2>1. CASE a = "worker"
    BY <1>1, <1>2, <1>3, <1>4, <2>1 DEF AdoptionInv, WorkerIsWatched, Undecided, WatchdogAhead, H!Actors,
                                        Restoring, Adopting
  <2>2. CASE a # "worker"
    BY <1>1, <1>2, <1>3, <1>4, <2>2 DEF AdoptionInv, WorkerIsWatched, Undecided, WatchdogAhead, H!Actors,
                                        Restoring, Adopting
  <2>. QED  BY <2>1, <2>2
<1>7. SomebodyStarts'
  BY <1>1, <1>2, <1>3, <1>4 DEF AdoptionInv, SomebodyStarts, Undecided, WatchdogAhead, H!Actors
<1>8. DirectoryClosed'
  BY <1>1, <1>2, <1>3 DEF AdoptionInv, DirectoryClosed, H!Actors
<1>. QED  BY <1>5, <1>6, <1>7, <1>8 DEF AdoptionInv

(* An adoption begins, the watchdog wakes, a rollback job is submitted.     *)
LEMMA OthersStep ==
  ASSUME AdoptionInv,
         \/ H!Adopt \/ H!WatchdogReads \/ H!WatchdogKills \/ H!Rollback \/ H!BrokerTurns \/ H!HaRewrites
  PROVE  AdoptionInv'
<1>1. CASE H!Adopt
  <2>1. /\ DOMAIN actorAt' = H!Actors /\ actorAt'["worker"] = "stop"
        /\ actorAt'["watchdog"] = "asleep" /\ actorAt'["rollback"] = "off"
        /\ haJournal' = [completed |-> FALSE, restored |-> FALSE]
        /\ running /\ haConfig = "old" /\ UNCHANGED <<running, haConfig, private>>
    BY <1>1 DEF H!Adopt, H!Admitted, H!Preflight, H!Alive, H!NoJournal, AdoptionInv, AdoptionTypes, H!Actors
  <2>. QED
    BY <2>1 DEF AdoptionInv, AdoptionTypes, WorkerIsWatched, SomebodyStarts, DirectoryClosed, Undecided,
                WatchdogAhead, Adopting, Restoring, H!Actors
<1>2. CASE H!WatchdogReads \/ H!WatchdogKills \/ H!Rollback
  <2>1. UNCHANGED <<running, haConfig, private, haJournal>>
    BY <1>2 DEF H!WatchdogReads, H!WatchdogKills, H!Rollback, H!HaFiles
  <2>2. CASE H!WatchdogReads
    <3>1. PICK s \in {"off", "kill"} : H!Go("watchdog", s) /\ (s = "off" <=> ~Undecided)
      BY <2>2 DEF H!WatchdogReads, Undecided
    <3>2. /\ DOMAIN actorAt' = H!Actors /\ actorAt'["watchdog"] = s /\ actorAt["watchdog"] = "asleep"
          /\ actorAt'["worker"] = actorAt["worker"] /\ actorAt'["rollback"] = actorAt["rollback"]
      BY <2>2, <3>1, ActorGoes DEF H!Actors, H!WatchdogReads, H!At
    <3>. QED
      BY <2>1, <3>1, <3>2 DEF AdoptionInv, AdoptionTypes, WorkerIsWatched, SomebodyStarts, DirectoryClosed,
         Undecided, WatchdogAhead, H!Actors
  <2>3. CASE H!WatchdogKills
    <3>1. /\ DOMAIN actorAt' = H!Actors /\ actorAt'["watchdog"] = "begin"
          /\ actorAt'["worker"] = "off" /\ actorAt'["rollback"] = actorAt["rollback"]
      BY <2>3 DEF H!WatchdogKills, AdoptionInv, AdoptionTypes, H!Actors
    <3>. QED
      BY <2>1, <3>1 DEF AdoptionInv, AdoptionTypes, WorkerIsWatched, SomebodyStarts, DirectoryClosed,
         Undecided, WatchdogAhead, Adopting, Restoring, H!Actors
  <2>4. CASE H!Rollback
    <3>1. /\ DOMAIN actorAt' = H!Actors /\ actorAt'["rollback"] = "begin" /\ ~Undecided
          /\ actorAt'["worker"] = actorAt["worker"] /\ actorAt'["watchdog"] = actorAt["watchdog"]
      BY <2>4, ActorGoes DEF H!Rollback, H!Actors, Undecided
    <3>. QED
      BY <2>1, <3>1 DEF AdoptionInv, AdoptionTypes, WorkerIsWatched, SomebodyStarts, DirectoryClosed,
         Undecided, WatchdogAhead, Restoring, H!Actors
  <2>. QED  BY <1>2, <2>2, <2>3, <2>4
<1>3. CASE H!BrokerTurns \/ H!HaRewrites
  <2>1. UNCHANGED <<running, private, haJournal, actorAt>> /\ (haConfig' = haConfig \/ haConfig = "new")
    BY <1>3 DEF H!BrokerTurns, H!HaRewrites, H!HaFiles
  <2>. QED
    BY <2>1 DEF AdoptionInv, AdoptionTypes, WorkerIsWatched, SomebodyStarts, DirectoryClosed, Undecided,
                WatchdogAhead
<1>. QED  BY <1>1, <1>2, <1>3

LEMMA AdoptionStep == ASSUME H!AdoptionAssumption, AdoptionInv, [H!Next]_H!hvars  PROVE AdoptionInv'
<1>1. CASE UNCHANGED H!hvars
  BY <1>1 DEF H!hvars, AdoptionInv, AdoptionTypes, WorkerIsWatched, SomebodyStarts, DirectoryClosed,
              Undecided, WatchdogAhead
<1>. QED  BY <1>1, AdopterSteps, WorkerEnds, ActorRestoreSteps, AdoptionConfirmStep, OthersStep DEF H!Next

LEMMA AdoptionAlways == Spec => [](part = "adoption" => AdoptionInv)
<1>1. Init => (part = "adoption" => AdoptionInv)
  BY AdoptionInit DEF Init
<1>2. (part = "adoption" => AdoptionInv) /\ [Next]_vars => (part = "adoption" => AdoptionInv)'
  BY AdoptionStep, PartsAssumption DEF Next, vars, H!hvars
<1>. QED  BY <1>1, <1>2, PTL DEF Spec

(* Whoever of the three processes is interrupted, a stopped Home Assistant  *)
(* has somebody who will start it, and its new password is in a closed      *)
(* directory (adopt, restore, watchdog_recover).                            *)
THEOREM AdoptionAlwaysSafe == Spec => []AdoptionIsSafe
<1>1. (part = "adoption" => AdoptionInv) => AdoptionIsSafe
  <2>1. AdoptionInv => H!CredentialIsPrivate
    BY DEF AdoptionInv, DirectoryClosed, H!CredentialIsPrivate
  <2>2. AdoptionInv => H!HaComesBack
    BY DEF AdoptionInv, SomebodyStarts, WatchdogAhead, H!HaComesBack, H!Alive, H!Actors
  <2>. QED  BY <2>1, <2>2 DEF AdoptionIsSafe, H!AdoptionIsSafe
<1>. QED  BY <1>1, AdoptionAlways, PTL

HIDE DEF running, haConfig, private, haJournal, actorAt

-----------------------------------------------------------------------------
(* Maintenance.                                                            *)
(*                                                                         *)
(* Who holds queue.lock or has submitted is the only one who may start a   *)
(* script, and only a script whose pid is on record runs, workers cut      *)
(* loose aside; docker is restarted with live-restore in force as long as  *)
(* none of those has its turn behind a later submit.                       *)
submitAt      == x1
workerAt      == x2
jobState      == x3
pidKnown      == x4
latest        == x5
queueLock     == x6
dockerConfig  == x7
liveRestore   == x8
recoveryPhase == x9
dockerd       == x10
containers    == x11
restarts      == x12
cutLoose      == x13
USE DEF submitAt, workerAt, jobState, pidKnown, latest, queueLock, dockerConfig, liveRestore,
        recoveryPhase, dockerd, containers, restarts, cutLoose

MaintenanceTypes ==
  /\ DOMAIN submitAt = SignedRequests /\ DOMAIN workerAt = SignedRequests
  /\ DOMAIN jobState = SignedRequests /\ DOMAIN pidKnown = SignedRequests
  /\ latest \in SignedRequests \cup {0} /\ queueLock \in SignedRequests \cup {0}
  /\ cutLoose \subseteq SignedRequests

(* A submit from the lock to the process number.                            *)
Submitting(r) == submitAt[r] \in {"queue", "point", "launch", "pid"}
AtWork(r) == workerAt[r] \notin {"none", "ended"}

SubmitHasLock == \A r \in SignedRequests : Submitting(r) => queueLock = r
LatestByThen == \A r \in SignedRequests : submitAt[r] \in {"launch", "pid"} => latest = r
JobByThen == \A r \in SignedRequests : submitAt[r] \in {"point", "launch", "pid"} => jobState[r] = "queued"
StartedAtPid == \A r \in SignedRequests : submitAt[r] = "pid" => workerAt[r] = "started"

CutIsThrough == \A r \in cutLoose : submitAt[r] = "through"

(* One worker, which the pointer names and a later submit finds alive, and  *)
(* the workers cut loose.                                                   *)
NobodyBefore ==
  \A r, s \in SignedRequests :
     submitAt[r] \in {"queue", "point", "launch"} /\ AtWork(s) => s \in cutLoose
WorkerIsFound ==
  \A r \in SignedRequests :
     AtWork(r) => \/ r \in cutLoose
                  \/ /\ latest = r /\ jobState[r] \in {"queued", "running"}
                     /\ pidKnown[r] \/ submitAt[r] = "pid"

(* What the one attempt on record may still do, as long as no worker cut    *)
(* loose has its turn behind a later submit.                                *)
InTurn == \A r \in cutLoose : workerAt[r] = "started"
EarlySteps == {"drift", "journal"}
LateSteps == {"install", "reload", "wait", "verified", "requested", "restart",
              "undo", "undo_reload", "undo_notify"}
Earnest == {"verified", "requested", "restart"}
AttemptInOrder ==
  /\ \A r \in SignedRequests : workerAt[r] \in EarlySteps => recoveryPhase = "none"
  /\ recoveryPhase = "none" =>
       restarts = 0 /\ \A r \in SignedRequests : workerAt[r] \notin LateSteps \cup {"observe"}
  /\ restarts = 0 => dockerd = "old"
  /\ \A r \in SignedRequests : workerAt[r] \in LateSteps => restarts = 0
  /\ \A r \in SignedRequests : workerAt[r] \in Earnest => liveRestore
  /\ dockerd = "stopping" => liveRestore
  /\ containers /\ restarts \in {0, 1}

(* The gateway, and the attempt.                                            *)
GatewayInOrder ==
  /\ MaintenanceTypes /\ SubmitHasLock /\ LatestByThen /\ JobByThen /\ StartedAtPid
  /\ CutIsThrough /\ NobodyBefore /\ WorkerIsFound

MaintenanceInv == GatewayInOrder /\ (InTurn => AttemptInOrder)

LEMMA NoRequestIsZero == 0 \notin SignedRequests
  BY PartsAssumption DEF M!MaintenanceAssumption

LEMMA MaintenanceInit == M!Init => MaintenanceInv
<1> SUFFICES ASSUME M!Init  PROVE MaintenanceInv
  OBVIOUS
<1>1. /\ submitAt = [r \in SignedRequests |-> "idle"] /\ workerAt = [r \in SignedRequests |-> "none"]
      /\ jobState = [r \in SignedRequests |-> "none"] /\ pidKnown = [r \in SignedRequests |-> FALSE]
      /\ latest = 0 /\ queueLock = 0 /\ recoveryPhase = "none" /\ dockerd = "old" /\ containers
      /\ restarts = 0 /\ cutLoose = {}
  BY DEF M!Init
<1>2. MaintenanceTypes
  BY <1>1 DEF MaintenanceTypes
<1>3. \A r \in SignedRequests : submitAt[r] = "idle" /\ workerAt[r] = "none"
  BY <1>1
<1>4. GatewayInOrder
  BY <1>1, <1>2, <1>3
  DEF GatewayInOrder, SubmitHasLock, Submitting, LatestByThen, JobByThen, StartedAtPid, CutIsThrough,
      NobodyBefore, AtWork, WorkerIsFound
<1>5. AttemptInOrder
  BY <1>1, <1>3 DEF AttemptInOrder, EarlySteps, LateSteps, Earnest
<1>. QED  BY <1>4, <1>5 DEF MaintenanceInv

(* The pointer names whoever is at work and not cut loose.                  *)
LEMMA OneAtWork ==
  ASSUME GatewayInOrder, NEW r \in SignedRequests, NEW s \in SignedRequests, AtWork(r), AtWork(s),
         r \notin cutLoose, s \notin cutLoose
  PROVE  r = s
  BY DEF GatewayInOrder, WorkerIsFound

(* A worker that runs moves to another step of its work.                    *)
LEMMA WorkGoesOn ==
  ASSUME GatewayInOrder, NEW r \in SignedRequests, NEW s, M!To(r, s),
         workerAt[r] \notin {"none", "ended", "started"}, s \notin {"none", "ended", "started"},
         UNCHANGED <<submitAt, jobState, pidKnown, latest, queueLock, cutLoose>>
  PROVE  /\ GatewayInOrder'
         /\ workerAt'[r] = s /\ DOMAIN workerAt' = SignedRequests
         /\ \A q \in SignedRequests : q # r => workerAt'[q] = workerAt[q]
         /\ InTurn' => InTurn
         /\ InTurn => \A q \in SignedRequests : q # r => workerAt[q] \in {"none", "ended", "started"}
<1>1. /\ workerAt'[r] = s /\ DOMAIN workerAt' = SignedRequests
      /\ \A q \in SignedRequests : q # r => workerAt'[q] = workerAt[q]
  BY DEF M!To, GatewayInOrder, MaintenanceTypes
<1>2. AtWork(r) /\ AtWork(r)' /\ \A q \in SignedRequests : AtWork(q)' <=> AtWork(q)
  BY <1>1 DEF AtWork
<1>3. /\ MaintenanceTypes' /\ SubmitHasLock' /\ LatestByThen' /\ JobByThen' /\ CutIsThrough'
  BY <1>1
  DEF GatewayInOrder, MaintenanceTypes, SubmitHasLock, Submitting, LatestByThen, JobByThen, CutIsThrough
<1>4. StartedAtPid'
  BY <1>1 DEF GatewayInOrder, StartedAtPid
<1>5. NobodyBefore' /\ WorkerIsFound'
  BY <1>2 DEF GatewayInOrder, NobodyBefore, WorkerIsFound
<1>6. InTurn' => InTurn
  BY <1>1 DEF InTurn, GatewayInOrder, MaintenanceTypes
<1>7. InTurn => \A q \in SignedRequests : q # r => workerAt[q] \in {"none", "ended", "started"}
  BY <1>2, OneAtWork DEF InTurn, AtWork
<1>. QED  BY <1>1, <1>3, <1>4, <1>5, <1>6, <1>7 DEF GatewayInOrder

(* Nothing of the daemon changes as long as nobody comes to a new step.     *)
LEMMA DockerRests ==
  ASSUME AttemptInOrder, UNCHANGED M!docker,
         \A q \in SignedRequests :
            \/ workerAt'[q] = workerAt[q]
            \/ workerAt'[q] \notin EarlySteps \cup LateSteps \cup {"observe"}
  PROVE  AttemptInOrder'
<1>1. UNCHANGED <<dockerConfig, liveRestore, recoveryPhase, dockerd, containers, restarts>>
  BY DEF M!docker
<1>. QED  BY <1>1 DEF AttemptInOrder, EarlySteps, LateSteps, Earnest

LEMMA BeginStep ==
  ASSUME MaintenanceInv, NEW r \in SignedRequests, M!SubmitBegins(r)
  PROVE  MaintenanceInv'
<1>1. /\ submitAt[r] = "idle" /\ queueLock = 0 /\ queueLock' = r
      /\ submitAt' = [submitAt EXCEPT ![r] = "queue"]
      /\ UNCHANGED <<workerAt, jobState, pidKnown, latest, cutLoose>> /\ UNCHANGED M!docker /\ ~M!Live
  BY DEF M!SubmitBegins
<1>2. /\ submitAt'[r] = "queue" /\ DOMAIN submitAt' = SignedRequests
      /\ \A q \in SignedRequests : q # r => submitAt'[q] = submitAt[q]
  BY <1>1 DEF MaintenanceInv, GatewayInOrder, MaintenanceTypes
<1>3. \A q \in SignedRequests : ~Submitting(q)
  BY <1>1, NoRequestIsZero DEF MaintenanceInv, GatewayInOrder, SubmitHasLock
<1>4. \A q \in SignedRequests : AtWork(q) => q \in cutLoose
  <2> SUFFICES ASSUME NEW q \in SignedRequests, AtWork(q), q \notin cutLoose  PROVE FALSE
    OBVIOUS
  <2>1. latest = q /\ jobState[q] \in {"queued", "running"} /\ pidKnown[q]
    BY <1>3 DEF MaintenanceInv, GatewayInOrder, WorkerIsFound, Submitting
  <2>. QED  BY <2>1, <1>1, NoRequestIsZero DEF M!Live, AtWork
<1>5. MaintenanceTypes' /\ SubmitHasLock' /\ LatestByThen' /\ JobByThen' /\ StartedAtPid'
  BY <1>1, <1>2, <1>3
  DEF MaintenanceInv, GatewayInOrder, MaintenanceTypes, SubmitHasLock, Submitting, LatestByThen, JobByThen,
      StartedAtPid
<1>6. CutIsThrough' /\ NobodyBefore' /\ WorkerIsFound'
  BY <1>1, <1>2, <1>4 DEF MaintenanceInv, GatewayInOrder, CutIsThrough, NobodyBefore, WorkerIsFound, AtWork
<1>7. InTurn' => AttemptInOrder'
  BY <1>1, DockerRests DEF MaintenanceInv, InTurn
<1>. QED  BY <1>5, <1>6, <1>7 DEF MaintenanceInv, GatewayInOrder

LEMMA SubmitStep ==
  ASSUME MaintenanceInv, NEW r \in SignedRequests, M!SubmitSteps(r)
  PROVE  MaintenanceInv'
<1>1. /\ Submitting(r) /\ queueLock = r /\ r # 0 /\ r \notin cutLoose
      /\ UNCHANGED M!docker /\ UNCHANGED cutLoose
  BY NoRequestIsZero
  DEF M!SubmitSteps, MaintenanceInv, GatewayInOrder, SubmitHasLock, Submitting, CutIsThrough
<1>2. \A q \in SignedRequests : q # r => ~Submitting(q)
  BY <1>1 DEF MaintenanceInv, GatewayInOrder, SubmitHasLock
<1>3. CASE /\ submitAt[r] = "queue" /\ submitAt' = [submitAt EXCEPT ![r] = "point"]
           /\ jobState' = [jobState EXCEPT ![r] = "queued"]
           /\ UNCHANGED <<workerAt, pidKnown, latest, queueLock>>
  <2>1. \A q \in SignedRequests : /\ AtWork(q) => q \in cutLoose
                                  /\ AtWork(q)' => q \in cutLoose'
    BY <1>1, <1>3 DEF MaintenanceInv, GatewayInOrder, NobodyBefore, AtWork
  <2>2. /\ MaintenanceTypes' /\ SubmitHasLock' /\ LatestByThen' /\ JobByThen' /\ StartedAtPid'
        /\ CutIsThrough'
    BY <1>1, <1>2, <1>3
    DEF MaintenanceInv, GatewayInOrder, MaintenanceTypes, SubmitHasLock, Submitting, LatestByThen, JobByThen,
        StartedAtPid, CutIsThrough
  <2>3. InTurn' => AttemptInOrder'
    BY <1>1, <1>3, DockerRests DEF MaintenanceInv, InTurn
  <2>. QED  BY <2>1, <2>2, <2>3 DEF MaintenanceInv, GatewayInOrder, NobodyBefore, WorkerIsFound
<1>4. CASE /\ submitAt[r] = "point" /\ submitAt' = [submitAt EXCEPT ![r] = "launch"]
           /\ latest' = r
           /\ UNCHANGED <<workerAt, jobState, pidKnown, queueLock>>
  <2>1. \A q \in SignedRequests : /\ AtWork(q) => q \in cutLoose
                                  /\ AtWork(q)' => q \in cutLoose'
    BY <1>1, <1>4 DEF MaintenanceInv, GatewayInOrder, NobodyBefore, AtWork
  <2>2. /\ MaintenanceTypes' /\ SubmitHasLock' /\ LatestByThen' /\ JobByThen' /\ StartedAtPid'
        /\ CutIsThrough'
    BY <1>1, <1>2, <1>4
    DEF MaintenanceInv, GatewayInOrder, MaintenanceTypes, SubmitHasLock, Submitting, LatestByThen, JobByThen,
        StartedAtPid, CutIsThrough
  <2>3. InTurn' => AttemptInOrder'
    BY <1>1, <1>4, DockerRests DEF MaintenanceInv, InTurn
  <2>. QED  BY <2>1, <2>2, <2>3 DEF MaintenanceInv, GatewayInOrder, NobodyBefore, WorkerIsFound
<1>5. CASE /\ submitAt[r] = "launch" /\ submitAt' = [submitAt EXCEPT ![r] = "pid"]
           /\ M!To(r, "started")
           /\ UNCHANGED <<jobState, pidKnown, latest, queueLock>>
  <2>1. \A q \in SignedRequests : AtWork(q) => q \in cutLoose
    BY <1>5 DEF MaintenanceInv, GatewayInOrder, NobodyBefore
  <2>2. /\ workerAt'[r] = "started" /\ DOMAIN workerAt' = SignedRequests
        /\ \A q \in SignedRequests : q # r => workerAt'[q] = workerAt[q]
        /\ submitAt'[r] = "pid" /\ DOMAIN submitAt' = SignedRequests
        /\ \A q \in SignedRequests : q # r => submitAt'[q] = submitAt[q]
    BY <1>5 DEF M!To, MaintenanceInv, GatewayInOrder, MaintenanceTypes
  <2>3. /\ MaintenanceTypes' /\ SubmitHasLock' /\ LatestByThen' /\ JobByThen' /\ StartedAtPid'
        /\ CutIsThrough'
    BY <1>1, <1>2, <1>5, <2>2
    DEF MaintenanceInv, GatewayInOrder, MaintenanceTypes, SubmitHasLock, Submitting, LatestByThen, JobByThen,
        StartedAtPid, CutIsThrough
  <2>4. NobodyBefore'
    BY <1>2, <2>2 DEF NobodyBefore, Submitting
  <2>5. latest = r /\ jobState[r] = "queued"
    BY <1>5 DEF MaintenanceInv, GatewayInOrder, LatestByThen, JobByThen
  <2>6. WorkerIsFound'
    BY <1>1, <1>5, <2>1, <2>2, <2>5 DEF WorkerIsFound, AtWork
  <2>7. InTurn' => InTurn
    BY <1>1, <2>2 DEF InTurn, MaintenanceInv, GatewayInOrder, MaintenanceTypes
  <2>8. InTurn' => AttemptInOrder'
    BY <1>1, <2>2, <2>7, DockerRests DEF MaintenanceInv, EarlySteps, LateSteps
  <2>. QED  BY <2>3, <2>4, <2>6, <2>8 DEF MaintenanceInv, GatewayInOrder
<1>6. CASE /\ submitAt[r] = "pid" /\ submitAt' = [submitAt EXCEPT ![r] = "through"]
           /\ pidKnown' = [pidKnown EXCEPT ![r] = TRUE] /\ queueLock' = 0
           /\ UNCHANGED <<workerAt, jobState, latest>>
  <2>1. /\ submitAt'[r] = "through" /\ DOMAIN submitAt' = SignedRequests
        /\ \A q \in SignedRequests : q # r => submitAt'[q] = submitAt[q]
        /\ pidKnown'[r] /\ DOMAIN pidKnown' = SignedRequests
        /\ \A q \in SignedRequests : q # r => pidKnown'[q] = pidKnown[q]
    BY <1>6 DEF MaintenanceInv, GatewayInOrder, MaintenanceTypes
  <2>2. \A q \in SignedRequests : submitAt'[q] \notin {"queue", "point", "launch", "pid"}
    BY <1>2, <2>1 DEF Submitting
  <2>3. /\ MaintenanceTypes' /\ SubmitHasLock' /\ LatestByThen' /\ JobByThen' /\ StartedAtPid'
        /\ CutIsThrough' /\ NobodyBefore'
    BY <1>1, <1>6, <2>1, <2>2
    DEF MaintenanceInv, GatewayInOrder, MaintenanceTypes, SubmitHasLock, Submitting, LatestByThen, JobByThen,
        StartedAtPid, CutIsThrough, NobodyBefore
  <2>4. WorkerIsFound'
    BY <1>1, <1>6, <2>1 DEF MaintenanceInv, GatewayInOrder, WorkerIsFound, AtWork
  <2>5. InTurn' => AttemptInOrder'
    BY <1>1, <1>6, DockerRests DEF MaintenanceInv, InTurn
  <2>. QED  BY <2>3, <2>4, <2>5 DEF MaintenanceInv, GatewayInOrder
<1>. QED  BY <1>3, <1>4, <1>5, <1>6 DEF M!SubmitSteps

LEMMA CutStep ==
  ASSUME MaintenanceInv, NEW r \in SignedRequests, M!SubmitCut(r)
  PROVE  MaintenanceInv'
<1>1. /\ queueLock = r /\ queueLock' = 0 /\ submitAt' = [submitAt EXCEPT ![r] = "through"]
      /\ cutLoose' = IF submitAt[r] = "pid" THEN cutLoose \cup {r} ELSE cutLoose
      /\ UNCHANGED <<workerAt, jobState, pidKnown, latest>> /\ UNCHANGED M!docker
  BY DEF M!SubmitCut
<1>2. /\ submitAt'[r] = "through" /\ DOMAIN submitAt' = SignedRequests
      /\ \A q \in SignedRequests : q # r => submitAt'[q] = submitAt[q]
  BY <1>1 DEF MaintenanceInv, GatewayInOrder, MaintenanceTypes
<1>3. \A q \in SignedRequests : submitAt'[q] \notin {"queue", "point", "launch", "pid"}
  BY <1>1, <1>2 DEF Submitting, MaintenanceInv, GatewayInOrder, SubmitHasLock
<1>4. cutLoose \subseteq cutLoose' /\ cutLoose' \subseteq cutLoose \cup {r}
  BY <1>1
<1>5. /\ MaintenanceTypes' /\ SubmitHasLock' /\ LatestByThen' /\ JobByThen' /\ StartedAtPid'
      /\ NobodyBefore'
  BY <1>1, <1>2, <1>3, <1>4
  DEF MaintenanceInv, GatewayInOrder, MaintenanceTypes, SubmitHasLock, Submitting, LatestByThen, JobByThen,
      StartedAtPid, NobodyBefore
<1>6. CutIsThrough'
  BY <1>2, <1>4 DEF MaintenanceInv, GatewayInOrder, CutIsThrough, MaintenanceTypes
<1>7. WorkerIsFound'
  <2> SUFFICES ASSUME NEW q \in SignedRequests, AtWork(q), q \notin cutLoose'
               PROVE  latest = q /\ jobState[q] \in {"queued", "running"} /\ pidKnown[q]
    BY <1>1 DEF WorkerIsFound, AtWork
  <2>1. submitAt[q] # "pid"
    <3>1. SUFFICES ASSUME submitAt[q] = "pid"  PROVE FALSE
      OBVIOUS
    <3>2. q = r
      BY <1>1, <3>1 DEF MaintenanceInv, GatewayInOrder, SubmitHasLock, Submitting
    <3>. QED  BY <1>1, <3>1, <3>2
  <2>. QED  BY <1>4, <2>1 DEF MaintenanceInv, GatewayInOrder, WorkerIsFound
<1>8. InTurn' => AttemptInOrder'
  BY <1>1, <1>4, DockerRests DEF MaintenanceInv, InTurn
<1>. QED  BY <1>5, <1>6, <1>7, <1>8 DEF MaintenanceInv, GatewayInOrder

LEMMA RunStep ==
  ASSUME MaintenanceInv, NEW r \in SignedRequests, M!WorkerRuns(r)
  PROVE  MaintenanceInv'
<1>1. /\ workerAt[r] = "started" /\ queueLock = 0
      /\ jobState' = [jobState EXCEPT ![r] = "running"] /\ pidKnown' = [pidKnown EXCEPT ![r] = TRUE]
      /\ workerAt' = [workerAt EXCEPT ![r] = "validate"]
      /\ cutLoose' = IF latest = r THEN cutLoose \ {r} ELSE cutLoose
      /\ UNCHANGED <<submitAt, latest, queueLock>> /\ UNCHANGED M!docker
  BY DEF M!WorkerRuns, M!To
<1>2. \A q \in SignedRequests : ~Submitting(q)
  BY <1>1, NoRequestIsZero DEF MaintenanceInv, GatewayInOrder, SubmitHasLock
<1>3. /\ workerAt'[r] = "validate" /\ jobState'[r] = "running" /\ pidKnown'[r]
      /\ DOMAIN workerAt' = SignedRequests /\ DOMAIN jobState' = SignedRequests
      /\ DOMAIN pidKnown' = SignedRequests
      /\ \A q \in SignedRequests :
            q # r => workerAt'[q] = workerAt[q] /\ jobState'[q] = jobState[q] /\ pidKnown'[q] = pidKnown[q]
  BY <1>1 DEF MaintenanceInv, GatewayInOrder, MaintenanceTypes
<1>4. cutLoose' \subseteq cutLoose /\ cutLoose \subseteq cutLoose' \cup {r} /\ (latest # r => cutLoose' = cutLoose)
  BY <1>1
<1>5. MaintenanceTypes' /\ SubmitHasLock' /\ LatestByThen' /\ JobByThen' /\ StartedAtPid'
  BY <1>1, <1>2, <1>3, <1>4
  DEF MaintenanceInv, GatewayInOrder, MaintenanceTypes, SubmitHasLock, Submitting, LatestByThen, JobByThen,
      StartedAtPid
<1>6. CutIsThrough' /\ NobodyBefore'
  BY <1>1, <1>2, <1>4 DEF MaintenanceInv, GatewayInOrder, Submitting, CutIsThrough, NobodyBefore
<1>7. WorkerIsFound'
  <2> SUFFICES ASSUME NEW q \in SignedRequests, AtWork(q)', q \notin cutLoose'
               PROVE  /\ latest' = q /\ jobState'[q] \in {"queued", "running"}
                      /\ pidKnown'[q] \/ submitAt'[q] = "pid"
    BY DEF WorkerIsFound
  <2>1. CASE q = r
    <3>1. latest = r
      BY <1>1, <1>4, <2>1 DEF MaintenanceInv, GatewayInOrder, WorkerIsFound, AtWork
    <3>. QED  BY <1>1, <1>3, <2>1, <3>1
  <2>2. CASE q # r
    <3>1. AtWork(q) /\ q \notin cutLoose
      BY <1>3, <1>4, <2>2 DEF AtWork
    <3>. QED  BY <1>1, <1>3, <2>2, <3>1 DEF MaintenanceInv, GatewayInOrder, WorkerIsFound
  <2>. QED  BY <2>1, <2>2
<1>8. InTurn' => InTurn
  BY <1>1, <1>3, <1>4 DEF InTurn, MaintenanceInv, GatewayInOrder, MaintenanceTypes
<1>9. InTurn' => AttemptInOrder'
  BY <1>1, <1>3, <1>8, DockerRests DEF MaintenanceInv, EarlySteps, LateSteps
<1>. QED  BY <1>5, <1>6, <1>7, <1>9 DEF MaintenanceInv, GatewayInOrder

LEMMA EndStep ==
  ASSUME MaintenanceInv, NEW r \in SignedRequests, M!WorkerEnds(r)
  PROVE  MaintenanceInv'
<1>1. /\ workerAt[r] = "save" /\ workerAt' = [workerAt EXCEPT ![r] = "ended"]
      /\ jobState' = [jobState EXCEPT ![r] = "ended"]
      /\ UNCHANGED <<submitAt, pidKnown, latest, queueLock, cutLoose>> /\ UNCHANGED M!docker
  BY DEF M!WorkerEnds, M!To
<1>2. /\ workerAt'[r] = "ended" /\ DOMAIN workerAt' = SignedRequests /\ DOMAIN jobState' = SignedRequests
      /\ \A q \in SignedRequests : q # r => workerAt'[q] = workerAt[q] /\ jobState'[q] = jobState[q]
  BY <1>1 DEF MaintenanceInv, GatewayInOrder, MaintenanceTypes
<1>3. submitAt[r] \notin {"queue", "point", "launch", "pid"}
  <2>1. AtWork(r) /\ submitAt[r] # "pid"
    BY <1>1 DEF MaintenanceInv, GatewayInOrder, StartedAtPid, AtWork
  <2>. QED  BY <2>1 DEF MaintenanceInv, GatewayInOrder, NobodyBefore, CutIsThrough
<1>4. /\ MaintenanceTypes' /\ SubmitHasLock' /\ LatestByThen' /\ JobByThen' /\ StartedAtPid'
      /\ CutIsThrough'
  BY <1>1, <1>2, <1>3
  DEF MaintenanceInv, GatewayInOrder, MaintenanceTypes, SubmitHasLock, Submitting, LatestByThen, JobByThen,
      StartedAtPid, CutIsThrough
<1>5. NobodyBefore' /\ WorkerIsFound'
  BY <1>1, <1>2 DEF MaintenanceInv, GatewayInOrder, NobodyBefore, WorkerIsFound, AtWork
<1>6. InTurn' => InTurn
  BY <1>1, <1>2 DEF InTurn, MaintenanceInv, GatewayInOrder, MaintenanceTypes
<1>7. InTurn' => AttemptInOrder'
  BY <1>1, <1>2, <1>6, DockerRests DEF MaintenanceInv, EarlySteps, LateSteps
<1>. QED  BY <1>4, <1>5, <1>7 DEF MaintenanceInv, GatewayInOrder

(* The steps of the script.                                                 *)
LEMMA ScriptMoves ==
  ASSUME MaintenanceInv, NEW r \in SignedRequests,
         \/ M!Execute(r) \/ M!ScriptTimesOut(r) \/ M!Check(r) \/ M!Drift(r) \/ M!Activated(r)
  PROVE  MaintenanceInv'
<1>1. PICK s \in {"check", "save", "drift", "journal", "verified", "undo"} :
        /\ M!To(r, s)
        /\ s = "drift" => recoveryPhase = "none" /\ workerAt[r] = "check"
        /\ s = "journal" => workerAt[r] = "drift"
        /\ s = "verified" => workerAt[r] = "wait" /\ liveRestore
        /\ s = "undo" => workerAt[r] = "wait"
  BY DEF M!Execute, M!ScriptTimesOut, M!Check, M!Drift, M!Activated, M!Fresh
<1>2. /\ workerAt[r] \notin {"none", "ended", "started"} /\ UNCHANGED M!docker
      /\ UNCHANGED <<submitAt, jobState, pidKnown, latest, queueLock, cutLoose>>
  BY DEF M!Execute, M!ScriptTimesOut, M!Script, M!ScriptSteps, M!Check, M!Drift, M!Activated
<1>3. UNCHANGED <<liveRestore, recoveryPhase, dockerd, containers, restarts>>
  BY <1>2 DEF M!docker
<1>4. /\ GatewayInOrder' /\ workerAt'[r] = s
      /\ \A q \in SignedRequests : q # r => workerAt'[q] = workerAt[q]
      /\ InTurn' => InTurn
  BY <1>1, <1>2, WorkGoesOn DEF MaintenanceInv
<1>5. ASSUME AttemptInOrder  PROVE AttemptInOrder'
  BY <1>1, <1>3, <1>4, <1>5 DEF AttemptInOrder, EarlySteps, LateSteps, Earnest
<1>. QED  BY <1>4, <1>5 DEF MaintenanceInv

(* The steps that change the daemon's configuration or the journal before   *)
(* the restart.                                                             *)
LEMMA BeforeRestart ==
  ASSUME MaintenanceInv, NEW r \in SignedRequests,
         \/ M!Validated(r) \/ M!InstallCandidate(r) \/ M!Reload(r) \/ M!Undo(r) \/ M!Announce(r)
  PROVE  MaintenanceInv'
<1>1. PICK s \in {"install", "reload", "wait", "undo", "undo_reload", "undo_notify", "save",
                  "requested", "restart"} :
        /\ M!To(r, s)
        /\ s \in {"requested", "restart"} =>
             workerAt[r] \in {"verified", "requested"} /\ liveRestore' = liveRestore
        /\ workerAt[r] = "journal" => recoveryPhase' # "none"
        /\ workerAt[r] # "journal" => recoveryPhase' = recoveryPhase \/ recoveryPhase' # "none"
  BY DEF M!Validated, M!InstallCandidate, M!Reload, M!Undo, M!Announce
<1>2. /\ workerAt[r] \in LateSteps \cup {"journal"}
      /\ UNCHANGED <<submitAt, jobState, pidKnown, latest, queueLock, cutLoose>>
      /\ UNCHANGED <<dockerd, containers, restarts>>
  BY DEF M!Validated, M!InstallCandidate, M!Reload, M!Undo, M!Announce, LateSteps
<1>3. /\ GatewayInOrder' /\ workerAt'[r] = s
      /\ \A q \in SignedRequests : q # r => workerAt'[q] = workerAt[q]
      /\ InTurn' => InTurn
      /\ InTurn => \A q \in SignedRequests : q # r => workerAt[q] \in {"none", "ended", "started"}
  <2>1. workerAt[r] \notin {"none", "ended", "started"}
    BY <1>2 DEF LateSteps
  <2>. QED  BY <2>1, <1>1, <1>2, WorkGoesOn DEF MaintenanceInv
<1>4. ASSUME InTurn  PROVE AttemptInOrder'
  <2>1. AttemptInOrder
    BY <1>4 DEF MaintenanceInv
  <2>2. restarts = 0 /\ dockerd = "old" /\ recoveryPhase' # "none"
    BY <1>1, <1>2, <2>1 DEF AttemptInOrder, EarlySteps
  <2>3. \A q \in SignedRequests : q # r => workerAt'[q] \in {"none", "ended", "started"}
    BY <1>3, <1>4
  <2>. QED
    BY <1>1, <1>2, <1>3, <2>1, <2>2, <2>3 DEF AttemptInOrder, EarlySteps, LateSteps, Earnest
<1>. QED  BY <1>3, <1>4 DEF MaintenanceInv

LEMMA RestartStep ==
  ASSUME MaintenanceInv, NEW r \in SignedRequests, M!Restart(r) \/ M!Observed(r)
  PROVE  MaintenanceInv'
<1>1. CASE M!Restart(r)
  <2>1. /\ workerAt[r] = "restart" /\ M!To(r, "observe") /\ dockerd' = "stopping"
        /\ restarts' = restarts + 1
        /\ UNCHANGED <<submitAt, jobState, pidKnown, latest, queueLock, cutLoose>>
        /\ UNCHANGED <<liveRestore, recoveryPhase, containers>>
    BY <1>1 DEF M!Restart
  <2>2. /\ GatewayInOrder' /\ workerAt'[r] = "observe"
        /\ \A q \in SignedRequests : q # r => workerAt'[q] = workerAt[q]
        /\ InTurn' => InTurn
        /\ InTurn => \A q \in SignedRequests : q # r => workerAt[q] \in {"none", "ended", "started"}
    BY <2>1, WorkGoesOn DEF MaintenanceInv
  <2>3. ASSUME InTurn  PROVE AttemptInOrder'
    <3>1. restarts = 0 /\ liveRestore /\ recoveryPhase # "none" /\ containers
      BY <2>1, <2>3 DEF MaintenanceInv, AttemptInOrder, LateSteps, Earnest
    <3>2. \A q \in SignedRequests : q # r => workerAt'[q] \in {"none", "ended", "started"}
      BY <2>2, <2>3
    <3>3. restarts' = 1
      BY <2>1, <3>1
    <3>. QED  BY <2>1, <2>2, <3>1, <3>2, <3>3 DEF AttemptInOrder, EarlySteps, LateSteps, Earnest
  <2>. QED  BY <2>2, <2>3 DEF MaintenanceInv
<1>2. CASE M!Observed(r)
  <2>1. /\ workerAt[r] = "observe" /\ M!To(r, "save")
        /\ recoveryPhase' = recoveryPhase \/ recoveryPhase' # "none"
        /\ UNCHANGED <<submitAt, jobState, pidKnown, latest, queueLock, cutLoose>>
        /\ UNCHANGED <<liveRestore, dockerd, containers, restarts>>
    BY <1>2 DEF M!Observed
  <2>2. /\ GatewayInOrder' /\ workerAt'[r] = "save"
        /\ \A q \in SignedRequests : q # r => workerAt'[q] = workerAt[q]
        /\ InTurn' => InTurn
        /\ InTurn => \A q \in SignedRequests : q # r => workerAt[q] \in {"none", "ended", "started"}
    BY <2>1, WorkGoesOn DEF MaintenanceInv
  <2>3. ASSUME InTurn  PROVE AttemptInOrder'
    <3>1. recoveryPhase # "none" /\ AttemptInOrder
      BY <2>1, <2>3 DEF MaintenanceInv, AttemptInOrder
    <3>2. \A q \in SignedRequests : q # r => workerAt'[q] \in {"none", "ended", "started"}
      BY <2>2, <2>3
    <3>. QED  BY <2>1, <2>2, <3>1, <3>2 DEF AttemptInOrder, EarlySteps, LateSteps, Earnest
  <2>. QED  BY <2>2, <2>3 DEF MaintenanceInv
<1>. QED  BY <1>1, <1>2

(* The daemon ends, with live-restore in effect.                            *)
LEMMA DaemonSteps ==
  ASSUME MaintenanceInv, M!DaemonTurns \/ \E r \in SignedRequests : M!ForceKilled(r)
  PROVE  MaintenanceInv'
<1>1. /\ dockerd = "stopping" /\ dockerd' = "new" /\ containers' = (containers /\ liveRestore)
      /\ UNCHANGED <<submitAt, workerAt, jobState, pidKnown, latest, queueLock, cutLoose, restarts>>
      /\ recoveryPhase' = recoveryPhase \/ recoveryPhase' # "none"
  BY DEF M!DaemonTurns, M!ForceKilled, M!gateway
<1>2. ASSUME AttemptInOrder  PROVE AttemptInOrder'
  <2>1. liveRestore /\ containers /\ restarts # 0
        /\ \A q \in SignedRequests : workerAt[q] \notin LateSteps
    BY <1>1, <1>2 DEF AttemptInOrder
  <2>. QED  BY <1>1, <1>2, <2>1 DEF AttemptInOrder, EarlySteps, LateSteps, Earnest
<1>3. InTurn' => InTurn
  BY <1>1 DEF InTurn
<1>4. GatewayInOrder'
  BY <1>1
  DEF MaintenanceInv, GatewayInOrder, MaintenanceTypes, SubmitHasLock, Submitting, LatestByThen, JobByThen,
      StartedAtPid, CutIsThrough, NobodyBefore, AtWork, WorkerIsFound
<1>. QED  BY <1>2, <1>3, <1>4 DEF MaintenanceInv

LEMMA MaintenanceStep ==
  ASSUME MaintenanceInv, [M!Next]_M!mvars
  PROVE  MaintenanceInv'
<1>1. CASE UNCHANGED M!mvars
  BY <1>1
  DEF M!mvars, M!gateway, M!docker, MaintenanceInv, GatewayInOrder, MaintenanceTypes, SubmitHasLock,
      Submitting, LatestByThen, JobByThen, StartedAtPid, CutIsThrough, NobodyBefore, AtWork, WorkerIsFound,
      InTurn, AttemptInOrder
<1>. QED
  BY <1>1, BeginStep, SubmitStep, CutStep, RunStep, EndStep, ScriptMoves, BeforeRestart, RestartStep,
     DaemonSteps DEF M!Next

LEMMA MaintenanceAlways == Spec => [](part = "maintenance" => MaintenanceInv)
<1>1. Init => (part = "maintenance" => MaintenanceInv)
  BY MaintenanceInit DEF Init
<1>2. (part = "maintenance" => MaintenanceInv) /\ [Next]_vars => (part = "maintenance" => MaintenanceInv)'
  <2> SUFFICES ASSUME part = "maintenance" => MaintenanceInv, [Next]_vars, part' = "maintenance"
               PROVE  MaintenanceInv'
    OBVIOUS
  <2>1. part = "maintenance" /\ [M!Next]_M!mvars
    BY DEF Next, vars, M!mvars, M!gateway, M!docker
  <2>. QED  BY <2>1, MaintenanceStep
<1>. QED  BY <1>1, <1>2, PTL DEF Spec

LEMMA MaintenanceSafe == ASSUME MaintenanceInv  PROVE M!MaintenanceIsSafe
<1>1. M!ScriptsAlone
  <2>1. \A r \in SignedRequests : M!Script(r) => AtWork(r)
    BY DEF M!Script, M!ScriptSteps, AtWork
  <2>. QED  BY <2>1, OneAtWork DEF M!ScriptsAlone, MaintenanceInv
<1>2. M!ContainersSurvive
  <2>1. ASSUME \A r \in cutLoose : workerAt[r] = "started"  PROVE containers /\ restarts <= 1
    <3>1. AttemptInOrder
      BY <2>1 DEF MaintenanceInv, InTurn
    <3>. QED  BY <3>1 DEF AttemptInOrder
  <2>. QED  BY <2>1 DEF M!ContainersSurvive
<1>. QED  BY <1>1, <1>2 DEF M!MaintenanceIsSafe

(* Two maintenance scripts run at the same time only if a submit was cut    *)
(* between the launch of its worker and the record of its process number,   *)
(* and another one went past that worker; as long as no such worker has had *)
(* its turn, no attempt takes the containers down (gateway.py,              *)
(* recover_dockerd.py).                                                     *)
THEOREM MaintenanceAlwaysSafe == Spec => []MaintenanceIsSafe
<1>1. (part = "maintenance" => MaintenanceInv) => MaintenanceIsSafe
  BY MaintenanceSafe DEF MaintenanceIsSafe
<1>. QED  BY <1>1, MaintenanceAlways, PTL

HIDE DEF submitAt, workerAt, jobState, pidKnown, latest, queueLock, dockerConfig, liveRestore,
        recoveryPhase, dockerd, containers, restarts, cutLoose

-----------------------------------------------------------------------------
(* HealthMonitor.                                                          *)
(*                                                                         *)
(* The file's pending notices are the last ones raised, and what the owner *)
(* was sent is all that came before, in the same order.                    *)
stateFile == x1
value     == x2
cycleAt   == x3
cycleNo   == x4
drawnIds  == x5
raised    == x8
accepted  == x9
USE DEF stateFile, value, cycleAt, cycleNo, drawnIds, raised, accepted

Notices == [phase : {"failure", "recovered"}, incident : Nat]
States == [failures : Nat, successes : Nat, open : BOOLEAN, incident : Nat,
           pending : Seq(Notices), overflow : BOOLEAN, until : Nat]

MonitorTypes ==
  /\ stateFile \in States /\ value \in States /\ raised \in Seq(Notices)
  /\ cycleAt \in {"idle", "save", "journal", "notify", "pop"} /\ cycleNo \in Nat /\ drawnIds \in Nat

(* What is pending in the file are the last notices raised.                 *)
GoneNotices == Len(raised) - Len(stateFile.pending)
FirstRaised(n) == {raised[i] : i \in 1..n}
PendingAreLast ==
  /\ GoneNotices \in Nat
  /\ \A i \in 1..Len(stateFile.pending) : stateFile.pending[i] = raised[GoneNotices + i]

(* One more of them may have been told than has left the file.              *)
OneAhead == stateFile.pending # <<>> /\ accepted = FirstRaised(GoneNotices + 1)
ToldSoFar == accepted = FirstRaised(GoneNotices) \/ OneAhead

(* What a cycle may have made of the state it read.                         *)
Follows(v, w) ==
  /\ v.overflow => w.overflow
  /\ \/ /\ w.pending = v.pending
        /\ ~w.overflow => w.open = v.open /\ w.incident = v.incident
     \/ /\ ~v.open /\ w.open
        /\ w.pending = Append(v.pending, [phase |-> "failure", incident |-> w.incident])
     \/ /\ v.open /\ ~w.open
        /\ w.pending = Append(v.pending, [phase |-> "recovered", incident |-> v.incident])

CycleInOrder ==
  /\ cycleAt = "save" => Follows(stateFile, value)
  /\ cycleAt \in {"journal", "notify"} => value = stateFile
  /\ cycleAt = "notify" => stateFile.pending # <<>>
  /\ cycleAt = "pop" => OneAhead /\ value = [stateFile EXCEPT !.pending = Tail(@)]

(* Failures and recoveries alternate, and the file knows which is next.     *)
Alternating(r) ==
  \A i \in 1..Len(r) :
     IF i % 2 = 1 THEN r[i].phase = "failure"
     ELSE r[i] = [phase |-> "recovered", incident |-> r[i-1].incident]
NextIsKnown(v, r) ==
  /\ v.open <=> Len(r) % 2 = 1
  /\ v.open => r[Len(r)].incident = v.incident
IncidentsInOrder == ~stateFile.overflow => Alternating(raised) /\ NextIsKnown(stateFile, raised)

MonitorInv == MonitorTypes /\ PendingAreLast /\ ToldSoFar /\ CycleInOrder /\ IncidentsInOrder

LEMMA Parity == ASSUME NEW n \in Nat  PROVE /\ n % 2 = 1 <=> ~((n + 1) % 2 = 1)
                                           /\ n % 2 \in 0..1
  BY SMT

LEMMA NoticeQueued ==
  ASSUME NEW s \in Seq(Notices), NEW n \in Notices
  PROVE  /\ Append(s, n) \in Seq(Notices) /\ Len(Append(s, n)) = Len(s) + 1
         /\ Append(s, n)[Len(s) + 1] = n
         /\ \A i \in 1..Len(s) : Append(s, n)[i] = s[i]
  BY SMT

LEMMA NoticeLeaves ==
  ASSUME NEW s \in Seq(Notices), s # <<>>
  PROVE  /\ Tail(s) \in Seq(Notices) /\ Len(Tail(s)) + 1 = Len(s)
         /\ Head(s) = s[1] /\ Len(s) >= 1
         /\ \A i \in 1..Len(Tail(s)) : Tail(s)[i] = s[i + 1]
  BY SMT

LEMMA MonitorInit == W!Init => MonitorInv
<1> SUFFICES ASSUME W!Init  PROVE MonitorInv
  OBVIOUS
<1>1. stateFile = W!Boot /\ value = W!Boot /\ cycleAt = "idle" /\ raised = <<>> /\ accepted = {}
      /\ cycleNo = 0 /\ drawnIds = 0
  BY DEF W!Init
<1>2. MonitorTypes
  BY <1>1 DEF MonitorTypes, W!Boot, States
<1>3. stateFile.pending = <<>> /\ ~stateFile.open /\ Len(raised) = 0
  BY <1>1 DEF W!Boot
<1>4. PendingAreLast /\ ToldSoFar /\ CycleInOrder
  BY <1>1, <1>3 DEF PendingAreLast, ToldSoFar, OneAhead, CycleInOrder, GoneNotices, FirstRaised
<1>5. IncidentsInOrder
  BY <1>3 DEF IncidentsInOrder, Alternating, NextIsKnown
<1>. QED  BY <1>2, <1>4, <1>5 DEF MonitorInv

(* What advance() makes of a state.                                         *)
LEMMA AdvanceFollows ==
  ASSUME NEW v \in States, NEW failed \in BOOLEAN, drawnIds \in Nat
  PROVE  /\ W!Advance(W!Observed(v, failed)) \in States
         /\ Follows(v, W!Advance(W!Observed(v, failed)))
<1> DEFINE u == W!Observed(v, failed)
           a == W!Advance(u)
<1>1. u \in States /\ u.pending = v.pending /\ u.open = v.open /\ u.incident = v.incident
      /\ u.overflow = v.overflow
  <2>1. v.failures + 1 \in Nat /\ v.successes + 1 \in Nat
    BY DEF States
  <2>2. W!AtMostTwo(v.failures + 1) \in Nat /\ W!AtMostTwo(v.successes + 1) \in Nat
    BY <2>1 DEF W!AtMostTwo
  <2>3. PICK m \in Nat, k \in Nat : u = [v EXCEPT !.failures = m, !.successes = k]
    BY <2>2 DEF W!Observed
  <2> HIDE DEF u
  <2>. QED  BY <2>3 DEF States
<1> HIDE DEF u
<1>2. ASSUME NEW q \in States, NEW n \in Notices
      PROVE  /\ W!Queue(q, n) \in States
             /\ W!Queue(q, n).open = q.open /\ W!Queue(q, n).incident = q.incident
             /\ \/ W!Queue(q, n).pending = q.pending /\ W!Queue(q, n).overflow
                \/ /\ W!Queue(q, n).pending = Append(q.pending, n)
                   /\ W!Queue(q, n).overflow = q.overflow
  <2>1. CASE Len(q.pending) >= PendingCapacity
    <3>1. W!Queue(q, n) = [q EXCEPT !.overflow = TRUE]
      BY <2>1 DEF W!Queue
    <3>. QED  BY <3>1 DEF States
  <2>2. CASE ~(Len(q.pending) >= PendingCapacity)
    <3>1. W!Queue(q, n) = [q EXCEPT !.pending = Append(@, n)]
      BY <2>2 DEF W!Queue
    <3>2. Append(q.pending, n) \in Seq(Notices)
      BY NoticeQueued DEF States
    <3>. QED  BY <3>1, <3>2 DEF States
  <2>. QED  BY <2>1, <2>2
<1>3. a \in States /\ Follows(v, a)
  <2>1. CASE W!Opens(u)
    <3> DEFINE q == [u EXCEPT !.open = TRUE, !.incident = drawnIds + 1]
               n == [phase |-> "failure", incident |-> drawnIds + 1]
    <3>1. q \in States /\ n \in Notices /\ q.pending = v.pending /\ q.open
          /\ q.incident = drawnIds + 1 /\ q.overflow = v.overflow
      <4>1. drawnIds + 1 \in Nat
        OBVIOUS
      <4>2. n \in Notices
        BY <4>1 DEF Notices
      <4>. QED  BY <4>1, <4>2, <1>1 DEF States
    <3>2. a = W!Queue(q, n)
      BY <2>1 DEF W!Advance, W!Opens, W!Closes
    <3>3. ~v.open
      BY <2>1, <1>1 DEF W!Opens
    <3>4. n = [phase |-> "failure", incident |-> q.incident]
      BY <3>1
    <3> HIDE DEF q, n, a
    <3>5. a \in States /\ a.open = q.open /\ a.incident = q.incident
          /\ \/ a.pending = v.pending /\ a.overflow
             \/ a.pending = Append(v.pending, n) /\ a.overflow = v.overflow
      <4>1. q \in States /\ n \in Notices /\ q.pending = v.pending /\ q.overflow = v.overflow
        BY <3>1
      <4>. QED  BY <4>1, <3>2, <1>2
    <3>. QED  BY <3>1, <3>3, <3>4, <3>5 DEF Follows
  <2>2. CASE ~W!Opens(u) /\ W!Closes(u)
    <3> DEFINE q == [u EXCEPT !.open = FALSE]
               n == [phase |-> "recovered", incident |-> u.incident]
    <3>1. q \in States /\ n \in Notices /\ q.pending = v.pending /\ ~q.open
          /\ q.overflow = v.overflow
      <4>1. u.incident \in Nat
        BY <1>1 DEF States
      <4>2. n \in Notices
        BY <4>1 DEF Notices
      <4>. QED  BY <4>2, <1>1 DEF States
    <3>2. a = W!Queue(q, n)
      BY <2>2 DEF W!Advance, W!Opens, W!Closes
    <3>3. v.open
      BY <2>2, <1>1 DEF W!Closes
    <3>4. n = [phase |-> "recovered", incident |-> v.incident]
      BY <1>1
    <3> HIDE DEF q, n, a
    <3>5. a \in States /\ a.open = q.open /\ a.incident = q.incident
          /\ \/ a.pending = v.pending /\ a.overflow
             \/ a.pending = Append(v.pending, n) /\ a.overflow = v.overflow
      BY <3>1, <3>2, <1>2
    <3>. QED  BY <3>1, <3>3, <3>4, <3>5 DEF Follows
  <2>3. CASE ~W!Opens(u) /\ ~W!Closes(u)
    <3>1. a = u
      BY <2>3 DEF W!Advance, W!Opens, W!Closes
    <3>. QED  BY <3>1, <1>1 DEF Follows
  <2>. QED  BY <2>1, <2>2, <2>3
<1>. QED  BY <1>3 DEF a, u

LEMMA ObserveStep == ASSUME MonitorInv, W!Observe  PROVE MonitorInv'
<1>1. UNCHANGED <<stateFile, raised, accepted>> /\ cycleAt' = "save"
  BY DEF W!Observe
<1>2. value' \in States /\ Follows(stateFile, value') /\ cycleNo' \in Nat /\ drawnIds' \in Nat
  <2>1. PICK container \in W!Container, ingress \in W!Ingress :
          LET v == W!Observed(stateFile, W!Failed(container, ingress))
          IN  /\ value' = [W!Advance(v) EXCEPT !.until = IF container[2] = "told"
                                                    THEN cycleNo + 1 ELSE @]
              /\ drawnIds' = IF W!Opens(v) THEN drawnIds + 1 ELSE drawnIds
    BY DEF W!Observe
  <2> DEFINE failed == W!Failed(container, ingress)
             a == W!Advance(W!Observed(stateFile, failed))
  <2>2. failed \in BOOLEAN
    BY DEF W!Failed
  <2>3. stateFile \in States /\ drawnIds \in Nat /\ cycleNo \in Nat /\ cycleNo' = cycleNo + 1
    BY DEF MonitorInv, MonitorTypes, W!Observe
  <2>4. a \in States /\ Follows(stateFile, a)
    BY <2>2, <2>3, AdvanceFollows
  <2>5. PICK t \in Nat : value' = [a EXCEPT !.until = t]
    <3> DEFINE t == IF container[2] = "told" THEN cycleNo + 1 ELSE a.until
    <3>1. t \in Nat
      BY <2>3, <2>4 DEF States
    <3>2. value' = [a EXCEPT !.until = t]
      BY <2>1
    <3>. QED  BY <3>1, <3>2
  <2>6. cycleNo' \in Nat /\ drawnIds' \in Nat
    BY <2>1, <2>3 DEF W!Opens
  <2> HIDE DEF a
  <2>. QED  BY <2>4, <2>5, <2>6 DEF States, Follows
<1>3. MonitorTypes'
  BY <1>1, <1>2 DEF MonitorInv, MonitorTypes
<1>4. CycleInOrder'
  BY <1>1, <1>2 DEF CycleInOrder
<1>. QED
  BY <1>1, <1>3, <1>4
  DEF MonitorInv, PendingAreLast, ToldSoFar, OneAhead, GoneNotices, FirstRaised,
      IncidentsInOrder, Alternating, NextIsKnown

LEMMA SaveStep == ASSUME MonitorInv, W!SaveState  PROVE MonitorInv'
<1> DEFINE w == value
           p == stateFile.pending
<1>1. stateFile' = w /\ UNCHANGED <<value, cycleNo, drawnIds, accepted>> /\ cycleAt' = "journal"
      /\ Follows(stateFile, w) /\ w \in States /\ stateFile \in States /\ raised \in Seq(Notices)
  BY DEF W!SaveState, MonitorInv, MonitorTypes, CycleInOrder
<1>2. p \in Seq(Notices) /\ w.pending \in Seq(Notices) /\ Len(p) \in Nat /\ Len(raised) \in Nat
      /\ stateFile.incident \in Nat /\ w.incident \in Nat
  BY <1>1 DEF States
<1>3. \/ raised' = raised /\ w.pending = p
         /\ (~w.overflow => w.open = stateFile.open /\ w.incident = stateFile.incident)
      \/ \E n \in Notices :
           /\ raised' = Append(raised, n) /\ w.pending = Append(p, n)
           /\ \/ ~stateFile.open /\ w.open /\ n = [phase |-> "failure", incident |-> w.incident]
              \/ stateFile.open /\ ~w.open
                 /\ n = [phase |-> "recovered", incident |-> stateFile.incident]
  <2>1. raised' = IF Len(w.pending) > Len(p) THEN Append(raised, w.pending[Len(w.pending)])
                  ELSE raised
    BY DEF W!SaveState
  <2>2. ASSUME NEW n \in Notices, w.pending = Append(p, n)  PROVE raised' = Append(raised, n)
    BY <2>1, <2>2, <1>2, NoticeQueued
  <2>3. CASE w.pending = p
    <3>1. raised' = raised
      BY <2>1, <2>3, <1>2
    <3>2. \/ (~w.overflow => w.open = stateFile.open /\ w.incident = stateFile.incident)
          \/ \E n \in Notices : w.pending = Append(p, n)
      <4>1. [phase |-> "failure", incident |-> w.incident] \in Notices
            /\ [phase |-> "recovered", incident |-> stateFile.incident] \in Notices
        BY <1>2 DEF Notices
      <4>. QED  BY <4>1, <1>1 DEF Follows
    <3>3. ASSUME NEW n \in Notices, w.pending = Append(p, n)  PROVE FALSE
      BY <2>3, <3>3, <1>2, NoticeQueued
    <3>. QED  BY <2>3, <3>1, <3>2, <3>3
  <2>4. CASE w.pending # p
    <3>1. [phase |-> "failure", incident |-> w.incident] \in Notices
          /\ [phase |-> "recovered", incident |-> stateFile.incident] \in Notices
      BY <1>2 DEF Notices
    <3>. QED  BY <2>4, <3>1, <2>2, <1>1 DEF Follows
  <2>. QED  BY <2>3, <2>4
<1>4. stateFile.overflow => w.overflow
  BY <1>1 DEF Follows
<1>5. PendingAreLast /\ ToldSoFar /\ IncidentsInOrder
  BY DEF MonitorInv
<1> HIDE DEF w
<1>6. CASE /\ raised' = raised /\ w.pending = p
           /\ (~w.overflow => w.open = stateFile.open /\ w.incident = stateFile.incident)
  <2>1. PendingAreLast' /\ ToldSoFar'
    BY <1>1, <1>5, <1>6 DEF PendingAreLast, ToldSoFar, OneAhead, GoneNotices, FirstRaised
  <2>2. IncidentsInOrder'
    BY <1>1, <1>4, <1>5, <1>6 DEF IncidentsInOrder, Alternating, NextIsKnown
  <2>3. MonitorTypes' /\ CycleInOrder'
    BY <1>1, <1>6 DEF MonitorInv, MonitorTypes, CycleInOrder, w
  <2>. QED  BY <2>1, <2>2, <2>3 DEF MonitorInv
<1>7. ASSUME NEW n \in Notices,
             raised' = Append(raised, n), w.pending = Append(p, n),
             \/ ~stateFile.open /\ w.open /\ n = [phase |-> "failure", incident |-> w.incident]
             \/ stateFile.open /\ ~w.open
                /\ n = [phase |-> "recovered", incident |-> stateFile.incident]
      PROVE  MonitorInv'
  <2>1. /\ raised' \in Seq(Notices) /\ Len(raised') = Len(raised) + 1
        /\ raised'[Len(raised) + 1] = n /\ \A i \in 1..Len(raised) : raised'[i] = raised[i]
    BY <1>1, <1>7, NoticeQueued
  <2>2. /\ Len(w.pending) = Len(p) + 1 /\ w.pending[Len(p) + 1] = n
        /\ \A i \in 1..Len(p) : w.pending[i] = p[i]
    BY <1>2, <1>7, NoticeQueued
  <2>3. GoneNotices' = GoneNotices /\ GoneNotices \in Nat /\ GoneNotices + Len(p) = Len(raised)
    BY <1>1, <1>2, <1>5, <2>1, <2>2 DEF GoneNotices, PendingAreLast
  <2>4. PendingAreLast'
    <3>1. ASSUME NEW i \in 1..Len(w.pending)  PROVE w.pending[i] = raised'[GoneNotices + i]
      <4>1. CASE i = Len(p) + 1
        BY <4>1, <2>1, <2>2, <2>3
      <4>2. CASE i # Len(p) + 1
        <5>1. i \in 1..Len(p) /\ GoneNotices + i \in 1..Len(raised)
          BY <4>2, <1>2, <2>2, <2>3
        <5>. QED  BY <5>1, <1>5, <2>1, <2>2 DEF PendingAreLast
      <4>. QED  BY <4>1, <4>2
    <3>. QED  BY <3>1, <1>1, <2>3 DEF PendingAreLast
  <2>5. ToldSoFar'
    <3>1. PICK g \in Nat : GoneNotices = g /\ GoneNotices' = g
      BY <2>3
    <3>2. g <= Len(raised) /\ (p # <<>> => g + 1 <= Len(raised))
      BY <1>2, <2>3, <3>1
    <3>3. ASSUME NEW m \in Nat, m <= Len(raised)
          PROVE  {raised'[i] : i \in 1..m} = {raised[i] : i \in 1..m}
      <4>1. \A i \in 1..m : i \in 1..Len(raised) /\ raised'[i] = raised[i]
        BY <2>1, <3>3
      <4>. QED  BY <4>1
    <3>4. FirstRaised(GoneNotices)' = FirstRaised(GoneNotices)
      BY <3>1, <3>2, <3>3 DEF FirstRaised
    <3>5. p # <<>> => FirstRaised(GoneNotices + 1)' = FirstRaised(GoneNotices + 1)
      <4>1. g + 1 \in Nat /\ GoneNotices + 1 = g + 1 /\ (GoneNotices + 1)' = g + 1
        BY <3>1
      <4>2. p # <<>> => {raised'[i] : i \in 1..g + 1} = {raised[i] : i \in 1..g + 1}
        BY <3>2, <3>3, <4>1
      <4>3. /\ FirstRaised(GoneNotices + 1) = {raised[i] : i \in 1..g + 1}
            /\ FirstRaised(GoneNotices + 1)' = {raised'[i] : i \in 1..g + 1}
        BY <4>1 DEF FirstRaised
      <4>. QED  BY <4>2, <4>3
    <3>6. w.pending # <<>>
      BY <2>2, <1>2
    <3>. QED  BY <3>4, <3>5, <3>6, <1>1, <1>5 DEF ToldSoFar, OneAhead
  <2>6. IncidentsInOrder'
    <3> SUFFICES ASSUME ~w.overflow  PROVE (Alternating(raised) /\ NextIsKnown(stateFile, raised))'
      BY <1>1 DEF IncidentsInOrder
    <3> DEFINE k == Len(raised)
    <3>1. Alternating(raised) /\ NextIsKnown(stateFile, raised)
      BY <1>4, <1>5 DEF IncidentsInOrder
    <3>2. /\ k \in Nat /\ (k % 2 = 1 <=> ~((k + 1) % 2 = 1)) /\ Len(raised') = k + 1
          /\ raised'[k + 1] = n
      BY <1>2, <2>1, Parity
    <3>3. NextIsKnown(stateFile, raised)'
      BY <3>1, <3>2, <1>1, <1>7 DEF NextIsKnown
    <3>4. IF (k + 1) % 2 = 1 THEN n.phase = "failure"
          ELSE n = [phase |-> "recovered", incident |-> raised'[k].incident]
      BY <3>1, <3>2, <2>1, <1>7 DEF NextIsKnown
    <3>5. \A i \in 1..(k + 1) : i # k + 1 => i \in 1..k /\ (i % 2 # 1 => i - 1 \in 1..k)
      BY <3>2
    <3>6. Alternating(raised')
      <4> SUFFICES ASSUME NEW i \in 1..(k + 1)
                   PROVE  IF i % 2 = 1 THEN raised'[i].phase = "failure"
                          ELSE raised'[i] = [phase |-> "recovered", incident |-> raised'[i-1].incident]
        BY <3>2 DEF Alternating
      <4>1. CASE i = k + 1
        <5>1. i - 1 = k
          BY <4>1, <3>2
        <5>. QED  BY <4>1, <5>1, <3>2, <3>4
      <4>2. CASE i # k + 1
        <5>1. i \in 1..k /\ (i % 2 # 1 => i - 1 \in 1..k)
          BY <4>2, <3>5
        <5>2. IF i % 2 = 1 THEN raised[i].phase = "failure"
              ELSE raised[i] = [phase |-> "recovered", incident |-> raised[i-1].incident]
          BY <5>1, <3>1 DEF Alternating
        <5>3. raised'[i] = raised[i] /\ (i % 2 # 1 => raised'[i-1] = raised[i-1])
          BY <5>1, <2>1
        <5>. QED  BY <5>2, <5>3
      <4>. QED  BY <4>1, <4>2
    <3>. QED  BY <3>3, <3>6
  <2>7. MonitorTypes' /\ CycleInOrder'
    BY <1>1, <2>1 DEF MonitorInv, MonitorTypes, CycleInOrder, w
  <2>. QED  BY <2>4, <2>5, <2>6, <2>7 DEF MonitorInv
<1>. QED  BY <1>3, <1>6, <1>7

LEMMA JournalStep == ASSUME MonitorInv, W!Journal  PROVE MonitorInv'
<1>1. UNCHANGED <<stateFile, value, cycleNo, drawnIds, raised, accepted>>
      /\ cycleAt' \in {"idle", "notify"} /\ value = stateFile
      /\ (cycleAt' = "notify" => value.pending # <<>>)
  BY DEF W!Journal, MonitorInv, CycleInOrder
<1>2. MonitorTypes' /\ CycleInOrder'
  BY <1>1 DEF MonitorInv, MonitorTypes, CycleInOrder
<1>. QED
  BY <1>1, <1>2 DEF MonitorInv, PendingAreLast, ToldSoFar, OneAhead, GoneNotices, FirstRaised,
                    IncidentsInOrder, Alternating, NextIsKnown

LEMMA NotifyStep == ASSUME MonitorInv, W!Notify  PROVE MonitorInv'
<1>1. UNCHANGED <<stateFile, cycleNo, drawnIds, raised>>
      /\ value = stateFile /\ stateFile.pending # <<>>
      /\ \/ /\ accepted' = accepted \cup {Head(stateFile.pending)} /\ cycleAt' = "pop"
            /\ value' = [stateFile EXCEPT !.pending = Tail(@)]
         \/ /\ accepted' \in {accepted, accepted \cup {Head(stateFile.pending)}}
            /\ cycleAt' = "idle" /\ value' = value
  BY DEF W!Notify, MonitorInv, CycleInOrder
<1>2. stateFile \in States /\ stateFile.pending \in Seq(Notices) /\ raised \in Seq(Notices)
      /\ GoneNotices \in Nat /\ GoneNotices + Len(stateFile.pending) = Len(raised)
  BY DEF MonitorInv, MonitorTypes, States, PendingAreLast, GoneNotices
<1>3. Head(stateFile.pending) = raised[GoneNotices + 1]
      /\ Tail(stateFile.pending) \in Seq(Notices) /\ GoneNotices + 1 \in 1..Len(raised)
  BY <1>1, <1>2, NoticeLeaves DEF MonitorInv, PendingAreLast
<1>4. accepted \cup {Head(stateFile.pending)} = FirstRaised(GoneNotices + 1)
  <2>1. FirstRaised(GoneNotices + 1) = FirstRaised(GoneNotices) \cup {raised[GoneNotices + 1]}
    BY <1>2 DEF FirstRaised
  <2>. QED  BY <2>1, <1>3 DEF MonitorInv, ToldSoFar, OneAhead
<1>5. ToldSoFar'
  BY <1>1, <1>4 DEF MonitorInv, ToldSoFar, OneAhead, GoneNotices, FirstRaised
<1>6. CycleInOrder'
  BY <1>1, <1>4 DEF CycleInOrder, OneAhead, GoneNotices, FirstRaised
<1>7. MonitorTypes'
  BY <1>1, <1>2, <1>3 DEF MonitorInv, MonitorTypes, States
<1>. QED
  BY <1>1, <1>5, <1>6, <1>7 DEF MonitorInv, PendingAreLast, GoneNotices, IncidentsInOrder, Alternating,
                                NextIsKnown

LEMMA PopStep == ASSUME MonitorInv, W!Pop  PROVE MonitorInv'
<1>1. UNCHANGED <<value, cycleNo, drawnIds, raised, accepted>> /\ cycleAt' = "idle"
      /\ stateFile' = [stateFile EXCEPT !.pending = Tail(@)] /\ stateFile' = value /\ OneAhead
  BY DEF W!Pop, MonitorInv, CycleInOrder
<1>2. stateFile \in States /\ stateFile.pending \in Seq(Notices) /\ stateFile.pending # <<>>
      /\ raised \in Seq(Notices) /\ PendingAreLast /\ GoneNotices \in Nat
      /\ value \in States
  BY <1>1 DEF MonitorInv, MonitorTypes, States, OneAhead, PendingAreLast
<1>3. stateFile'.pending = Tail(stateFile.pending) /\ stateFile'.open = stateFile.open
      /\ stateFile'.incident = stateFile.incident /\ stateFile'.overflow = stateFile.overflow
  BY <1>1, <1>2 DEF States
<1>4. Len(Tail(stateFile.pending)) + 1 = Len(stateFile.pending) /\ Len(Tail(stateFile.pending)) \in Nat
      /\ \A i \in 1..Len(Tail(stateFile.pending)) : Tail(stateFile.pending)[i] = stateFile.pending[i + 1]
  BY <1>2, NoticeLeaves
<1>5. GoneNotices' = GoneNotices + 1 /\ GoneNotices \in Nat
  <2>1. GoneNotices' = Len(raised) - Len(Tail(stateFile.pending))
    BY <1>1, <1>3 DEF GoneNotices
  <2>2. Len(raised) \in Nat /\ Len(stateFile.pending) \in Nat
    BY <1>2
  <2>3. GoneNotices = Len(raised) - Len(stateFile.pending)
    BY DEF GoneNotices
  <2>4. Len(Tail(stateFile.pending)) + 1 = Len(stateFile.pending) /\ Len(Tail(stateFile.pending)) \in Nat
        /\ GoneNotices \in Nat
    BY <1>2, <1>4
  <2> DEFINE c == Len(Tail(stateFile.pending))
  <2>5. GoneNotices' = Len(raised) - c /\ c + 1 = Len(stateFile.pending) /\ c \in Nat
    BY <2>1, <2>4
  <2> HIDE DEF c
  <2>. QED  BY <2>2, <2>3, <2>4, <2>5
<1> DEFINE t == Tail(stateFile.pending)
<1> HIDE DEF t
<1>6. PendingAreLast'
  <2>1. \A i \in 1..Len(t) : t[i] = raised[(GoneNotices + 1) + i]
    <3> SUFFICES ASSUME NEW i \in 1..Len(t)  PROVE t[i] = raised[(GoneNotices + 1) + i]
      OBVIOUS
    <3>1. t[i] = stateFile.pending[i + 1] /\ i + 1 \in 1..Len(stateFile.pending)
      BY <1>4 DEF t
    <3>2. stateFile.pending[i + 1] = raised[GoneNotices + (i + 1)]
      BY <3>1, <1>2 DEF PendingAreLast
    <3>3. GoneNotices + (i + 1) = (GoneNotices + 1) + i
      BY <1>5
    <3>. QED  BY <3>1, <3>2, <3>3
  <2>2. stateFile'.pending = t /\ raised' = raised /\ GoneNotices' \in Nat
    BY <1>1, <1>3, <1>5 DEF t
  <2>. QED  BY <2>1, <2>2, <1>5 DEF PendingAreLast
<1>7. ToldSoFar'
  BY <1>1, <1>5 DEF ToldSoFar, OneAhead, FirstRaised
<1>8. IncidentsInOrder'
  BY <1>1, <1>3 DEF MonitorInv, IncidentsInOrder, Alternating, NextIsKnown
<1>9. MonitorTypes' /\ CycleInOrder'
  BY <1>1, <1>2 DEF MonitorInv, MonitorTypes, CycleInOrder
<1>. QED  BY <1>6, <1>7, <1>8, <1>9 DEF MonitorInv

LEMMA CrashOrIdle == ASSUME MonitorInv, W!Crash \/ UNCHANGED W!mvars  PROVE MonitorInv'
<1>1. UNCHANGED <<stateFile, cycleNo, drawnIds, raised, accepted>>
      /\ \/ cycleAt' = "idle" /\ value' = stateFile
         \/ cycleAt' = cycleAt /\ value' = value
  BY DEF W!Crash, W!mvars
<1>2. MonitorTypes' /\ CycleInOrder'
  BY <1>1 DEF MonitorInv, MonitorTypes, CycleInOrder, OneAhead, GoneNotices, FirstRaised
<1>. QED
  BY <1>1, <1>2 DEF MonitorInv, PendingAreLast, ToldSoFar, OneAhead, GoneNotices, FirstRaised,
                    IncidentsInOrder, Alternating, NextIsKnown

LEMMA MonitorStep == ASSUME MonitorInv, [W!Next]_W!mvars  PROVE MonitorInv'
  BY ObserveStep, SaveStep, JournalStep, NotifyStep, PopStep, CrashOrIdle DEF W!Next

LEMMA MonitorAlways == Spec => [](part = "health" => MonitorInv)
<1>1. Init => (part = "health" => MonitorInv)
  BY MonitorInit DEF Init
<1>2. (part = "health" => MonitorInv) /\ [Next]_vars => (part = "health" => MonitorInv)'
  <2> SUFFICES ASSUME part = "health" => MonitorInv, [Next]_vars, part' = "health"  PROVE MonitorInv'
    OBVIOUS
  <2>1. part = "health" /\ [W!Next]_W!mvars
    BY DEF Next, vars, W!mvars
  <2>. QED  BY <2>1, MonitorStep
<1>. QED  BY <1>1, <1>2, PTL DEF Spec

(* What is pending, as NoticesArrive writes it.                             *)
LEMMA OwnerHears == ASSUME MonitorInv  PROVE W!OwnerIsTold
<1>1. raised \in Seq(Notices) /\ stateFile.pending \in Seq(Notices) /\ GoneNotices \in Nat
      /\ GoneNotices + Len(stateFile.pending) = Len(raised) /\ GoneNotices = W!Gone
  BY DEF MonitorInv, MonitorTypes, States, PendingAreLast, GoneNotices, W!Gone
<1>2. SubSeq(raised, GoneNotices + 1, Len(raised)) = stateFile.pending
  <2> DEFINE s == SubSeq(raised, GoneNotices + 1, Len(raised))
  <2>1. s \in Seq(Notices) /\ Len(s) = Len(stateFile.pending)
        /\ \A i \in 1..Len(s) : s[i] = raised[(GoneNotices + 1) + i - 1]
    <3>1. \A i \in (GoneNotices + 1) .. Len(raised) : raised[i] \in Notices
      BY <1>1
    <3>2. GoneNotices + 1 \in Int /\ Len(raised) \in Int /\ Len(stateFile.pending) \in Nat
          /\ Len(raised) - (GoneNotices + 1) + 1 = Len(stateFile.pending)
      BY <1>1
    <3>3. Len(s) = Len(stateFile.pending)
      BY <3>1, <3>2, SubSeqProperties
    <3>. QED  BY <3>1, <3>2, <3>3, SubSeqProperties
  <2>2. \A i \in 1..Len(s) : s[i] = stateFile.pending[i]
    <3> HIDE DEF s
    <3> SUFFICES ASSUME NEW i \in 1..Len(s)  PROVE s[i] = stateFile.pending[i]
      OBVIOUS
    <3>1. (GoneNotices + 1) + i - 1 = GoneNotices + i /\ i \in 1..Len(stateFile.pending)
      BY <1>1, <2>1
    <3>. QED  BY <3>1, <2>1 DEF MonitorInv, PendingAreLast
  <2> HIDE DEF s
  <2>3. s = stateFile.pending
    BY <2>1, <2>2, <1>1, SeqEqual
  <2>. QED  BY <2>3 DEF s
<1>3. W!NoticesArrive
  BY <1>1, <1>2 DEF MonitorInv, ToldSoFar, OneAhead, FirstRaised, W!NoticesArrive
<1>4. W!IncidentsAlternate
  BY DEF MonitorInv, IncidentsInOrder, Alternating, W!IncidentsAlternate
<1>. QED  BY <1>3, <1>4 DEF W!OwnerIsTold

(* The owner hears of every incident, all of it and in order.               *)
THEOREM OwnerAlwaysTold == Spec => []OwnerIsTold
<1>1. (part = "health" => MonitorInv) => OwnerIsTold
  BY OwnerHears DEF OwnerIsTold
<1>. QED  BY <1>1, MonitorAlways, PTL

HIDE DEF stateFile, value, cycleAt, cycleNo, drawnIds, raised, accepted

-----------------------------------------------------------------------------
(* MqttPublisher.                                                          *)
(*                                                                         *)
(* A slot, an attempt and the probe each have one thread, and a breaker    *)
(* that is half open has a probe that will settle it.                      *)
breaker    == x1
failures   == x2
ripe       == x3
free       == x4
threadAt   == x5
gate       == x6
client     == x7
attempt    == x8
connecting == x9
failed     == x10
cancelled  == x11
attempts   == x12
USE DEF breaker, failures, ripe, free, threadAt, gate, client, attempt, connecting, failed, cancelled,
        attempts

Steps == {"idle", "slot", "connect", "gate", "wait", "use", "failure", "discard"}
PublisherTypes ==
  /\ breaker \in {"closed", "open", "half_open"} /\ failures \in Nat /\ ripe \in BOOLEAN
  /\ threadAt \in [Q!Threads -> Steps] /\ free \in Nat
  /\ attempts \in Nat /\ client \in 0..attempts /\ attempt \in 0..attempts
  /\ cancelled \subseteq 1..attempts

(* One attempt at a time, made or waited for by who holds the gate.         *)
OneAttempt ==
  /\ connecting \subseteq {attempt} \ {0}
  /\ attempt # 0 => client # attempt
  /\ client \notin cancelled
  /\ \A t \in Q!Threads : threadAt[t] \in {"gate", "wait"} => gate = t
  /\ \A t \in Q!Threads : threadAt[t] = "wait" => attempt # 0

(* The publishers that hold a slot.                                         *)
Holders == {t \in Publishers : threadAt[t] \notin {"idle", "slot"}}
SlotsAreHeld == free + Cardinality(Holders) = MaxInflight
ProbesGoStraight == threadAt[Prober] # "slot"

(* No thread is still discarding when the breaker lets somebody through.    *)
DiscardedByThen ==
  breaker = "half_open" \/ (breaker = "open" /\ ripe) => \A t \in Q!Threads : threadAt[t] # "discard"
OpenedByFailures == breaker # "closed" => failures >= Threshold

PublisherInv == /\ PublisherTypes /\ OneAttempt /\ SlotsAreHeld /\ ProbesGoStraight
                /\ DiscardedByThen /\ OpenedByFailures /\ Q!HalfOpenIsTried

Working == Steps \ {"idle", "discard"}
Held(step) == step \notin {"idle", "slot"}

LEMMA PublisherAssumed ==
  /\ MaxInflight \in Nat /\ MaxInflight # 0 /\ Threshold \in Nat
  /\ IsFiniteSet(Publishers) /\ \A t \in Q!Threads : t # "free"
<1>1. Q!PublisherAssumption
  BY PartsAssumption
<1>2. MaxInflight \in Nat /\ MaxInflight # 0 /\ Threshold \in Nat
  BY <1>1 DEF Q!PublisherAssumption
<1>3. IsFiniteSet(Publishers) /\ \A t \in Q!Threads : t # "free"
  BY <1>1 DEF Q!PublisherAssumption, Q!Threads, Q!IsFiniteSet, IsFiniteSet
<1>. QED  BY <1>2, <1>3

LEMMA ProberIsNone == Prober \notin Publishers
  BY PartsAssumption DEF Q!PublisherAssumption

LEMMA PublisherInit == Q!Init => PublisherInv
<1> SUFFICES ASSUME Q!Init  PROVE PublisherInv
  OBVIOUS
<1>1. PublisherTypes
  <2>1. MaxInflight \in Nat
    BY PublisherAssumed
  <2>2. threadAt = [t \in Q!Threads |-> "idle"]
    BY DEF Q!Init
  <2>3. threadAt \in [Q!Threads -> Steps]
    BY <2>2 DEF Steps
  <2>4. breaker = "closed" /\ failures = 0 /\ ripe = FALSE /\ free = MaxInflight /\ attempts = 0
        /\ client = 0 /\ attempt = 0 /\ cancelled = {}
    BY DEF Q!Init
  <2>5. cancelled \subseteq 1..attempts
    BY <2>4
  <2>6. attempts \in Nat /\ client \in 0..attempts /\ attempt \in 0..attempts
    BY <2>4
  <2>7. breaker \in {"closed", "open", "half_open"} /\ failures \in Nat /\ ripe \in BOOLEAN /\ free \in Nat
    BY <2>1, <2>4
  <2>. QED  BY <2>3, <2>5, <2>6, <2>7 DEF PublisherTypes
<1>2. OneAttempt /\ DiscardedByThen /\ OpenedByFailures /\ Q!HalfOpenIsTried
  BY DEF Q!Init, OneAttempt, DiscardedByThen, OpenedByFailures, Q!HalfOpenIsTried
<1>3. Holders = {}
  <2>1. threadAt = [t \in Q!Threads |-> "idle"]
    BY DEF Q!Init
  <2>. QED  BY <2>1 DEF Holders, Q!Threads
<1>4. SlotsAreHeld
  BY <1>3, FS_EmptySet, PublisherAssumed DEF Q!Init, SlotsAreHeld
<1>5. ProbesGoStraight
  BY DEF Q!Init, Q!Threads, ProbesGoStraight
<1>. QED  BY <1>1, <1>2, <1>4, <1>5 DEF PublisherInv

(* Where the threads are after one of them moved.                           *)
LEMMA OneMoves ==
  ASSUME PublisherInv, NEW t \in Q!Threads, NEW s \in Steps, Q!Go(t, s)
  PROVE  /\ threadAt' \in [Q!Threads -> Steps] /\ threadAt'[t] = s
         /\ \A u \in Q!Threads : u # t => threadAt'[u] = threadAt[u]
  BY DEF PublisherInv, PublisherTypes, Q!Go

(* The slots are counted as threads take and free them.                     *)
LEMMA SlotsCounted ==
  ASSUME PublisherInv, NEW t \in Q!Threads, NEW s \in Steps, Q!Go(t, s),
         \/ free' = free /\ (t \in Publishers => (Held(s) <=> Held(threadAt[t])))
         \/ t \in Publishers /\ Held(threadAt[t]) /\ ~Held(s) /\ free' = free + 1
         \/ t \in Publishers /\ ~Held(threadAt[t]) /\ Held(s) /\ free > 0 /\ free' = free - 1
  PROVE  SlotsAreHeld' /\ free' \in Nat /\ ((t = Prober => s # "slot") => ProbesGoStraight')
<1>1. /\ threadAt'[t] = s /\ \A u \in Q!Threads : u # t => threadAt'[u] = threadAt[u]
  BY OneMoves
<1>2. IsFiniteSet(Holders) /\ Cardinality(Holders) \in Nat /\ free \in Nat
  BY PublisherAssumed, FS_Subset, FS_CardinalityType DEF Holders, PublisherInv, PublisherTypes
<1>. SUFFICES SlotsAreHeld' /\ free' \in Nat
  BY <1>1 DEF PublisherInv, ProbesGoStraight, Q!Threads
<1>3. CASE free' = free /\ (t \in Publishers => (Held(s) <=> Held(threadAt[t])))
  <2>1. \A u \in Publishers : Held(threadAt'[u]) <=> Held(threadAt[u])
    <3> SUFFICES ASSUME NEW u \in Publishers  PROVE Held(threadAt'[u]) <=> Held(threadAt[u])
      OBVIOUS
    <3>1. CASE u = t
      BY <3>1, <1>1, <1>3 DEF Held
    <3>2. CASE u # t
      BY <3>2, <1>1 DEF Q!Threads
    <3>. QED  BY <3>1, <3>2
  <2>2. Holders' = Holders
    BY <2>1 DEF Holders, Held
  <2>. QED  BY <1>2, <1>3, <2>2, PublisherAssumed DEF PublisherInv, SlotsAreHeld
<1>4. CASE t \in Publishers /\ Held(threadAt[t]) /\ ~Held(s) /\ free' = free + 1
  <2>1. Holders' = Holders \ {t} /\ t \in Holders
    BY <1>1, <1>4 DEF Holders, Held, Q!Threads
  <2>2. Cardinality(Holders') = Cardinality(Holders) - 1
    BY <1>2, <2>1, FS_RemoveElement
  <2>. QED  BY <1>2, <1>4, <2>2, PublisherAssumed DEF PublisherInv, SlotsAreHeld
<1>5. CASE t \in Publishers /\ ~Held(threadAt[t]) /\ Held(s) /\ free > 0 /\ free' = free - 1
  <2>1. Holders' = Holders \cup {t} /\ t \notin Holders
    BY <1>1, <1>5 DEF Holders, Held, Q!Threads
  <2>2. Cardinality(Holders') = Cardinality(Holders) + 1
    BY <1>2, <2>1, FS_AddElement
  <2>. QED  BY <1>2, <1>5, <2>2, PublisherAssumed DEF PublisherInv, SlotsAreHeld
<1>. QED  BY <1>3, <1>4, <1>5

(* With no slot free some publisher holds one.                              *)
LEMMA SomebodyHolds == ASSUME PublisherInv, ~(free > 0)  PROVE \E t \in Publishers : Held(threadAt[t])
<1>1. free = 0
  BY DEF PublisherInv, PublisherTypes
<1>2. Holders # {}
  <2>1. Cardinality({}) = 0
    BY FS_EmptySet
  <2>2. Cardinality(Holders) + 0 # 0
    <3>1. Cardinality(Holders) \in Nat /\ MaxInflight # 0
      BY PublisherAssumed, FS_Subset, FS_CardinalityType DEF Holders
    <3>2. 0 + Cardinality(Holders) = MaxInflight
      BY <1>1 DEF PublisherInv, SlotsAreHeld
    <3>. QED  BY <3>1, <3>2
  <2>. QED  BY <2>1, <2>2
<1>. QED  BY <1>2 DEF Holders, Held

(* The steps that leave the session alone.                                  *)
LEMMA SessionRests ==
  ASSUME PublisherInv, UNCHANGED Q!session, NEW t \in Q!Threads, NEW s \in Steps, Q!Go(t, s),
         \/ gate' = gate /\ s \notin {"gate", "wait"}
         \/ gate = "free" /\ gate' = t /\ s = "gate"
         \/ threadAt[t] = "gate" /\ gate' = "free" /\ s = "use"
         \/ threadAt[t] = "gate" /\ gate' = gate /\ s = "wait" /\ attempt # 0
         \/ threadAt[t] = "wait" /\ gate' = "free" /\ s = "failure"
  PROVE  OneAttempt'
  BY OneMoves, PublisherAssumed DEF PublisherInv, OneAttempt, Q!session

(* Nothing of the breaker but what the step says of it.                     *)
LEMMA BreakerRests ==
  ASSUME PublisherInv, UNCHANGED Q!breaker, NEW t \in Q!Threads, NEW s \in Steps, Q!Go(t, s),
         s # "discard", s \in Working \/ \E u \in Q!Threads : u # t /\ Held(threadAt[u])
  PROVE  DiscardedByThen' /\ OpenedByFailures' /\ Q!HalfOpenIsTried'
<1>1. /\ breaker' = breaker /\ failures' = failures /\ ripe' = ripe
      /\ threadAt' \in [Q!Threads -> Steps] /\ threadAt'[t] = s
      /\ \A u \in Q!Threads : u # t => threadAt'[u] = threadAt[u]
  BY OneMoves DEF Q!breaker
<1>2. DiscardedByThen' /\ OpenedByFailures'
  BY <1>1 DEF PublisherInv, DiscardedByThen, OpenedByFailures
<1>3. ASSUME breaker = "half_open"
      PROVE  \E u \in Q!Threads : threadAt'[u] \in {"slot", "connect", "gate", "wait", "use", "failure"}
  <2>1. CASE s \in Working
    BY <2>1, <1>1 DEF Working, Steps
  <2>2. ASSUME NEW u \in Q!Threads, u # t, Held(threadAt[u])
        PROVE  threadAt'[u] \in {"slot", "connect", "gate", "wait", "use", "failure"}
    <3>1. threadAt[u] \in Steps /\ threadAt[u] # "discard"
      BY <1>3 DEF PublisherInv, PublisherTypes, DiscardedByThen
    <3>. QED  BY <2>2, <3>1, <1>1 DEF Held, Steps
  <2>. QED  BY <2>1, <2>2
<1>. QED  BY <1>1, <1>2, <1>3 DEF Q!HalfOpenIsTried

LEMMA PermitStep == ASSUME PublisherInv, NEW t \in Q!Threads, Q!Permit(t)  PROVE PublisherInv'
<1> DEFINE s == IF t = Prober THEN "connect" ELSE "slot"
<1>1. s \in Steps /\ Q!Go(t, s) /\ threadAt[t] = "idle" /\ s \in {"slot", "connect"}
      /\ UNCHANGED <<failures, ripe, free, gate>> /\ UNCHANGED Q!session
      /\ (t \in Publishers => s = "slot") /\ (t = Prober => s # "slot")
  BY ProberIsNone DEF Q!Permit, Steps
<1> HIDE DEF s
<1>2. /\ threadAt' \in [Q!Threads -> Steps] /\ threadAt'[t] = s
      /\ \A u \in Q!Threads : u # t => threadAt'[u] = threadAt[u]
  BY <1>1, OneMoves
<1>3. SlotsAreHeld' /\ ProbesGoStraight'
  BY <1>1, SlotsCounted, ProberIsNone DEF Held, Q!Threads
<1>4. OneAttempt'
  BY <1>1, SessionRests
<1>5. breaker' = breaker \/ (breaker = "open" /\ ripe /\ breaker' = "half_open")
  BY DEF Q!Permit
<1>6. PublisherTypes'
  BY <1>1, <1>2, <1>5 DEF PublisherInv, PublisherTypes, Q!session
<1>7. DiscardedByThen' /\ OpenedByFailures'
  BY <1>1, <1>2, <1>5 DEF PublisherInv, DiscardedByThen, OpenedByFailures
<1>8. Q!HalfOpenIsTried'
  BY <1>1, <1>2 DEF Q!HalfOpenIsTried
<1>. QED  BY <1>3, <1>4, <1>6, <1>7, <1>8 DEF PublisherInv

LEMMA SlotStep == ASSUME PublisherInv, NEW t \in Q!Threads, Q!Slot(t)  PROVE PublisherInv'
<1>1. threadAt[t] = "slot" /\ UNCHANGED <<Q!breaker, gate, Q!session>>
  BY DEF Q!Slot
<1>2. t \in Publishers
  BY <1>1 DEF PublisherInv, ProbesGoStraight, Q!Threads
<1>3. t # Prober
  BY <1>1 DEF PublisherInv, ProbesGoStraight
<1>4. CASE free > 0
  <2>1. Q!Go(t, "connect") /\ free' = free - 1 /\ "connect" \in Steps /\ "connect" \in Working
    BY <1>4 DEF Q!Slot, Steps, Working
  <2>2. SlotsAreHeld' /\ free' \in Nat /\ ProbesGoStraight'
    BY <1>1, <1>2, <1>3, <1>4, <2>1, SlotsCounted DEF Held
  <2>3. OneAttempt'
    BY <1>1, <2>1, SessionRests
  <2>4. DiscardedByThen' /\ OpenedByFailures' /\ Q!HalfOpenIsTried'
    BY <1>1, <2>1, BreakerRests
  <2>5. PublisherTypes'
    BY <1>1, <2>1, <2>2, OneMoves DEF PublisherInv, PublisherTypes, Q!session, Q!breaker
  <2>. QED  BY <2>2, <2>3, <2>4, <2>5 DEF PublisherInv
<1>5. CASE ~(free > 0)
  <2>1. Q!Go(t, "idle") /\ free' = free /\ "idle" \in Steps
    BY <1>5 DEF Q!Slot, Steps
  <2>2. SlotsAreHeld' /\ free' \in Nat /\ ProbesGoStraight'
    BY <1>1, <1>2, <1>3, <2>1, SlotsCounted DEF Held
  <2>3. OneAttempt'
    BY <1>1, <2>1, SessionRests
  <2>4. \E u \in Q!Threads : u # t /\ Held(threadAt[u])
    BY <1>1, <1>5, SomebodyHolds DEF Held, Q!Threads
  <2>5. DiscardedByThen' /\ OpenedByFailures' /\ Q!HalfOpenIsTried'
    BY <1>1, <2>1, <2>4, BreakerRests
  <2>6. PublisherTypes'
    BY <1>1, <2>1, <2>2, OneMoves DEF PublisherInv, PublisherTypes, Q!session, Q!breaker
  <2>. QED  BY <2>2, <2>3, <2>5, <2>6 DEF PublisherInv
<1>. QED  BY <1>4, <1>5

LEMMA TimeStep == ASSUME PublisherInv, Q!TimePasses  PROVE PublisherInv'
<1>1. /\ UNCHANGED <<breaker, failures, free, threadAt, gate>> /\ UNCHANGED Q!session /\ ripe' = TRUE
      /\ breaker = "open" /\ \A t \in Q!Threads : threadAt[t] # "discard"
  BY DEF Q!TimePasses
<1>2. PublisherTypes'
  BY <1>1 DEF PublisherInv, PublisherTypes, Q!session
<1>3. OneAttempt' /\ SlotsAreHeld' /\ ProbesGoStraight'
  BY <1>1 DEF PublisherInv, OneAttempt, Q!session, SlotsAreHeld, Holders, ProbesGoStraight
<1>4. DiscardedByThen' /\ OpenedByFailures' /\ Q!HalfOpenIsTried'
  BY <1>1 DEF PublisherInv, DiscardedByThen, OpenedByFailures, Q!HalfOpenIsTried
<1>. QED  BY <1>2, <1>3, <1>4 DEF PublisherInv

LEMMA GateStep == ASSUME PublisherInv, NEW t \in Q!Threads, Q!EnterGate(t)  PROVE PublisherInv'
<1>1. threadAt[t] = "connect" /\ UNCHANGED Q!breaker /\ free' = free /\ UNCHANGED Q!session
  BY DEF Q!EnterGate
<1>2. PICK s \in {"use", "gate", "failure"} :
        /\ Q!Go(t, s)
        /\ \/ gate' = gate /\ s # "gate"
           \/ gate = "free" /\ gate' = t /\ s = "gate"
  BY DEF Q!EnterGate
<1>3. s \in Steps /\ s \in Working /\ s # "discard" /\ s # "slot" /\ s # "wait"
      /\ Held(s) /\ Held(threadAt[t])
  BY <1>1 DEF Steps, Working, Held
<1>4. SlotsAreHeld' /\ ProbesGoStraight'
  BY <1>1, <1>2, <1>3, SlotsCounted
<1>5. OneAttempt'
  BY <1>1, <1>2, <1>3, SessionRests
<1>6. DiscardedByThen' /\ OpenedByFailures' /\ Q!HalfOpenIsTried'
  BY <1>1, <1>2, <1>3, BreakerRests
<1>7. PublisherTypes'
  BY <1>1, <1>2, <1>3, OneMoves DEF PublisherInv, PublisherTypes, Q!session, Q!breaker
<1>. QED  BY <1>4, <1>5, <1>6, <1>7 DEF PublisherInv

LEMMA ConnectStep == ASSUME PublisherInv, NEW t \in Q!Threads, Q!Connect(t)  PROVE PublisherInv'
<1>1. threadAt[t] = "gate" /\ UNCHANGED Q!breaker /\ free' = free
  BY DEF Q!Connect
<1>2. PICK s \in {"use", "wait"} : Q!Go(t, s)
  BY DEF Q!Connect
<1>3. s \in Steps /\ s \in Working /\ s # "discard" /\ s # "slot" /\ Held(s) /\ Held(threadAt[t])
  BY <1>1 DEF Steps, Working, Held
<1>4. SlotsAreHeld' /\ ProbesGoStraight'
  BY <1>1, <1>2, <1>3, SlotsCounted
<1>5. DiscardedByThen' /\ OpenedByFailures' /\ Q!HalfOpenIsTried'
  BY <1>1, <1>2, <1>3, BreakerRests
<1>6. /\ threadAt' \in [Q!Threads -> Steps] /\ threadAt'[t] = s
      /\ \A u \in Q!Threads : u # t => threadAt'[u] = threadAt[u]
  BY <1>2, <1>3, OneMoves
<1>7. PublisherTypes' /\ OneAttempt'
  <2>1. CASE client # 0 /\ gate' = "free" /\ Q!Go(t, "use") /\ UNCHANGED Q!session
    <3>1. OneAttempt'
      BY <2>1, <1>1, SessionRests DEF Steps
    <3>. QED  BY <2>1, <3>1, <1>1, <1>6 DEF PublisherInv, PublisherTypes, Q!session, Q!breaker
  <2>2. CASE client = 0 /\ attempt # 0 /\ Q!Go(t, "wait") /\ UNCHANGED <<gate, Q!session>>
    <3>1. OneAttempt'
      BY <2>2, <1>1, SessionRests DEF Steps
    <3>. QED  BY <2>2, <3>1, <1>1, <1>6 DEF PublisherInv, PublisherTypes, Q!session, Q!breaker
  <2>3. CASE /\ client = 0 /\ attempt = 0 /\ attempts < MaxAttempts
             /\ attempts' = attempts + 1 /\ attempt' = attempts + 1
             /\ connecting' = connecting \cup {attempts + 1}
             /\ Q!Go(t, "wait") /\ UNCHANGED <<gate, client, failed, cancelled>>
    <3>1. attempts \in Nat /\ attempts' \in Nat /\ attempts + 1 # 0
      BY <2>3 DEF PublisherInv, PublisherTypes
    <3>2. PublisherTypes'
      BY <2>3, <3>1, <1>1, <1>6 DEF PublisherInv, PublisherTypes, Q!breaker
    <3>3. OneAttempt'
      BY <2>3, <3>1, <1>1, <1>6 DEF PublisherInv, OneAttempt
    <3>. QED  BY <3>2, <3>3
  <2>. QED  BY <2>1, <2>2, <2>3 DEF Q!Connect
<1>. QED  BY <1>4, <1>5, <1>7 DEF PublisherInv

LEMMA ReturnStep == ASSUME PublisherInv, NEW i, Q!ConnectReturns(i)  PROVE PublisherInv'
<1>1. /\ UNCHANGED <<breaker, failures, ripe, free, threadAt, gate, client, attempt, cancelled, attempts>>
      /\ connecting' \subseteq connecting
  BY DEF Q!ConnectReturns, Q!breaker
<1>2. PublisherTypes'
  BY <1>1 DEF PublisherInv, PublisherTypes
<1>3. OneAttempt' /\ SlotsAreHeld' /\ ProbesGoStraight'
  BY <1>1 DEF PublisherInv, OneAttempt, SlotsAreHeld, Holders, ProbesGoStraight
<1>4. DiscardedByThen' /\ OpenedByFailures' /\ Q!HalfOpenIsTried'
  BY <1>1 DEF PublisherInv, DiscardedByThen, OpenedByFailures, Q!HalfOpenIsTried
<1>. QED  BY <1>2, <1>3, <1>4 DEF PublisherInv

(* The end of a wait, by the deadline or by the attempt's thread.           *)
LEMMA WaitSteps ==
  ASSUME PublisherInv, NEW t \in Q!Threads, Q!GivesUp(t) \/ Q!Connected(t)  PROVE PublisherInv'
<1>1. threadAt[t] = "wait" /\ UNCHANGED Q!breaker /\ free' = free /\ gate' = "free" /\ attempts' = attempts
  BY DEF Q!GivesUp, Q!Connected
<1>2. PICK s \in {"use", "failure"} : Q!Go(t, s)
  BY DEF Q!GivesUp, Q!Connected
<1>3. s \in Steps /\ s \in Working /\ s # "discard" /\ s # "slot" /\ Held(s) /\ Held(threadAt[t])
      /\ s \notin {"gate", "wait"}
  BY <1>1 DEF Steps, Working, Held
<1>4. SlotsAreHeld' /\ ProbesGoStraight'
  BY <1>1, <1>2, <1>3, SlotsCounted
<1>5. DiscardedByThen' /\ OpenedByFailures' /\ Q!HalfOpenIsTried'
  BY <1>1, <1>2, <1>3, BreakerRests
<1>6. /\ threadAt' \in [Q!Threads -> Steps] /\ threadAt'[t] = s
      /\ \A u \in Q!Threads : u # t => threadAt'[u] = threadAt[u]
  BY <1>2, <1>3, OneMoves
<1>7. attempt # 0 /\ gate = t /\ \A u \in Q!Threads : u # t => threadAt[u] \notin {"gate", "wait"}
  BY <1>1 DEF PublisherInv, OneAttempt
<1>8. \A u \in Q!Threads : threadAt'[u] \notin {"gate", "wait"}
  BY <1>3, <1>6, <1>7
<1>9. /\ attempts \in Nat /\ client \in 0..attempts /\ attempt \in 0..attempts
      /\ cancelled \subseteq 1..attempts
      /\ connecting \subseteq {attempt} \ {0} /\ (attempt # 0 => client # attempt) /\ client \notin cancelled
  BY DEF PublisherInv, PublisherTypes, OneAttempt
<1>10. client' \in 0..attempts /\ attempt' \in 0..attempts /\ cancelled' \subseteq 1..attempts
       /\ connecting' \subseteq {attempt'} \ {0} /\ (attempt' # 0 => client' # attempt')
       /\ client' \notin cancelled'
  <2>1. CASE Q!GivesUp(t)
    <3>1. attempt' = attempt /\ client' = client /\ connecting' = connecting
          /\ cancelled' = cancelled \cup {attempt}
      BY <2>1 DEF Q!GivesUp
    <3>. QED  BY <3>1, <1>7, <1>9
  <2>2. CASE Q!Connected(t)
    <3>1. attempt' = 0 /\ cancelled' = cancelled /\ connecting' = connecting /\ attempt \notin connecting
          /\ (client' = client \/ (client' = attempt /\ attempt \notin cancelled))
      BY <2>2 DEF Q!Connected, Q!Usable
    <3>. QED  BY <3>1, <1>9
  <2>. QED  BY <2>1, <2>2
<1>11. PublisherTypes'
  BY <1>1, <1>6, <1>10 DEF PublisherInv, PublisherTypes, Q!breaker
<1>12. OneAttempt'
  BY <1>8, <1>10 DEF OneAttempt
<1>. QED  BY <1>4, <1>5, <1>11, <1>12 DEF PublisherInv

LEMMA ConfirmStep == ASSUME PublisherInv, NEW t \in Q!Threads, Q!Confirmed(t)  PROVE PublisherInv'
<1>1. threadAt[t] = "use" /\ gate' = gate /\ UNCHANGED Q!session
  BY DEF Q!Confirmed
<1>2. CASE Q!Go(t, "failure") /\ UNCHANGED <<Q!breaker, free>>
  <2>1. "failure" \in Steps /\ "failure" \in Working /\ Held("failure") /\ Held(threadAt[t])
    BY <1>1 DEF Steps, Working, Held
  <2>2. SlotsAreHeld' /\ ProbesGoStraight'
    BY <1>2, <2>1, SlotsCounted
  <2>3. OneAttempt'
    BY <1>1, <1>2, <2>1, SessionRests
  <2>4. DiscardedByThen' /\ OpenedByFailures' /\ Q!HalfOpenIsTried'
    BY <1>2, <2>1, BreakerRests
  <2>5. PublisherTypes'
    BY <1>1, <1>2, <2>1, OneMoves DEF PublisherInv, PublisherTypes, Q!session, Q!breaker
  <2>. QED  BY <2>2, <2>3, <2>4, <2>5 DEF PublisherInv
<1>3. CASE /\ breaker' = "closed" /\ failures' = 0 /\ ripe' = FALSE
           /\ free' = Q!Freed(t) /\ Q!Go(t, "idle")
  <2>1. "idle" \in Steps /\ ~Held("idle") /\ Held(threadAt[t])
    BY <1>1 DEF Steps, Held
  <2>2. IF t = Prober THEN free' = free /\ t \notin Publishers ELSE free' = free + 1 /\ t \in Publishers
    BY <1>3, ProberIsNone DEF Q!Freed, Q!Threads
  <2>3. SlotsAreHeld' /\ free' \in Nat /\ ProbesGoStraight'
    BY <1>3, <2>1, <2>2, SlotsCounted
  <2>4. OneAttempt'
    BY <1>1, <1>3, <2>1, SessionRests
  <2>5. DiscardedByThen' /\ OpenedByFailures' /\ Q!HalfOpenIsTried'
    BY <1>3 DEF DiscardedByThen, OpenedByFailures, Q!HalfOpenIsTried
  <2>6. PublisherTypes'
    BY <1>1, <1>3, <2>1, <2>3, OneMoves DEF PublisherInv, PublisherTypes, Q!session
  <2>. QED  BY <2>3, <2>4, <2>5, <2>6 DEF PublisherInv
<1>. QED  BY <1>2, <1>3 DEF Q!Confirmed

LEMMA FailStep == ASSUME PublisherInv, NEW t \in Q!Threads, Q!Fails(t)  PROVE PublisherInv'
<1>1. threadAt[t] = "failure" /\ Q!Go(t, "discard") /\ gate' = gate /\ free' = free /\ UNCHANGED Q!session
      /\ "discard" \in Steps /\ Held("discard") /\ Held(threadAt[t])
  BY DEF Q!Fails, Steps, Held
<1>2. SlotsAreHeld' /\ ProbesGoStraight'
  BY <1>1, SlotsCounted
<1>3. OneAttempt'
  BY <1>1, SessionRests
<1>4. failures \in Nat /\ Threshold \in Nat /\ breaker \in {"closed", "open", "half_open"}
      /\ ripe \in BOOLEAN
  BY PublisherAssumed DEF PublisherInv, PublisherTypes
<1>5. /\ failures' = IF failures < Threshold THEN failures + 1 ELSE failures
      /\ IF failures + 1 >= Threshold \/ breaker = "half_open"
         THEN breaker' = "open" /\ ripe' = FALSE
         ELSE UNCHANGED <<breaker, ripe>>
  BY DEF Q!Fails
<1>6. breaker # "closed" => failures >= Threshold
  BY DEF PublisherInv, OpenedByFailures
<1>7. failures' \in Nat /\ failures' >= failures
      /\ \/ breaker' = "open" /\ ripe' = FALSE /\ failures' >= Threshold
         \/ breaker' = "closed" /\ ripe' = ripe
  <2>1. failures' \in Nat /\ failures' >= failures
    BY <1>4, <1>5
  <2>2. CASE failures + 1 >= Threshold
    BY <2>2, <1>4, <1>5
  <2>3. CASE ~(failures + 1 >= Threshold)
    BY <2>3, <1>4, <1>5, <1>6
  <2>. QED  BY <2>1, <2>2, <2>3
<1>8. DiscardedByThen' /\ OpenedByFailures' /\ Q!HalfOpenIsTried'
  BY <1>7 DEF DiscardedByThen, OpenedByFailures, Q!HalfOpenIsTried
<1>9. PublisherTypes'
  BY <1>1, <1>4, <1>7, OneMoves DEF PublisherInv, PublisherTypes, Q!session
<1>. QED  BY <1>2, <1>3, <1>8, <1>9 DEF PublisherInv

LEMMA DiscardStep == ASSUME PublisherInv, NEW t \in Q!Threads, Q!Discard(t)  PROVE PublisherInv'
<1>1. /\ threadAt[t] = "discard" /\ Q!Go(t, "idle") /\ client' = 0 /\ free' = Q!Freed(t)
      /\ UNCHANGED <<breaker, failures, ripe, gate, attempt, connecting, cancelled, attempts>>
  BY DEF Q!Discard, Q!breaker
<1>2. "idle" \in Steps /\ ~Held("idle") /\ Held(threadAt[t])
  BY <1>1 DEF Steps, Held
<1>3. IF t = Prober THEN free' = free /\ t \notin Publishers ELSE free' = free + 1 /\ t \in Publishers
  BY <1>1, ProberIsNone DEF Q!Freed, Q!Threads
<1>4. SlotsAreHeld' /\ free' \in Nat /\ ProbesGoStraight'
  BY <1>1, <1>2, <1>3, SlotsCounted
<1>5. /\ threadAt' \in [Q!Threads -> Steps] /\ threadAt'[t] = "idle"
      /\ \A u \in Q!Threads : u # t => threadAt'[u] = threadAt[u]
  BY <1>1, <1>2, OneMoves
<1>6. OneAttempt'
  <2>1. cancelled \subseteq 1..attempts /\ attempts \in Nat /\ 0 \notin 1..attempts
    BY DEF PublisherInv, PublisherTypes
  <2>. QED  BY <2>1, <1>1, <1>5 DEF PublisherInv, OneAttempt
<1>7. DiscardedByThen' /\ OpenedByFailures'
  BY <1>1, <1>5 DEF PublisherInv, DiscardedByThen, OpenedByFailures
<1>8. Q!HalfOpenIsTried'
  BY <1>1, <1>5 DEF PublisherInv, Q!HalfOpenIsTried
<1>9. PublisherTypes'
  BY <1>1, <1>4, <1>5 DEF PublisherInv, PublisherTypes
<1>. QED  BY <1>4, <1>6, <1>7, <1>8, <1>9 DEF PublisherInv

LEMMA PublisherStep == ASSUME PublisherInv, [Q!Next]_Q!mqvars  PROVE PublisherInv'
<1>1. CASE UNCHANGED Q!mqvars
  <2>1. UNCHANGED <<breaker, failures, ripe, free, threadAt, gate, client, attempt, connecting, cancelled, attempts>>
    BY <1>1 DEF Q!mqvars
  <2>2. PublisherTypes' /\ OneAttempt'
    BY <2>1 DEF PublisherInv, PublisherTypes, OneAttempt
  <2>3. SlotsAreHeld' /\ ProbesGoStraight'
    BY <2>1 DEF PublisherInv, SlotsAreHeld, Holders, ProbesGoStraight
  <2>. QED
    BY <2>1, <2>2, <2>3 DEF PublisherInv, DiscardedByThen, OpenedByFailures, Q!HalfOpenIsTried
<1>. QED
  BY <1>1, PermitStep, SlotStep, TimeStep, GateStep, ConnectStep, ReturnStep, WaitSteps, ConfirmStep,
     FailStep, DiscardStep DEF Q!Next

LEMMA PublisherAlways == Spec => [](part = "mqtt" => PublisherInv)
<1>1. Init => (part = "mqtt" => PublisherInv)
  BY PublisherInit DEF Init
<1>2. (part = "mqtt" => PublisherInv) /\ [Next]_vars => (part = "mqtt" => PublisherInv)'
  <2> SUFFICES ASSUME part = "mqtt" => PublisherInv, [Next]_vars, part' = "mqtt"  PROVE PublisherInv'
    OBVIOUS
  <2>1. part = "mqtt" /\ [Q!Next]_Q!mqvars
    BY DEF Next, vars, Q!mqvars
  <2>. QED  BY <2>1, PublisherStep
<1>. QED  BY <1>1, <1>2, PTL DEF Spec

LEMMA SameCardinality == ASSUME NEW T  PROVE Q!Cardinality(T) = Cardinality(T)
  BY DEF Q!Cardinality, Cardinality

LEMMA PublisherSafe == ASSUME PublisherInv  PROVE Q!PublisherIsSafe
<1>1. Cardinality(connecting) <= 1
  <2>1. connecting = {} \/ connecting = {attempt}
    BY DEF PublisherInv, OneAttempt
  <2>2. Cardinality({}) = 0 /\ Cardinality({attempt}) = 1
    BY FS_EmptySet, FS_Singleton
  <2>. QED  BY <2>1, <2>2
<1>2. Q!Cardinality(connecting) = Cardinality(connecting)
  BY SameCardinality
<1>. QED  BY <1>1, <1>2 DEF PublisherInv, OneAttempt, Q!PublisherIsSafe, Q!OneSession

(* One broker session however many callers give up, and a breaker that is   *)
(* never half open with nobody at work (ops_runtime.py).                    *)
THEOREM PublisherAlwaysSafe == Spec => []PublisherIsSafe
<1>1. (part = "mqtt" => PublisherInv) => PublisherIsSafe
  BY PublisherSafe DEF PublisherIsSafe
<1>. QED  BY <1>1, PublisherAlways, PTL

HIDE DEF breaker, failures, ripe, free, threadAt, gate, client, attempt, connecting, failed, cancelled,
        attempts

-----------------------------------------------------------------------------
(* BackupRestore.                                                          *)
(*                                                                         *)
(* A bundle's inventory is that of its source, and a restore that compares *)
(* compares with the inventory of a bundle there is.                       *)
bundles   == x4
work      == x5
restore   == x7
passed    == x8
USE DEF bundles, work, restore, passed

(* A bundle's inventory is that of the source, and a directory or a restore *)
(* belongs to a bundle there is.                                            *)
Bundled(i) == \E b \in bundles : b.id = i
BackupTypes == DOMAIN restore = Restorers /\ DOMAIN work = 1..MaxBackups
BundlesAreTrue == \A b \in bundles : b.inventory = b.source
WorkIsBundled == \A i \in DOMAIN work : work[i] # "none" => Bundled(i)
RestoreIsBundled ==
  \A r \in Restorers : restore[r].at # "off" => Bundled(restore[r].manifest)

BackupInv == /\ BackupTypes /\ BundlesAreTrue /\ WorkIsBundled /\ RestoreIsBundled
             /\ R!PassLosesNothing

LEMMA BackupInit == R!Init => BackupInv
  BY DEF R!Init, R!Off, BackupInv, BackupTypes, BundlesAreTrue, WorkIsBundled, RestoreIsBundled,
         R!PassLosesNothing

LEMMA OfIsBundled == ASSUME NEW i, Bundled(i)  PROVE R!Of(i) \in bundles
  BY DEF Bundled, R!Of

(* The backup on the NAS.                                                   *)
LEMMA NasSteps ==
  ASSUME BackupInv, R!Write \/ R!Before \/ R!Dump \/ R!After \/ R!BackupEnds
  PROVE  BackupInv'
<1>1. UNCHANGED <<work, restore, passed>>
  BY DEF R!Write, R!Before, R!Dump, R!After, R!BackupEnds
<1>2. /\ bundles \subseteq bundles'
      /\ \A b \in bundles' : b \in bundles \/ b.inventory = b.source
  BY DEF R!Write, R!Before, R!Dump, R!After, R!BackupEnds, R!Unchanged
<1>3. \A i : Bundled(i) => Bundled(i)'
  BY <1>2 DEF Bundled
<1>. QED
  BY <1>1, <1>2, <1>3 DEF BackupInv, BackupTypes, BundlesAreTrue, WorkIsBundled, RestoreIsBundled,
                          R!PassLosesNothing

(* The directories of the owner's machine.                                  *)
LEMMA WorkSteps ==
  ASSUME BackupInv, R!Extract \/ R!Manifest \/ R!Encrypt
  PROVE  BackupInv'
<1>1. UNCHANGED <<bundles, restore, passed>>
  BY DEF R!Extract, R!Manifest, R!Encrypt, R!nas
<1>2. DOMAIN work' = DOMAIN work /\ \A i \in DOMAIN work : work'[i] # "none" => Bundled(i)
  <2>1. CASE R!Extract
    <3>1. PICK b \in bundles : work' = [work EXCEPT ![b.id] = "extracted"]
      BY <2>1 DEF R!Extract
    <3>. QED  BY <3>1 DEF BackupInv, WorkIsBundled, Bundled
  <2>2. CASE R!Manifest \/ R!Encrypt
    <3>1. PICK i \in DOMAIN work, s \in {"manifest", "encrypted"} : work[i] # "none" /\ work' = [work EXCEPT ![i] = s]
      BY <2>2 DEF R!Manifest, R!Encrypt
    <3>. QED  BY <3>1 DEF BackupInv, WorkIsBundled
  <2>. QED  BY <2>1, <2>2
<1>. QED
  BY <1>1, <1>2 DEF BackupInv, BackupTypes, BundlesAreTrue, WorkIsBundled, RestoreIsBundled, Bundled,
                    R!PassLosesNothing

(* A restorer's files stay those it was given.                              *)
LEMMA RestorerSteps ==
  ASSUME BackupInv, NEW r \in Restorers,
         \/ R!RestoreBegins(r) \/ R!CreateVolume(r) \/ R!RunContainer(r) \/ R!EmptyTarget(r)
         \/ R!Import(r) \/ R!Pass(r) \/ R!RestoreEnds(r)
  PROVE  BackupInv'
<1>1. UNCHANGED <<bundles, work>>
  BY DEF R!RestoreBegins, R!CreateVolume, R!RunContainer, R!EmptyTarget, R!Import, R!Pass,
         R!RestoreEnds, R!nas
<1>2. /\ DOMAIN restore' = Restorers
      /\ \A s \in Restorers \ {r} : restore'[s] = restore[s]
      /\ restore'[r].at # "off" => Bundled(restore'[r].manifest)
  <2>1. CASE R!RestoreBegins(r)
    <3>1. PICK d \in R!Ready, m \in R!Ready :
            restore' = [restore EXCEPT ![r] = [at |-> "volume", dump |-> d, manifest |-> m]]
      BY <2>1 DEF R!RestoreBegins
    <3>2. Bundled(m)
      BY DEF R!Ready, BackupInv, WorkIsBundled
    <3>. QED  BY <3>1, <3>2 DEF BackupInv, BackupTypes
  <2>2. CASE R!RestoreEnds(r)
    BY <2>2 DEF R!RestoreEnds, R!Off, BackupInv, BackupTypes
  <2>3. CASE R!CreateVolume(r) \/ R!RunContainer(r) \/ R!EmptyTarget(r) \/ R!Import(r) \/ R!Pass(r)
    <3>1. restore[r].at # "off"
      BY <2>3 DEF R!CreateVolume, R!RunContainer, R!EmptyTarget, R!Import, R!Pass, R!At
    <3>2. PICK s \in {"run", "empty", "import", "check", "off"} : restore' = [restore EXCEPT ![r].at = s]
      BY <2>3 DEF R!CreateVolume, R!RunContainer, R!EmptyTarget, R!Import, R!Pass, R!To
    <3>. QED  BY <3>1, <3>2 DEF BackupInv, BackupTypes, RestoreIsBundled
  <2>. QED  BY <2>1, <2>2, <2>3
<1>3. R!PassLosesNothing'
  <2>1. CASE passed' = passed
    BY <2>1 DEF BackupInv, R!PassLosesNothing
  <2>2. CASE passed' # passed
    <3>1. R!Pass(r)
      BY <2>2 DEF R!RestoreBegins, R!CreateVolume, R!RunContainer, R!EmptyTarget, R!Import,
                  R!RestoreEnds
    <3>2. R!Of(restore[r].manifest) \in bundles
      BY <3>1, OfIsBundled DEF R!Pass, R!At, BackupInv, RestoreIsBundled
    <3>3. R!Of(restore[r].manifest).inventory = R!Of(restore[r].manifest).source
      BY <3>2 DEF BackupInv, BundlesAreTrue
    <3>. QED  BY <3>1, <3>3 DEF R!Pass, R!SameInventory, BackupInv, R!PassLosesNothing
  <2>. QED  BY <2>1, <2>2
<1>. QED
  BY <1>1, <1>2, <1>3 DEF BackupInv, BackupTypes, BundlesAreTrue, WorkIsBundled, RestoreIsBundled, Bundled

LEMMA BackupStep == ASSUME BackupInv, [R!Next]_R!rvars  PROVE BackupInv'
<1>1. CASE R!OwnerClears \/ UNCHANGED R!rvars
  <2>1. UNCHANGED <<bundles, work, restore, passed>>
    BY <1>1 DEF R!OwnerClears, R!rvars, R!nas
  <2>. QED
    BY <2>1 DEF BackupInv, BackupTypes, BundlesAreTrue, WorkIsBundled, RestoreIsBundled, Bundled,
                R!PassLosesNothing
<1>. QED  BY <1>1, NasSteps, WorkSteps, RestorerSteps DEF R!Next

LEMMA BackupAlways == Spec => [](part = "backup" => BackupInv)
<1>1. Init => (part = "backup" => BackupInv)
  BY BackupInit DEF Init
<1>2. (part = "backup" => BackupInv) /\ [Next]_vars => (part = "backup" => BackupInv)'
  BY BackupStep DEF Next, vars, R!rvars
<1>. QED  BY <1>1, <1>2, PTL DEF Spec

(* A restore that passes has lost nothing.                                  *)
THEOREM PassesLoseNothing == Spec => []PassLosesNothing
<1>1. (part = "backup" => BackupInv) => PassLosesNothing
  BY DEF BackupInv, PassLosesNothing
<1>. QED  BY <1>1, BackupAlways, PTL

HIDE DEF bundles, work, restore, passed

-----------------------------------------------------------------------------
(* SessionView.                                                            *)
(*                                                                         *)
(* Whatever can be told of a session, queued, on the air, stored or held   *)
(* in memory, is the end that session had.                                 *)
bootNo    == x1
eventNo   == x2
fsm       == x3
session   == x4
sink      == x5
summary   == x6
air       == x7
history   == x8
live      == x9
fate      == x10
USE DEF bootNo, eventNo, fsm, session, sink, summary, air, history, live, fate

Ends == [event : [session : Sessions, code : {"COMPLETED", "TERMINATED"}, seq : Nat, boot : Nat],
         mask : {"success", "failsafe", "partial"}]

ViewTypes ==
  /\ DOMAIN fate = Sessions /\ sink \in Seq(Ends)
  /\ bootNo \in Nat /\ eventNo \in Nat

FsmServes ==
  /\ session = NoOne \/ (session \in Sessions /\ fate[session] = "running")
  /\ fsm = "ARMED" => session \in Sessions

(* What is told of the end of a session is the end it had: by an event on    *)
(* its way or stored, one that is not drained yet, the Target's summary and *)
(* the status that has been heard.  Only a session that was cut off has the *)
(* failsafe among its phases.                                               *)
TrueEnd(f, s, code) ==
  /\ code = "COMPLETED" => f[s] = "completed"
  /\ code = "TERMINATED" => f[s] = "terminated"
TruePhases(f, s, mask) == mask = "failsafe" => f[s] = "terminated"
TrueEvent(f, e) == e.session \in Sessions /\ TrueEnd(f, e.session, e.code)
TrueEntry(f, n) == TrueEvent(f, n.event) /\ TruePhases(f, n.event.session, n.mask)
TrueSummary(f, l) ==
  l.session = NoOne \/ (l.session \in Sessions /\ TrueEnd(f, l.session, l.code)
                                                /\ TruePhases(f, l.session, l.mask))

ViewInv ==
  /\ ViewTypes /\ FsmServes
  /\ \A e \in air \cup history : TrueEvent(fate, e)
  /\ \A i \in 1..Len(sink) : TrueEntry(fate, sink[i])
  /\ TrueSummary(fate, summary) /\ TrueSummary(fate, live.last)

LEMMA NoOneIsNone == NoOne \notin Sessions
  BY PartsAssumption DEF V!SessionAssumption

LEMMA ViewInit == V!Init => ViewInv
<1> SUFFICES ASSUME V!Init  PROVE ViewInv
  OBVIOUS
<1>1. /\ sink = <<>> /\ Len(sink) = 0 /\ bootNo = 1 /\ eventNo = 0 /\ session = NoOne /\ fsm = "IDLE"
      /\ summary.session = NoOne /\ live.last.session = NoOne /\ air = {} /\ history = {}
      /\ fate = [s \in Sessions |-> "none"]
  BY DEF V!Init, V!NoSummary, V!NoStatus
<1>. QED  BY <1>1 DEF ViewInv, ViewTypes, FsmServes, TrueSummary

(* What a session has ended in does not change.                             *)
EndsStay == \A s \in Sessions : fate[s] \in {"completed", "terminated"} => fate'[s] = fate[s]

LEMMA StillTrue ==
  ASSUME ViewInv, EndsStay
  PROVE  /\ \A e \in air \cup history : TrueEvent(fate', e)
         /\ \A i \in 1..Len(sink) : TrueEntry(fate', sink[i])
         /\ TrueSummary(fate', summary) /\ TrueSummary(fate', live.last)
<1>1. \A s \in Sessions : \A c : /\ TrueEnd(fate, s, c) => TrueEnd(fate', s, c)
                                 /\ TruePhases(fate, s, c) => TruePhases(fate', s, c)
  BY DEF EndsStay, TrueEnd, TruePhases
<1>. QED  BY <1>1 DEF ViewInv, TrueEvent, TrueEntry, TrueSummary

(* A step that tells events, and puts one end at most in the sink.          *)
LEMMA EventTold ==
  ASSUME ViewInv, EndsStay, ViewTypes', FsmServes', UNCHANGED <<summary, history, live>>,
         \A e \in air' : e \in air \/ TrueEvent(fate', e),
         sink' = sink \/ \E n \in Ends : sink' = Append(sink, n) /\ TrueEntry(fate', n)
  PROVE  ViewInv'
<1>1. \A i \in 1..Len(sink') : TrueEntry(fate', sink'[i])
  <2>1. CASE sink' = sink
    BY <2>1, StillTrue
  <2>2. ASSUME NEW n \in Ends, sink' = Append(sink, n), TrueEntry(fate', n)
        PROVE  \A i \in 1..Len(sink') : TrueEntry(fate', sink'[i])
    <3>1. \A i \in 1..Len(sink') : sink'[i] = n \/ (i \in 1..Len(sink) /\ sink'[i] = sink[i])
      BY <2>2 DEF ViewInv, ViewTypes
    <3>. QED  BY <2>2, <3>1, StillTrue
  <2>. QED  BY <2>1, <2>2
<1>. QED  BY <1>1, StillTrue DEF ViewInv

(* What is told before the end of a session says nothing of its end.        *)
LEMMA TellsNoEnd ==
  ASSUME NEW s \in Sessions, NEW code \in {"PROVED", "RELAY_ON"}, NEW n
  PROVE  TrueEvent(fate', V!Event(s, code, n))
  BY DEF TrueEvent, TrueEnd, V!Event

LEMMA VerifiedStep ==
  ASSUME ViewInv, NEW s \in Sessions, V!Verified(s)
  PROVE  ViewInv'
<1>1. /\ fate[s] = "none" /\ session' = s /\ fate' = [fate EXCEPT ![s] = "running"]
      /\ UNCHANGED <<bootNo, sink, summary, history, live>>
  BY DEF V!Verified
<1>2. /\ eventNo' = eventNo + 1 \/ eventNo' = eventNo + 2
      /\ \A e \in air' : e \in air \/ \E code \in {"PROVED", "RELAY_ON"} : \E n : e = V!Event(s, code, n)
  BY DEF V!Verified
<1>3. ViewTypes' /\ FsmServes'
  BY <1>1, <1>2 DEF ViewInv, ViewTypes, FsmServes
<1>4. EndsStay
  BY <1>1 DEF ViewInv, ViewTypes, EndsStay
<1>. QED  BY <1>1, <1>2, <1>3, <1>4, TellsNoEnd, EventTold

LEMMA RelayOnStep == ASSUME ViewInv, V!RelayOn  PROVE ViewInv'
<1>1. /\ fsm = "ARMED" /\ fsm' = "RELAY_HOLD" /\ eventNo' = eventNo + 1
      /\ air' = air \cup {V!Event(session, "RELAY_ON", eventNo + 1)}
      /\ UNCHANGED <<bootNo, session, sink, summary, history, live, fate>>
  BY DEF V!RelayOn
<1>2. ViewTypes' /\ FsmServes' /\ EndsStay
  BY <1>1 DEF ViewInv, ViewTypes, FsmServes, EndsStay
<1>3. TrueEvent(fate', V!Event(session, "RELAY_ON", eventNo + 1))
  BY <1>1, TellsNoEnd DEF ViewInv, FsmServes
<1>. QED  BY <1>1, <1>2, <1>3, EventTold

(* The end of a session: by the hold, by the failsafe, by the timeout or by  *)
(* a command that takes its place.                                          *)
LEMMA SessionEndStep ==
  ASSUME ViewInv, session \in Sessions,
         NEW code \in {"COMPLETED", "TERMINATED"}, NEW mask \in {"success", "failsafe", "partial"},
         NEW next \in {"COOLDOWN", "IDLE", "RELAY_HOLD"}, V!Ends(code, mask, next),
         mask = "failsafe" => code = "TERMINATED"
  PROVE  ViewInv'
<1> DEFINE finish == V!Event(session, code, eventNo')
           entry == [event |-> finish, mask |-> mask]
<1>1. /\ eventNo' = eventNo + 1 /\ sink' = Append(sink, entry)
      /\ session' = NoOne /\ fsm' = next /\ UNCHANGED <<bootNo, summary, air, history, live>>
      /\ fate' = [fate EXCEPT ![session] = IF code = "COMPLETED" THEN "completed" ELSE "terminated"]
  BY DEF V!Ends
<1>2. fate[session] = "running" /\ NoOne \notin Sessions /\ bootNo \in Nat /\ eventNo' \in Nat
      /\ DOMAIN fate = Sessions /\ sink \in Seq(Ends)
  BY <1>1, NoOneIsNone DEF ViewInv, ViewTypes, FsmServes
<1>3. finish.session = session /\ finish.code = code
      /\ finish \in [session : Sessions, code : {"COMPLETED", "TERMINATED"}, seq : Nat, boot : Nat]
  BY <1>2 DEF V!Event
<1> HIDE DEF finish
<1>4. entry \in Ends /\ entry.event = finish /\ entry.mask = mask
  BY <1>3 DEF Ends
<1> HIDE DEF entry
<1>5. /\ fate'[session] = (IF code = "COMPLETED" THEN "completed" ELSE "terminated") /\ DOMAIN fate' = Sessions
      /\ \A r \in Sessions : r # session => fate'[r] = fate[r]
  BY <1>1, <1>2
<1>6. ViewTypes'
  BY <1>1, <1>2, <1>4, <1>5 DEF ViewTypes
<1>7. FsmServes' /\ EndsStay
  BY <1>1, <1>2, <1>5 DEF FsmServes, EndsStay
<1>8. TrueEntry(fate', entry)
  BY <1>3, <1>4, <1>5 DEF TrueEntry, TrueEvent, TrueEnd, TruePhases
<1>. QED  BY <1>1, <1>4, <1>6, <1>7, <1>8, EventTold

LEMMA RelayOffStep == ASSUME ViewInv, V!RelayOff  PROVE ViewInv'
<1>1. session \in Sessions
  BY DEF V!RelayOff, ViewInv, FsmServes
<1>2. V!Ends("COMPLETED", "success", "COOLDOWN") \/ V!Ends("TERMINATED", "failsafe", "COOLDOWN")
  BY DEF V!RelayOff
<1>. QED  BY <1>1, <1>2, SessionEndStep

LEMMA TerminateStep ==
  ASSUME ViewInv, NEW next \in {"COOLDOWN", "IDLE", "RELAY_HOLD"}, V!Terminate(next)
  PROVE  ViewInv'
<1>1. session \in Sessions /\ V!Ends("TERMINATED", "partial", next)
  BY DEF V!Terminate, ViewInv, FsmServes
<1>. QED  BY <1>1, SessionEndStep

LEMMA CommandStep == ASSUME ViewInv, V!CommandOpens \/ V!CommandEnds  PROVE ViewInv'
<1>1. CASE V!Terminate("RELAY_HOLD")
  BY <1>1, TerminateStep
<1>2. CASE V!CommandOpens /\ ~V!Terminate("RELAY_HOLD")
  <2>1. fsm' = "RELAY_HOLD" /\ UNCHANGED <<bootNo, eventNo, session, sink, summary, air, history, live, fate>>
    BY <1>2 DEF V!CommandOpens
  <2>. QED  BY <2>1 DEF ViewInv, ViewTypes, FsmServes
<1>3. CASE V!CommandEnds
  <2>1. fsm' = "COOLDOWN" /\ summary'.session = NoOne
        /\ UNCHANGED <<bootNo, eventNo, session, sink, air, history, live, fate>>
    BY <1>3 DEF V!CommandEnds, V!NoSummary
  <2>2. TrueSummary(fate', summary')
    BY <2>1 DEF TrueSummary
  <2>. QED  BY <2>1, <2>2 DEF ViewInv, ViewTypes, FsmServes
<1>. QED  BY <1>1, <1>2, <1>3

LEMMA DrainStep == ASSUME ViewInv, V!Drain  PROVE ViewInv'
<1> DEFINE n == Head(sink)
<1>1. /\ sink # <<>> /\ sink' = Tail(sink) /\ air' = air \cup {n.event}
      /\ UNCHANGED <<bootNo, eventNo, fsm, session, history, live, fate>>
  BY DEF V!Drain
<1>2. summary' = summary \/ \E mask \in {"partial", n.mask} :
        summary' = [session |-> n.event.session, code |-> n.event.code, seq |-> n.event.seq, mask |-> mask]
  BY DEF V!Drain
<1>3. /\ sink' \in Seq(Ends) /\ n = sink[1] /\ 1 \in 1..Len(sink)
      /\ \A i \in 1..Len(sink') : i + 1 \in 1..Len(sink) /\ sink'[i] = sink[i + 1]
  BY <1>1 DEF ViewInv, ViewTypes
<1>4. TrueEntry(fate, n)
  BY <1>3 DEF ViewInv
<1> HIDE DEF n
<1>5. TrueSummary(fate', summary')
  <2>1. CASE summary' = summary
    BY <1>1, <2>1 DEF ViewInv
  <2>2. ASSUME NEW mask \in {"partial", n.mask}, summary'.session = n.event.session,
               summary'.code = n.event.code, summary'.mask = mask
        PROVE  TrueSummary(fate', summary')
    BY <1>1, <1>4, <2>2 DEF TrueSummary, TrueEntry, TrueEvent, TruePhases
  <2>. QED  BY <1>2, <2>1, <2>2
<1>6. \A i \in 1..Len(sink') : TrueEntry(fate', sink'[i])
  BY <1>1, <1>3 DEF ViewInv
<1>7. ViewTypes' /\ FsmServes'
  BY <1>1, <1>3 DEF ViewInv, ViewTypes, FsmServes
<1>8. \A e \in air' \cup history' : TrueEvent(fate', e)
  BY <1>1, <1>4 DEF ViewInv, TrueEntry
<1>. QED  BY <1>1, <1>5, <1>6, <1>7, <1>8 DEF ViewInv

(* A reset takes the session that ran, and no other.                        *)
LEMMA TargetReset == ASSUME ViewInv, V!Reset  PROVE ViewInv'
<1>1. /\ bootNo' = bootNo + 1 /\ eventNo' = 0 /\ fsm' = "IDLE" /\ session' = NoOne
      /\ sink' = <<>> /\ summary'.session = NoOne
      /\ fate' = [s \in Sessions |-> IF s = session THEN "reset" ELSE fate[s]]
      /\ UNCHANGED <<air, history, live>>
  BY DEF V!Reset, V!NoSummary
<1>2. EndsStay
  BY <1>1, NoOneIsNone DEF EndsStay, ViewInv, FsmServes
<1>3. ViewTypes' /\ FsmServes' /\ TrueSummary(fate', summary') /\ Len(sink') = 0
  BY <1>1 DEF ViewInv, ViewTypes, FsmServes, TrueSummary
<1>. QED  BY <1>1, <1>2, <1>3, StillTrue DEF ViewInv

LEMMA ViewStep == ASSUME ViewInv, [V!Next]_V!vvars  PROVE ViewInv'
<1>1. CASE V!CooldownEnds
  BY <1>1 DEF V!CooldownEnds, ViewInv, ViewTypes, FsmServes
<1>2. CASE V!Arrive
  BY <1>2 DEF V!Arrive, ViewInv, ViewTypes, FsmServes
<1>3. CASE V!Status
  <2>1. live'.last = summary /\ UNCHANGED <<bootNo, eventNo, fsm, session, sink, summary, air, history, fate>>
    BY <1>3 DEF V!Status
  <2>. QED  BY <2>1 DEF ViewInv, ViewTypes, FsmServes
<1>4. CASE V!Ages
  <2>1. live'.last.session = NoOne /\ UNCHANGED <<bootNo, eventNo, fsm, session, sink, summary, air, history, fate>>
    BY <1>4 DEF V!Ages, V!NoStatus, V!NoSummary
  <2>. QED  BY <2>1 DEF ViewInv, ViewTypes, FsmServes, TrueSummary
<1>5. CASE UNCHANGED V!vvars
  BY <1>5 DEF V!vvars, ViewInv, ViewTypes, FsmServes
<1>. QED
  BY <1>1, <1>2, <1>3, <1>4, <1>5, VerifiedStep, RelayOnStep, RelayOffStep, TerminateStep, CommandStep,
     DrainStep, TargetReset DEF V!Next

LEMMA ViewAlways == Spec => [](part = "session" => ViewInv)
<1>1. Init => (part = "session" => ViewInv)
  BY ViewInit DEF Init
<1>2. (part = "session" => ViewInv) /\ [Next]_vars => (part = "session" => ViewInv)'
  <2> SUFFICES ASSUME part = "session" => ViewInv, [Next]_vars, part' = "session"
               PROVE  ViewInv'
    OBVIOUS
  <2>1. part = "session" /\ [V!Next]_V!vvars
    BY DEF Next, vars, V!vvars
  <2>. QED  BY <2>1, ViewStep
<1>. QED  BY <1>1, <1>2, PTL DEF Spec

LEMMA ViewSafe == ASSUME ViewInv  PROVE V!AnswerIsTrue
<1> SUFFICES ASSUME NEW s \in Sessions
             PROVE  /\ V!Answer(s) = "complete" => fate[s] = "completed"
                    /\ V!Answer(s) = "terminated" => fate[s] = "terminated"
                    /\ V!NextAuthReady(s) => fate[s] \in {"completed", "terminated"}
  BY DEF V!AnswerIsTrue
<1>1. V!SignedTermination(s) => fate[s] = "terminated"
  BY DEF V!SignedTermination, V!Terminals, V!Matched, ViewInv, TrueEvent, TrueEnd
<1>2. V!OwnSummary(s) => TrueEnd(fate, s, live.last.code) /\ TruePhases(fate, s, live.last.mask)
  BY NoOneIsNone DEF V!OwnSummary, ViewInv, TrueSummary
<1>3. V!Completed(s) => fate[s] = "completed"
  BY <1>2 DEF V!Completed, V!Succeeded, V!SummaryValid, TrueEnd
<1>4. V!Terminated(s) => fate[s] = "terminated"
  BY <1>1, <1>2 DEF V!Terminated, V!SummaryValid, TrueEnd, TruePhases
<1>5. V!Answer(s) = "complete" => V!Completed(s)
  BY DEF V!Answer
<1>6. V!Answer(s) = "terminated" => V!Terminated(s)
  BY DEF V!Answer
<1>7. V!NextAuthReady(s) => V!SignedTermination(s) \/ V!Completed(s) \/ V!Terminated(s)
  BY DEF V!NextAuthReady, V!TerminationReady
<1>. QED  BY <1>1, <1>3, <1>4, <1>5, <1>6, <1>7

(* A phone that is told of an end is told the one its own session had, and   *)
(* to present itself again only when its session is over, whatever was      *)
(* lost, came late or was overwritten (_personal_access_session, main.py).  *)
THEOREM AnswersAlwaysTrue == Spec => []AnswerIsTrue
<1>1. (part = "session" => ViewInv) => AnswerIsTrue
  BY ViewSafe DEF AnswerIsTrue
<1>. QED  BY <1>1, ViewAlways, PTL

HIDE DEF bootNo, eventNo, fsm, session, sink, summary, air, history, live, fate

-----------------------------------------------------------------------------
(* EventStream.                                                            *)
(*                                                                         *)
(* An event enters the order when it waits for none, and then everything   *)
(* it follows is in the order, because the nearest of them is.  The code   *)
(* goes back over causes and chooses the required chain by recursion; the  *)
(* functions are shown to exist, the ancestors to be the least set that    *)
(* holds the past of an event, and chosen events to be before each other.  *)
collected == x1
unread    == x2
unique    == x3
phase     == x4
left      == x5
order     == x6
USE DEF collected, unread, unique, phase, left, order

(* The events an event still waits for.                                     *)
Waiting(e) == {x \in unique : S!Edge(x, e) /\ x \notin S!Range(order)}

EventsKept ==
  /\ collected \in Streams /\ unread \subseteq collected /\ unique \subseteq collected
  /\ \A e \in unique : e.valid
  /\ \A x, y \in unique : x.id = y.id \/ (S!Producer(x) = S!Producer(y) /\ x.seq = y.seq) => x = y

(* The order as far as it is known: no event twice, and none before what it  *)
(* follows; what is left of an event are those it waits for.                 *)
OrderGrows ==
  /\ phase \in {"read", "order", "judge", "passed", "refused"}
  /\ order \in Seq(unique) /\ Cardinality(S!Range(order)) = Len(order)
  /\ \A i, j \in 1..Len(order) : order[i] = order[j] => i = j
  /\ phase = "read" => order = <<>>
  /\ phase = "order" => left = [e \in unique |-> Cardinality(Waiting(e))]
  /\ \A i \in 1..Len(order), x \in unique :
       S!Follows(order[i], x) => \E j \in 1..i-1 : order[j] = x
  /\ phase \in {"judge", "passed"} => S!Range(order) = unique

(* Every session has a terminal event.                                      *)
HasTerminal ==
  phase \in {"order", "judge", "passed"} =>
    \A x \in unique : \E e \in unique : e.session = x.session /\ e.code \in S!Terminals

(* The verdict, without the recursion by which the code goes backwards: x is *)
(* before y when it is in every set with the predecessors of y and those of  *)
(* its members.                                                             *)
HoldsPast(past, y) ==
  \A w \in unique : S!Edge(w, y) \/ (\E v \in past : S!Edge(w, v)) => w \in past
Before(x, y) == x = y \/ \A past \in SUBSET unique : HoldsPast(past, y) => x \in past

TerminalOf(events) == CHOOSE e \in events : e.code \in S!Terminals
EarnedBy(end) ==
  /\ end.code = "COMPLETED" /\ end.kind = "access" /\ S!AccessPath = "local" =>
       \A on \in unique : on.code = "RELAY_ON" => \E p \in unique : p.code = "PROOF" /\ Before(p, on)
  /\ end.code = "RESET" => \A e \in unique : S!Target(e) /\ e.boot # end.boot => Before(e, end)
  /\ end.code = "COMPLETED" /\ end.kind = "update" /\ end.part = "target" =>
       \E i, b \in unique : i.code = "INSTALLED" /\ b.code = "BOOTED" /\ Before(i, b) /\ i.at # b.at
JudgedSound == phase = "passed" => EarnedBy(TerminalOf(unique))

StreamInv == EventsKept /\ OrderGrows /\ HasTerminal /\ JudgedSound

LEMMA SameSize == ASSUME NEW T  PROVE S!Cardinality(T) = Cardinality(T)
  BY DEF S!Cardinality, Cardinality

LEMMA EventFacts ==
  ASSUME EventsKept
  PROVE  /\ IsFiniteSet(unique)
         /\ \A e \in unique : /\ e.id \in Nat /\ e.source \in Nat /\ e.boot \in Nat /\ e.seq \in Nat
                             /\ e.wall \in Nat /\ (e.code = "RESET" => e.kind = "access")
         /\ \A x, y \in unique :
              S!Target(x) /\ S!Target(y) /\ x.boot = y.boot => S!Producer(x) = S!Producer(y)
<1>1. IsFiniteSet(collected)
  BY PartsAssumption DEF S!StreamsAssumption, S!IsFiniteSet, IsFiniteSet, EventsKept
<1>2. IsFiniteSet(unique)
  BY <1>1, FS_Subset DEF EventsKept
<1>3. \A e \in unique : /\ e.id \in Nat /\ e.source \in Nat /\ e.boot \in Nat /\ e.seq \in Nat
                       /\ e.wall \in Nat /\ (e.code = "RESET" => e.kind = "access")
  BY PartsAssumption DEF S!StreamsAssumption, EventsKept
<1>4. \A x, y \in unique :
        S!Target(x) /\ S!Target(y) /\ x.boot = y.boot => S!Producer(x) = S!Producer(y)
  BY PartsAssumption DEF S!StreamsAssumption, EventsKept, S!Target, S!Producer
<1>. QED  BY <1>2, <1>3, <1>4

(* Between an event and a later one of its producer stands the one that the *)
(* graph puts before the latter.                                            *)
LEMMA NeighbourBefore ==
  ASSUME EventsKept, NEW x \in unique, NEW y \in unique, S!Producer(x) = S!Producer(y), x.seq < y.seq
  PROVE  \E w \in unique : S!Edge(w, y) /\ S!Producer(w) = S!Producer(y) /\ x.seq <= w.seq /\ w.seq < y.seq
<1> DEFINE Between(w) == S!Producer(w) = S!Producer(y) /\ x.seq <= w.seq /\ w.seq < y.seq
           T == {n \in Nat : \E w \in unique : Between(w) /\ n = y.seq - w.seq}
<1>1. \A e \in unique : e.seq \in Nat
  BY EventFacts
<1>2. y.seq - x.seq \in T
  BY <1>1
<1>3. PICK m \in T : \A k \in T : m <= k
  <2> HIDE DEF T
  <2>1. T \subseteq Nat
    BY DEF T
  <2>. QED  BY <1>2, <2>1, LeastNumber
<1>4. PICK w \in unique : Between(w) /\ m = y.seq - w.seq
  OBVIOUS
<1>5. ASSUME NEW z \in unique, S!Producer(z) = S!Producer(w), w.seq < z.seq, z.seq < y.seq
      PROVE  FALSE
  <2>1. Between(z) /\ y.seq - z.seq \in Nat
    BY <1>1, <1>4, <1>5
  <2>2. y.seq - z.seq \in T
    BY <2>1
  <2>3. m <= y.seq - z.seq
    BY <1>3, <2>2
  <2>. QED  BY <1>1, <1>4, <1>5, <2>3
<1>. QED  BY <1>4, <1>5 DEF S!Edge

(* The order.                                                               *)
LEMMA StreamInit == S!Init => StreamInv
<1> SUFFICES ASSUME S!Init  PROVE StreamInv
  OBVIOUS
<1>1. /\ collected \in Streams /\ unread = collected /\ unique = {} /\ phase = "read" /\ order = <<>>
  BY DEF S!Init
<1>2. order \in Seq(unique) /\ Len(order) = 0 /\ 1..Len(order) = {}
  BY <1>1
<1>3. EventsKept
  BY <1>1 DEF EventsKept
<1>4. OrderGrows
  <2>1. S!Range(order) = {} /\ Cardinality({}) = 0
    BY <1>1, FS_EmptySet DEF S!Range
  <2>. QED  BY <1>1, <1>2, <2>1 DEF OrderGrows
<1>. QED  BY <1>1, <1>3, <1>4 DEF StreamInv, HasTerminal, JudgedSound

LEMMA RefuseStep == ASSUME StreamInv, S!Refuse  PROVE StreamInv'
<1>1. phase' = "refused" /\ UNCHANGED <<collected, unread, unique, left, order>>
  BY DEF S!Refuse
<1>. QED
  BY <1>1 DEF StreamInv, EventsKept, OrderGrows, HasTerminal, JudgedSound, S!Follows, S!Producer, S!Range

LEMMA ReadStep == ASSUME StreamInv, S!Read  PROVE StreamInv'
<1>1. PICK e \in unread :
        \/ (~e.valid \/ S!Conflicts(e)) /\ S!Refuse
        \/ /\ e.valid /\ ~S!Conflicts(e)
           /\ unread' = unread \ {e}
           /\ unique' = IF \E p \in unique : p.id = e.id THEN unique ELSE unique \cup {e}
           /\ UNCHANGED <<collected, phase, left, order>>
  BY DEF S!Read
<1>2. phase = "read" /\ order = <<>>
  BY DEF S!Read, StreamInv, OrderGrows
<1>3. CASE S!Refuse
  BY <1>3, RefuseStep
<1>4. CASE /\ e.valid /\ ~S!Conflicts(e)
           /\ unread' = unread \ {e}
           /\ unique' = IF \E p \in unique : p.id = e.id THEN unique ELSE unique \cup {e}
           /\ UNCHANGED <<collected, phase, left, order>>
  <2>1. EventsKept'
    BY <1>1, <1>4 DEF EventsKept, StreamInv, S!Conflicts, S!Producer
  <2>2. order' = <<>> /\ Len(<<>>) = 0 /\ <<>> \in Seq(unique')
    BY <1>2, <1>4
  <2>. QED  BY <1>2, <1>4, <2>1, <2>2 DEF StreamInv, OrderGrows, HasTerminal, JudgedSound, S!Range
<1>. QED  BY <1>1, <1>3, <1>4

LEMMA ValidateStep == ASSUME StreamInv, S!Validate  PROVE StreamInv'
<1>1. CASE S!Refuse
  BY <1>1, RefuseStep
<1>2. CASE /\ S!StreamSound /\ phase' = "order"
           /\ left' = [e \in unique |-> S!Cardinality({x \in unique : S!Edge(x, e)})]
           /\ UNCHANGED <<collected, unread, unique, order>>
  <2>1. order = <<>> /\ S!Range(order) = {}
    BY DEF S!Validate, StreamInv, OrderGrows, S!Range
  <2>2. \A e \in unique : Waiting(e)' = {x \in unique : S!Edge(x, e)}
    BY <1>2, <2>1 DEF Waiting, S!Edge, S!Producer, S!Range
  <2>3. left' = [e \in unique |-> Cardinality(Waiting(e)')]
    BY <1>2, <2>2, SameSize
  <2>4. OrderGrows'
    BY <1>2, <2>1, <2>3 DEF StreamInv, OrderGrows, S!Range
  <2>5. \A x \in unique : \E e \in unique : e.session = x.session /\ e.code \in S!Terminals
    <3> SUFFICES ASSUME NEW x \in unique
                 PROVE  {e \in S!EventsOf(x.session) : e.code \in S!Terminals} # {}
      BY DEF S!EventsOf
    <3>1. Cardinality({e \in S!EventsOf(x.session) : e.code \in S!Terminals}) = 1
      BY <1>2, SameSize DEF S!StreamSound, S!SessionIds
    <3>. QED  BY <3>1, FS_EmptySet
  <2>6. EventsKept' /\ HasTerminal' /\ JudgedSound'
    BY <1>2, <2>5 DEF StreamInv, EventsKept, HasTerminal, JudgedSound, S!Producer, S!Terminals
  <2>. QED  BY <2>4, <2>6 DEF StreamInv
<1>. QED  BY <1>1, <1>2 DEF S!Validate

(* An event that waits for none follows only events of the order.           *)
LEMMA ReadyFollows ==
  ASSUME StreamInv, phase = "order", NEW e \in S!Ready, NEW x \in unique, S!Follows(e, x)
  PROVE  \E j \in 1..Len(order) : order[j] = x
<1>1. e \in unique /\ left[e] = 0 /\ left[e] = Cardinality(Waiting(e))
  BY DEF S!Ready, StreamInv, OrderGrows
<1>2. IsFiniteSet(Waiting(e))
  BY EventFacts, FS_Subset DEF StreamInv, Waiting
<1>3. Waiting(e) = {}
  BY <1>1, <1>2, FS_EmptySet
<1>4. \A w \in unique : S!Edge(w, e) => \E j \in 1..Len(order) : order[j] = w
  BY <1>3 DEF Waiting, S!Range, StreamInv, OrderGrows
<1>5. CASE e.cause = x.id
  BY <1>4, <1>5 DEF S!Edge
<1>6. CASE S!Producer(e) = S!Producer(x) /\ x.seq < e.seq
  <2>1. PICK w \in unique : S!Edge(w, e) /\ S!Producer(w) = S!Producer(e) /\ x.seq <= w.seq
    BY <1>1, <1>6, NeighbourBefore DEF StreamInv
  <2>2. PICK j \in 1..Len(order) : order[j] = w
    BY <1>4, <2>1
  <2>3. CASE x.seq = w.seq
    BY <1>6, <2>1, <2>2, <2>3 DEF StreamInv, EventsKept
  <2>4. CASE x.seq < w.seq
    <3>1. S!Follows(order[j], x)
      BY <1>6, <2>1, <2>2, <2>4 DEF S!Follows
    <3>2. PICK k \in 1..j-1 : order[k] = x
      BY <3>1 DEF StreamInv, OrderGrows
    <3>3. k \in 1..Len(order)
      BY <3>2 DEF StreamInv, OrderGrows
    <3>. QED  BY <3>2, <3>3
  <2>5. x.seq = w.seq \/ x.seq < w.seq
    BY <2>1, EventFacts DEF StreamInv
  <2>. QED  BY <2>3, <2>4, <2>5
<1>. QED  BY <1>5, <1>6 DEF S!Follows

LEMMA OrderStep == ASSUME StreamInv, S!Order  PROVE StreamInv'
<1>1. PICK e \in S!Ready : /\ order' = Append(order, e)
                           /\ left' = [x \in unique |-> IF S!Edge(e, x) THEN left[x] - 1 ELSE left[x]]
  BY DEF S!Order
<1>2. phase = "order" /\ UNCHANGED <<collected, unread, unique, phase>>
  BY DEF S!Order
<1>3. e \in unique /\ e \notin S!Range(order) /\ order \in Seq(unique)
  BY DEF S!Ready, StreamInv, OrderGrows
<1>4. /\ order' \in Seq(unique) /\ Len(order') = Len(order) + 1 /\ Len(order) \in Nat
      /\ order'[Len(order) + 1] = e /\ \A i \in 1..Len(order) : order'[i] = order[i]
  BY <1>1, <1>3
<1>5. S!Range(order') = S!Range(order) \cup {e}
  BY <1>3, <1>4 DEF S!Range
<1>6. Cardinality(S!Range(order')) = Len(order')
  <2>1. S!Range(order) \subseteq unique
    BY <1>3 DEF S!Range
  <2>2. IsFiniteSet(S!Range(order))
    BY <2>1, EventFacts, FS_Subset DEF StreamInv
  <2>3. Cardinality(S!Range(order) \cup {e}) = Cardinality(S!Range(order)) + 1
    BY <1>3, <2>2, FS_AddElement
  <2>. QED  BY <1>4, <1>5, <2>3 DEF StreamInv, OrderGrows
<1>7. ASSUME NEW x \in unique
      PROVE  left'[x] = Cardinality(Waiting(x)')
  <2>1. IsFiniteSet(Waiting(x)) /\ left[x] = Cardinality(Waiting(x))
    BY <1>2, EventFacts, FS_Subset DEF StreamInv, OrderGrows, Waiting
  <2>2. Waiting(x)' = Waiting(x) \ {e}
    BY <1>2, <1>5 DEF Waiting, S!Edge, S!Producer
  <2>3. e \in Waiting(x) <=> S!Edge(e, x)
    BY <1>3 DEF Waiting
  <2>4. Cardinality(Waiting(x) \ {e}) = IF S!Edge(e, x) THEN left[x] - 1 ELSE left[x]
    BY <2>1, <2>3, FS_RemoveElement
  <2>. QED  BY <1>1, <2>2, <2>4
<1>8. left' = [x \in unique |-> Cardinality(Waiting(x)')]
  BY <1>1, <1>7
<1>9. ASSUME NEW i \in 1..Len(order'), NEW x \in unique, S!Follows(order'[i], x)
      PROVE  \E j \in 1..i-1 : order'[j] = x
  <2>1. CASE i \in 1..Len(order)
    <3>1. PICK j \in 1..i-1 : order[j] = x
      BY <1>4, <1>9, <2>1 DEF StreamInv, OrderGrows
    <3>. QED  BY <1>4, <2>1, <3>1
  <2>2. CASE i = Len(order) + 1
    <3>1. PICK j \in 1..Len(order) : order[j] = x
      BY <1>2, <1>4, <1>9, <2>2, ReadyFollows
    <3>. QED  BY <1>4, <2>2, <3>1
  <2>. QED  BY <1>4, <2>1, <2>2
<1>10. \A i, j \in 1..Len(order') : order'[i] = order'[j] => i = j
  BY <1>3, <1>4 DEF StreamInv, OrderGrows, S!Range
<1>11. OrderGrows'
  BY <1>2, <1>4, <1>6, <1>8, <1>9, <1>10 DEF OrderGrows, S!Follows, S!Producer
<1>12. EventsKept' /\ HasTerminal' /\ JudgedSound'
  BY <1>2 DEF StreamInv, EventsKept, HasTerminal, JudgedSound, S!Producer, S!Terminals
<1>. QED  BY <1>11, <1>12 DEF StreamInv

LEMMA OrderedStep == ASSUME StreamInv, S!Ordered  PROVE StreamInv'
<1>1. /\ phase = "order" /\ UNCHANGED <<collected, unread, unique, left, order>>
      /\ phase' = IF Len(order) = Cardinality(unique) THEN "judge" ELSE "refused"
  BY SameSize DEF S!Ordered
<1>2. Len(order) = Cardinality(unique) => S!Range(order) = unique
  <2>1. S!Range(order) \subseteq unique /\ Cardinality(S!Range(order)) = Len(order)
    BY DEF StreamInv, OrderGrows, S!Range
  <2>. QED  BY <2>1, EventFacts, FS_Subset DEF StreamInv
<1>3. OrderGrows'
  BY <1>1, <1>2 DEF StreamInv, OrderGrows, S!Follows, S!Producer, S!Range
<1>4. EventsKept' /\ HasTerminal' /\ JudgedSound'
  BY <1>1 DEF StreamInv, EventsKept, HasTerminal, JudgedSound, S!Producer, S!Terminals
<1>. QED  BY <1>3, <1>4 DEF StreamInv

LEMMA SameVerdict == ASSUME UNCHANGED <<unique, order>>  PROVE EarnedBy(TerminalOf(unique)) => EarnedBy(TerminalOf(unique))'
<1>1. \A x, y : Before(x, y)' <=> Before(x, y)
  BY DEF Before, HoldsPast, S!Edge, S!Producer
<1>2. TerminalOf(unique)' = TerminalOf(unique) /\ S!AccessPath' = S!AccessPath
  BY DEF TerminalOf, S!AccessPath, S!Pathful
<1>. QED  BY <1>1, <1>2 DEF EarnedBy, S!Target

(* Recursive functions over the recorded events.  There is a function that  *)
(* starts with `first' and takes the steps `step', whatever these are: of   *)
(* the lengths for which there is none, none is the least.                  *)
LEMMA StepsHaveAFunction ==
  ASSUME NEW T, NEW first \in T, NEW bound \in Nat, NEW step \in [1..bound -> [T -> T]]
  PROVE  \E f \in [0..bound -> T] :
           f[0] = first /\ \A n \in 1..bound : f[n] = step[n][f[n-1]]
<1> DEFINE Good(n, f) == f[0] = first /\ \A k \in 1..n : f[k] = step[k][f[k-1]]
           none == {n \in 0..bound : ~ \E f \in [0..n -> T] : Good(n, f)}
<1>1. none = {}
  <2> SUFFICES ASSUME none # {}  PROVE FALSE
    OBVIOUS
  <2>1. PICK m \in none : \A k \in none : m <= k
    <3>1. none \subseteq Nat
      OBVIOUS
    <3> HIDE DEF none
    <3>. QED  BY <3>1, LeastNumber
  <2>2. m # 0
    <3>1. [n \in 0..0 |-> first] \in [0..0 -> T] /\ Good(0, [n \in 0..0 |-> first])
      OBVIOUS
    <3>. QED  BY <3>1
  <2>3. m \in 0..bound /\ m - 1 \in 0..bound
    BY <2>1, <2>2
  <2>4. m - 1 \notin none
    <3> HIDE DEF none
    <3>. QED  BY <2>1, <2>3
  <2>5. PICK g \in [0..m-1 -> T] : Good(m - 1, g)
    <3> HIDE DEF Good
    <3>. QED  BY <2>3, <2>4
  <2> DEFINE f == [n \in 0..m |-> IF n = m THEN step[m][g[m-1]] ELSE g[n]]
  <2>6. f \in [0..m -> T]
    <3>1. step[m][g[m-1]] \in T
      BY <2>2, <2>3
    <3>. QED  BY <2>3, <3>1
  <2>7. Good(m, f)
    BY <2>2, <2>3, <2>5
  <2>8. m \notin none
    <3> HIDE DEF Good, f
    <3>. QED  BY <2>6, <2>7
  <2>. QED  BY <2>1, <2>8
<1>2. \E f \in [0..bound -> T] : Good(bound, f)
  <2> HIDE DEF Good
  <2>. QED  BY <1>1
<1>. QED  BY <1>2

(* The predecessors of an event, those of these, and so on.                 *)
Nearest(e) == {x \in unique : S!Edge(x, e)}
Grown(past) == past \cup {x \in unique : \E y \in past : S!Edge(x, y)}
Pasts == SUBSET unique
Layers(e, size, up) == up = [n \in 0..size |-> IF n = 0 THEN Nearest(e) ELSE Grown(up[n-1])]

LEMMA AncestorLayers ==
  ASSUME EventsKept, NEW e
  PROVE  \E up : Layers(e, Cardinality(unique), up) /\ S!Ancestors(e) = up[Cardinality(unique)]
<1> DEFINE size == Cardinality(unique)
           step == [n \in 1..size |-> [past \in Pasts |-> Grown(past)]]
<1>1. size \in Nat
  BY EventFacts, FS_CardinalityType
<1>2. Nearest(e) \in Pasts /\ \A past \in Pasts : Grown(past) \in Pasts
  BY DEF Grown, Nearest, Pasts
<1>3. step \in [1..size -> [Pasts -> Pasts]]
  BY <1>2
<1>4. \A n \in 1..size, past \in Pasts : step[n][past] = Grown(past)
  OBVIOUS
<1>5. PICK f \in [0..size -> Pasts] :
        f[0] = Nearest(e) /\ \A n \in 1..size : f[n] = step[n][f[n-1]]
  <2> HIDE DEF step, size
  <2>. QED  BY <1>1, <1>2, <1>3, StepsHaveAFunction
<1>6. Layers(e, size, f)
  <2> HIDE DEF step, size
  <2>1. \A n \in 1..size : f[n-1] \in Pasts
    BY <1>1
  <2>2. \A n \in 0..size : f[n] = IF n = 0 THEN Nearest(e) ELSE Grown(f[n-1])
    BY <1>1, <1>4, <1>5, <2>1
  <2>. QED  BY <2>2 DEF Layers
<1> DEFINE up == CHOOSE g : Layers(e, size, g)
<1>7. Layers(e, size, up)
  BY <1>6
<1>8. S!Ancestors(e) = up[size]
  BY SameSize DEF S!Ancestors, Layers, Nearest, Grown
<1>. QED  BY <1>7, <1>8

LEMMA LayerFacts ==
  ASSUME NEW e, NEW size \in Nat, NEW up, Layers(e, size, up)
  PROVE  up[0] = Nearest(e) /\ \A n \in 1..size : up[n] = Grown(up[n-1])
  BY DEF Layers

(* Every layer is within a set that holds the past of the event.            *)
LEMMA LayersWithin ==
  ASSUME NEW e, NEW size \in Nat, NEW up, Layers(e, size, up), NEW past, HoldsPast(past, e)
  PROVE  \A n \in 0..size : up[n] \subseteq past
<1> DEFINE out == {n \in 0..size : ~(up[n] \subseteq past)}
<1>1. up[0] = Nearest(e) /\ \A n \in 1..size : up[n] = Grown(up[n-1])
  BY LayerFacts
<1>2. Nearest(e) \subseteq past /\ \A some : some \subseteq past => Grown(some) \subseteq past
  BY DEF Nearest, Grown, HoldsPast
<1> SUFFICES ASSUME out # {}  PROVE FALSE
  OBVIOUS
<1>3. PICK m \in out : \A k \in out : m <= k
  <2>1. out \subseteq Nat
    OBVIOUS
  <2> HIDE DEF out
  <2>. QED  BY <2>1, LeastNumber
<1>4. m \in 1..size
  BY <1>1, <1>2, <1>3
<1>5. m - 1 \in 0..size /\ m - 1 \notin out
  BY <1>3, <1>4
<1>. QED  BY <1>1, <1>2, <1>3, <1>4, <1>5

LEMMA LayersHoldNearest ==
  ASSUME NEW e, NEW size \in Nat, NEW up, Layers(e, size, up)
  PROVE  \A n \in 0..size : Nearest(e) \subseteq up[n]
<1> DEFINE out == {n \in 0..size : ~(Nearest(e) \subseteq up[n])}
<1>1. up[0] = Nearest(e) /\ \A n \in 1..size : up[n-1] \subseteq up[n]
  BY LayerFacts DEF Grown
<1> SUFFICES ASSUME out # {}  PROVE FALSE
  OBVIOUS
<1>2. PICK m \in out : \A k \in out : m <= k
  <2>1. out \subseteq Nat
    OBVIOUS
  <2> HIDE DEF out
  <2>. QED  BY <2>1, LeastNumber
<1>3. m \in 1..size
  BY <1>1, <1>2
<1>4. m - 1 \in 0..size /\ m - 1 \notin out
  BY <1>2, <1>3
<1>. QED  BY <1>1, <1>2, <1>3, <1>4

(* A layer that does not grow is followed by none that does, so that while  *)
(* they grow the n-th has n events at least.                                *)
LEMMA LayersGrow ==
  ASSUME NEW e, NEW size \in Nat, NEW up, Layers(e, size, up), Grown(up[size]) # up[size]
  PROVE  \A n \in 0..size : Grown(up[n]) # up[n]
<1> DEFINE still == {k \in 0..size : Grown(up[size-k]) = up[size-k]}
<1>1. \A n \in 1..size : up[n] = Grown(up[n-1])
  BY LayerFacts
<1>2. still = {}
  <2> SUFFICES ASSUME still # {}  PROVE FALSE
    OBVIOUS
  <2>1. PICK m \in still : \A k \in still : m <= k
    <3>1. still \subseteq Nat
      OBVIOUS
    <3> HIDE DEF still
    <3>. QED  BY <3>1, LeastNumber
  <2>2. m \in 0..size /\ Grown(up[size-m]) = up[size-m]
    BY <2>1
  <2>3. m # 0
    BY <2>2
  <2>4. size-m+1 \in 1..size /\ (size-m+1)-1 = size-m /\ size-m+1 = size-(m-1) /\ m-1 \in 0..size
    BY <2>2, <2>3
  <2>5. up[size-m+1] = Grown(up[(size-m+1)-1])
    BY <1>1, <2>4
  <2>6. up[size-(m-1)] = up[size-m]
    BY <2>2, <2>4, <2>5
  <2>7. m-1 \in still
    BY <2>2, <2>4, <2>6
  <2>. QED  BY <2>1, <2>2, <2>7
<1>3. ASSUME NEW n \in 0..size
      PROVE  Grown(up[n]) # up[n]
  <2>1. size-n \in 0..size /\ size-(size-n) = n
    OBVIOUS
  <2>. QED  BY <1>2, <2>1
<1>. QED  BY <1>3

LEMMA LayersEnd ==
  ASSUME EventsKept, NEW e, NEW up, Layers(e, Cardinality(unique), up)
  PROVE  Grown(up[Cardinality(unique)]) = up[Cardinality(unique)]
<1> DEFINE size == Cardinality(unique)
           few == {n \in 0..size : ~(n <= Cardinality(up[n]))}
<1>1. size \in Nat /\ IsFiniteSet(unique)
  BY EventFacts, FS_CardinalityType
<1> HIDE DEF size
<1>2. \A n \in 0..size : up[n] \subseteq unique /\ Grown(up[n]) \subseteq unique
  <2>1. HoldsPast(unique, e)
    BY DEF HoldsPast
  <2>2. \A n \in 0..size : up[n] \subseteq unique
    BY <1>1, <2>1, LayersWithin DEF size
  <2>. QED  BY <2>2 DEF Grown
<1>3. \A n \in 0..size : IsFiniteSet(up[n]) /\ Cardinality(up[n]) \in Nat
  BY <1>1, <1>2, FS_Subset, FS_CardinalityType
<1> SUFFICES ASSUME Grown(up[size]) # up[size]  PROVE FALSE
  BY DEF size
<1>4. \A n \in 0..size : Grown(up[n]) # up[n]
  BY <1>1, LayersGrow DEF size
<1>5. \A n \in 1..size : up[n] = Grown(up[n-1])
  BY <1>1, LayerFacts DEF size
<1>6. few = {}
  <2> SUFFICES ASSUME few # {}  PROVE FALSE
    OBVIOUS
  <2>1. PICK m \in few : \A k \in few : m <= k
    <3>1. few \subseteq Nat
      BY <1>1
    <3> HIDE DEF few
    <3>. QED  BY <3>1, LeastNumber
  <2>2. m \in 1..size /\ ~(m <= Cardinality(up[m]))
    BY <1>1, <1>3, <2>1
  <2>3. m-1 \in 0..size /\ m-1 \notin few
    BY <1>1, <2>1, <2>2
  <2>4. m-1 <= Cardinality(up[m-1])
    BY <2>3
  <2>5. up[m] = Grown(up[m-1]) /\ Grown(up[m-1]) # up[m-1] /\ up[m-1] \subseteq Grown(up[m-1])
    BY <1>4, <1>5, <2>2, <2>3 DEF Grown
  <2>6. IsFiniteSet(up[m]) /\ up[m-1] \in SUBSET up[m] /\ up[m-1] # up[m]
    BY <1>3, <2>2, <2>5
  <2>7. Cardinality(up[m-1]) <= Cardinality(up[m]) /\ Cardinality(up[m-1]) # Cardinality(up[m])
    BY <2>6, FS_Subset
  <2>8. Cardinality(up[m-1]) \in Nat /\ Cardinality(up[m]) \in Nat
    BY <1>3, <2>2, <2>3
  <2>. QED  BY <2>2, <2>4, <2>7, <2>8
<1>7. size \in 0..size
  BY <1>1
<1>8. size <= Cardinality(up[size])
  BY <1>6, <1>7
<1>9. up[size] = unique
  <2>1. Cardinality(up[size]) <= Cardinality(unique) /\ (Cardinality(unique) = Cardinality(up[size]) => unique = up[size])
    BY <1>1, <1>2, <1>7, FS_Subset
  <2>. QED  BY <1>1, <1>3, <1>7, <1>8, <2>1 DEF size
<1>. QED  BY <1>9 DEF Grown

(* The ancestors of an event are the least set that holds its past.         *)
LEMMA AncestorsFacts ==
  ASSUME EventsKept, NEW e
  PROVE  /\ S!Ancestors(e) \subseteq unique /\ HoldsPast(S!Ancestors(e), e)
         /\ \A past : HoldsPast(past, e) => S!Ancestors(e) \subseteq past
<1>1. PICK up : Layers(e, Cardinality(unique), up) /\ S!Ancestors(e) = up[Cardinality(unique)]
  BY AncestorLayers
<1>2. Cardinality(unique) \in Nat /\ Cardinality(unique) \in 0..Cardinality(unique)
  BY EventFacts, FS_CardinalityType
<1>3. \A past : HoldsPast(past, e) => S!Ancestors(e) \subseteq past
  BY <1>1, <1>2, LayersWithin
<1>4. S!Ancestors(e) \subseteq unique
  <2>1. HoldsPast(unique, e)
    BY DEF HoldsPast
  <2>. QED  BY <1>3, <2>1
<1>5. Nearest(e) \subseteq S!Ancestors(e)
  BY <1>1, <1>2, LayersHoldNearest
<1>6. Grown(S!Ancestors(e)) = S!Ancestors(e)
  BY <1>1, LayersEnd
<1>7. HoldsPast(S!Ancestors(e), e)
  <2>1. \A w \in unique : S!Edge(w, e) => w \in Nearest(e)
    BY DEF Nearest
  <2>2. \A w \in unique : (\E v \in S!Ancestors(e) : S!Edge(w, v)) => w \in Grown(S!Ancestors(e))
    BY DEF Grown
  <2>. QED  BY <1>5, <1>6, <2>1, <2>2 DEF HoldsPast
<1>. QED  BY <1>3, <1>4, <1>7

LEMMA PrecedesIsBefore ==
  ASSUME EventsKept, NEW x, NEW y
  PROVE  S!Precedes(x, y) <=> Before(x, y)
<1>1. x \in S!Ancestors(y) => \A past \in SUBSET unique : HoldsPast(past, y) => x \in past
  BY AncestorsFacts
<1>2. (\A past \in SUBSET unique : HoldsPast(past, y) => x \in past) => x \in S!Ancestors(y)
  BY AncestorsFacts
<1>. QED  BY <1>1, <1>2 DEF S!Precedes, Before

LEMMA BeforeIsTransitive ==
  ASSUME NEW x, NEW y \in unique, NEW z, Before(x, y), Before(y, z)
  PROVE  Before(x, z)
<1> SUFFICES ASSUME x # y, y # z, NEW past \in SUBSET unique, HoldsPast(past, z)  PROVE x \in past
  BY DEF Before
<1>1. y \in past
  BY DEF Before
<1>2. HoldsPast(past, y)
  BY <1>1 DEF HoldsPast
<1>. QED  BY <1>2 DEF Before

(* What a producer recorded earlier is before what it recorded later.       *)
LEMMA EarlierIsBefore ==
  ASSUME EventsKept, NEW x \in unique, NEW y \in unique, S!Producer(x) = S!Producer(y), x.seq < y.seq
  PROVE  Before(x, y)
<1> SUFFICES ASSUME NEW past \in SUBSET unique, HoldsPast(past, y)  PROVE x \in past
  BY DEF Before
<1> DEFINE Passed(z) == (z = y \/ z \in past) /\ S!Producer(z) = S!Producer(y) /\ x.seq <= z.seq
           T == {n \in Nat : \E z \in unique : Passed(z) /\ n = z.seq - x.seq}
<1>1. \A e \in unique : e.seq \in Nat
  BY EventFacts
<1>2. y.seq - x.seq \in T
  BY <1>1
<1>3. PICK m \in T : \A k \in T : m <= k
  <2>1. T \subseteq Nat
    OBVIOUS
  <2> HIDE DEF T
  <2>. QED  BY <1>2, <2>1, LeastNumber
<1>4. PICK z \in unique : Passed(z) /\ m = z.seq - x.seq
  OBVIOUS
<1>5. CASE z.seq = x.seq
  BY <1>1, <1>4, <1>5 DEF EventsKept
<1>6. CASE x.seq < z.seq
  <2>1. PICK w \in unique : S!Edge(w, z) /\ S!Producer(w) = S!Producer(z) /\ x.seq <= w.seq /\ w.seq < z.seq
    BY <1>4, <1>6, NeighbourBefore
  <2>2. w \in past
    BY <1>4, <2>1 DEF HoldsPast
  <2>3. w.seq - x.seq \in T
    BY <1>1, <1>4, <2>1, <2>2
  <2>4. m <= w.seq - x.seq
    BY <1>3, <2>3
  <2>. QED  BY <1>1, <1>4, <2>1, <2>4
<1>7. z.seq = x.seq \/ x.seq < z.seq
  BY <1>1, <1>4
<1>. QED  BY <1>5, <1>6, <1>7

(* The required chain: what is chosen for each code is after what was       *)
(* chosen for the code before it.                                           *)
NextAt(codes, p, i) ==
  LET later == {k \in p + 1..Len(order) : order[k].code = codes[i]}
  IN  IF p > Len(order) \/ later = {} THEN Len(order) + 1
      ELSE CHOOSE k \in later : \A l \in later : k <= l
Greedy(codes, next) == next = [i \in 0..Len(codes) |-> IF i = 0 THEN 0 ELSE NextAt(codes, next[i-1], i)]

LEMMA NextAtFacts ==
  ASSUME Len(order) \in Nat, NEW codes, NEW p \in 0..Len(order)+1, NEW i
  PROVE  /\ NextAt(codes, p, i) \in 0..Len(order)+1
         /\ NextAt(codes, p, i) <= Len(order) =>
              /\ p <= Len(order) /\ NextAt(codes, p, i) \in 1..Len(order)
              /\ order[NextAt(codes, p, i)].code = codes[i]
<1> DEFINE later == {k \in p + 1..Len(order) : order[k].code = codes[i]}
           first == CHOOSE k \in later : \A l \in later : k <= l
<1>1. CASE p > Len(order) \/ later = {}
  BY <1>1 DEF NextAt
<1>2. CASE ~(p > Len(order) \/ later = {})
  <2>1. first \in later
    <3>1. later \subseteq Nat /\ later # {}
      BY <1>2
    <3> HIDE DEF later
    <3>. QED  BY <3>1, LeastNumber
  <2>2. NextAt(codes, p, i) = first
    BY <1>2 DEF NextAt
  <2> HIDE DEF first
  <2>. QED  BY <1>2, <2>1, <2>2
<1>. QED  BY <1>1, <1>2

LEMMA ChainChoice ==
  ASSUME Len(order) \in Nat, NEW codes, Len(codes) \in Nat
  PROVE  \E next : /\ Greedy(codes, next)
                   /\ S!Chain(codes) <=> /\ next[Len(codes)] <= Len(order)
                                         /\ \A i \in 2..Len(codes) : S!Precedes(order[next[i-1]], order[next[i]])
<1> DEFINE T == 0..Len(order)+1
           step == [i \in 1..Len(codes) |-> [p \in T |-> NextAt(codes, p, i)]]
<1>1. 0 \in T
  OBVIOUS
<1>2. \A p \in T : \A i : NextAt(codes, p, i) \in T
  BY NextAtFacts, Zenon
<1> HIDE DEF T
<1>3. step \in [1..Len(codes) -> [T -> T]]
  BY <1>2
<1>4. \A i \in 1..Len(codes), p \in T : step[i][p] = NextAt(codes, p, i)
  OBVIOUS
<1> HIDE DEF step
<1>5. PICK f \in [0..Len(codes) -> T] : f[0] = 0 /\ \A i \in 1..Len(codes) : f[i] = step[i][f[i-1]]
  BY <1>1, <1>3, StepsHaveAFunction
<1>6. Greedy(codes, f)
  <2>1. \A i \in 1..Len(codes) : f[i-1] \in T
    OBVIOUS
  <2>2. \A i \in 0..Len(codes) : f[i] = IF i = 0 THEN 0 ELSE NextAt(codes, f[i-1], i)
    BY <1>4, <1>5, <2>1
  <2>. QED  BY <2>2 DEF Greedy
<1> DEFINE next == CHOOSE g : Greedy(codes, g)
<1>7. Greedy(codes, next)
  BY <1>6
<1>8. S!Chain(codes) <=> /\ next[Len(codes)] <= Len(order)
                         /\ \A i \in 2..Len(codes) : S!Precedes(order[next[i-1]], order[next[i]])
  BY DEF S!Chain, Greedy, NextAt
<1>. QED  BY <1>7, <1>8

LEMMA GreedyFacts ==
  ASSUME Len(order) \in Nat, NEW codes, Len(codes) \in Nat, NEW next, Greedy(codes, next),
         next[Len(codes)] <= Len(order)
  PROVE  \A i \in 1..Len(codes) : next[i] \in 1..Len(order) /\ order[next[i]].code = codes[i]
<1> DEFINE out == {n \in 0..Len(codes) : next[n] \notin 0..Len(order)+1}
           off == {n \in 0..Len(codes) : ~(next[Len(codes)-n] <= Len(order))}
<1>1. next[0] = 0 /\ \A i \in 1..Len(codes) : next[i] = NextAt(codes, next[i-1], i)
  BY DEF Greedy
<1>2. out = {}
  <2> SUFFICES ASSUME out # {}  PROVE FALSE
    OBVIOUS
  <2>1. PICK m \in out : \A k \in out : m <= k
    <3>1. out \subseteq Nat
      OBVIOUS
    <3> HIDE DEF out
    <3>. QED  BY <3>1, LeastNumber
  <2>2. m \in 1..Len(codes)
    BY <1>1, <2>1
  <2>3. m-1 \in 0..Len(codes) /\ m-1 \notin out
    BY <2>1, <2>2
  <2>4. next[m-1] \in 0..Len(order)+1
    BY <2>3
  <2>5. NextAt(codes, next[m-1], m) \in 0..Len(order)+1
    BY <2>4, NextAtFacts, Zenon
  <2>. QED  BY <1>1, <2>1, <2>2, <2>5
<1>3. \A n \in 0..Len(codes) : next[n] \in 0..Len(order)+1
  BY <1>2
<1>4. ASSUME NEW i \in 1..Len(codes), next[i] <= Len(order)
      PROVE  /\ next[i-1] <= Len(order) /\ next[i] \in 1..Len(order)
             /\ order[next[i]].code = codes[i]
  <2>1. i-1 \in 0..Len(codes)
    OBVIOUS
  <2>2. next[i-1] \in 0..Len(order)+1
    BY <1>3, <2>1
  <2>3. next[i] = NextAt(codes, next[i-1], i)
    BY <1>1
  <2>4. NextAt(codes, next[i-1], i) <= Len(order) =>
          /\ next[i-1] <= Len(order) /\ NextAt(codes, next[i-1], i) \in 1..Len(order)
          /\ order[NextAt(codes, next[i-1], i)].code = codes[i]
    BY <2>2, NextAtFacts, Zenon
  <2>. QED  BY <1>4, <2>3, <2>4
<1>5. off = {}
  <2> SUFFICES ASSUME off # {}  PROVE FALSE
    OBVIOUS
  <2>1. PICK m \in off : \A k \in off : m <= k
    <3>1. off \subseteq Nat
      OBVIOUS
    <3> HIDE DEF off
    <3>. QED  BY <3>1, LeastNumber
  <2>2. m \in 1..Len(codes)
    BY <2>1
  <2>3. m-1 \in 0..Len(codes) /\ m-1 \notin off
    BY <2>1, <2>2
  <2>4. Len(codes)-(m-1) \in 1..Len(codes) /\ (Len(codes)-(m-1))-1 = Len(codes)-m
    BY <2>2
  <2>5. next[Len(codes)-(m-1)] <= Len(order)
    BY <2>3
  <2>6. next[(Len(codes)-(m-1))-1] <= Len(order)
    BY <1>4, <2>4, <2>5
  <2>. QED  BY <2>1, <2>4, <2>6
<1>6. \A i \in 1..Len(codes) : next[i] <= Len(order)
  <2> SUFFICES ASSUME NEW i \in 1..Len(codes)  PROVE next[i] <= Len(order)
    OBVIOUS
  <2>1. Len(codes)-i \in 0..Len(codes) /\ Len(codes)-(Len(codes)-i) = i
    OBVIOUS
  <2>. QED  BY <1>5, <2>1
<1>. QED  BY <1>4, <1>6

(* Of a required chain, whatever was chosen for an earlier code is before   *)
(* what was chosen for a later one.                                         *)
LEMMA ChainIsBefore ==
  ASSUME EventsKept, order \in Seq(unique), NEW codes, Len(codes) \in Nat, S!Chain(codes),
         NEW i \in 1..Len(codes), NEW j \in 1..Len(codes), i < j
  PROVE  \E x, y \in unique : x.code = codes[i] /\ y.code = codes[j] /\ Before(x, y)
<1>1. Len(order) \in Nat /\ \A k \in 1..Len(order) : order[k] \in unique
  OBVIOUS
<1>2. PICK next : /\ Greedy(codes, next) /\ next[Len(codes)] <= Len(order)
                  /\ \A k \in 2..Len(codes) : S!Precedes(order[next[k-1]], order[next[k]])
  BY <1>1, ChainChoice
<1> DEFINE at(k) == order[next[k]]
           late == {k \in Nat : k > i /\ k <= Len(codes) /\ ~Before(at(i), at(k))}
<1>3. \A k \in 1..Len(codes) : at(k) \in unique /\ at(k).code = codes[k]
  BY <1>1, <1>2, GreedyFacts
<1>4. \A k \in 2..Len(codes) : Before(at(k-1), at(k))
  BY <1>2, PrecedesIsBefore
<1> HIDE DEF at
<1>5. late = {}
  <2> SUFFICES ASSUME late # {}  PROVE FALSE
    OBVIOUS
  <2>1. PICK m \in late : \A k \in late : m <= k
    <3>1. late \subseteq Nat
      OBVIOUS
    <3> HIDE DEF late
    <3>. QED  BY <3>1, LeastNumber
  <2>2. m \in 2..Len(codes) /\ m-1 \in 1..Len(codes) /\ ~Before(at(i), at(m))
    BY <2>1
  <2>3. Before(at(m-1), at(m))
    BY <1>4, <2>2
  <2>4. m-1 # i
    BY <2>2, <2>3
  <2>5. m-1 \notin late
    BY <2>1, <2>2
  <2>6. Before(at(i), at(m-1))
    BY <2>1, <2>2, <2>4, <2>5
  <2>. QED  BY <1>3, <2>2, <2>3, <2>6, BeforeIsTransitive
<1>6. Before(at(i), at(j))
  BY <1>5
<1>. QED  BY <1>3, <1>6

(* The verdict.                                                             *)
LEMMA AtMostOne ==
  ASSUME NEW T, IsFiniteSet(T), Cardinality(T) <= 1, NEW x \in T, NEW y \in T
  PROVE  x = y
<1>1. Cardinality(T) \in Nat
  BY FS_CardinalityType
<1>2. Cardinality(T) # 0
  BY FS_EmptySet
<1>3. Cardinality(T) = 1
  BY <1>1, <1>2
<1>. QED  BY <1>3, FS_Singleton

LEMMA TheTerminal ==
  ASSUME StreamInv, phase \in {"order", "judge", "passed"}, unique # {}
  PROVE  S!Terminal = TerminalOf(unique) /\ S!Terminal \in unique
<1>1. \E e \in unique : e.code \in S!Terminals
  BY DEF StreamInv, HasTerminal
<1>. QED  BY <1>1 DEF S!Terminal, TerminalOf

(* A completed local session: the only activation is the chain's, and the   *)
(* chain has a proof before it.                                             *)
LEMMA CompletedIsEarned ==
  ASSUME StreamInv, phase = "judge", S!AccessSound,
         S!Terminal.code = "COMPLETED", S!AccessPath = "local", NEW on \in unique, on.code = "RELAY_ON"
  PROVE  \E p \in unique : p.code = "PROOF" /\ Before(p, on)
<1>2. S!Chain(Required["local"])
  BY DEF S!AccessSound
<1>3. PICK i, j \in 1..Len(Required["local"]) :
        i < j /\ Required["local"][i] = "PROOF" /\ Required["local"][j] = "RELAY_ON"
  BY PartsAssumption DEF S!StreamsAssumption, S!Shows
<1>4. Len(Required["local"]) \in Nat
  BY PartsAssumption DEF S!StreamsAssumption, S!Shows
<1>5. PICK x, y \in unique : x.code = "PROOF" /\ y.code = "RELAY_ON" /\ Before(x, y)
  <2>1. EventsKept /\ order \in Seq(unique)
    BY DEF StreamInv, OrderGrows
  <2>. QED  BY <1>2, <1>3, <1>4, <2>1, ChainIsBefore
<1>6. y = on
  <2>1. Cardinality(S!Of("RELAY_ON")) <= 1
    BY SameSize DEF S!AccessSound, S!RelaySound
  <2>2. IsFiniteSet(S!Of("RELAY_ON"))
    BY EventFacts, FS_Subset DEF StreamInv, S!Of
  <2>3. y \in S!Of("RELAY_ON") /\ on \in S!Of("RELAY_ON")
    BY <1>5 DEF S!Of
  <2>. QED  BY <2>1, <2>2, <2>3, AtMostOne
<1>. QED  BY <1>5, <1>6

(* A completed update of the Target: installation and boot of its chain are  *)
(* of different boots, because all installations and all boots are.          *)
LEMMA UpdateIsEarned ==
  ASSUME StreamInv, phase = "judge", S!UpdateSound,
         S!Terminal.code = "COMPLETED", S!Terminal.part = "target"
  PROVE  \E i, b \in unique : i.code = "INSTALLED" /\ b.code = "BOOTED" /\ Before(i, b) /\ i.at # b.at
<1>1. S!Chain(Required["target"])
      /\ {e.at : e \in S!Of("INSTALLED")} \cap {e.at : e \in S!Of("BOOTED")} = {}
  BY DEF S!UpdateSound
<1>2. PICK k, l \in 1..Len(Required["target"]) :
        k < l /\ Required["target"][k] = "INSTALLED" /\ Required["target"][l] = "BOOTED"
  BY PartsAssumption DEF S!StreamsAssumption, S!Shows
<1>3. Len(Required["target"]) \in Nat
  BY PartsAssumption DEF S!StreamsAssumption, S!Shows
<1>4. PICK i, b \in unique : i.code = "INSTALLED" /\ b.code = "BOOTED" /\ Before(i, b)
  <2>1. EventsKept /\ order \in Seq(unique)
    BY DEF StreamInv, OrderGrows
  <2>. QED  BY <1>1, <1>2, <1>3, <2>1, ChainIsBefore
<1>5. i.at # b.at
  BY <1>1, <1>4 DEF S!Of
<1>. QED  BY <1>4, <1>5

(* A reset: the one former boot is one producer, and its last event is what *)
(* the terminal names.                                                      *)
LEMMA ResetIsEarned ==
  ASSUME StreamInv, phase = "judge", S!AccessSound, S!Terminal.code = "RESET",
         NEW e \in S!Former
  PROVE  Before(e, S!Terminal)
<1> DEFINE end == S!Terminal
           targets == {x \in unique : S!Target(x)}
           boots == {x.boot : x \in targets}
<1>1. S!Target(end) /\ S!NamesLastFormer /\ Cardinality(boots) = 2
  BY SameSize DEF S!AccessSound, S!ResetSound
<1>2. PICK c \in S!Former : c.id = end.cause /\ \A x \in S!Former : S!Position(x) <= S!Position(c)
  BY <1>1 DEF S!NamesLastFormer
<1>3. end \in unique
  BY TheTerminal DEF S!Former
<1>4. \A x \in S!Former : x \in unique /\ S!Target(x) /\ x.boot # end.boot
  BY DEF S!Former
<1> HIDE DEF end
<1>5. e.boot = c.boot
  <2>1. end.boot \in boots /\ e.boot \in boots \ {end.boot} /\ c.boot \in boots \ {end.boot}
    BY <1>1, <1>2, <1>3, <1>4
  <2>2. IsFiniteSet(boots)
    <3>1. IsFiniteSet(targets)
      BY EventFacts, FS_Subset DEF StreamInv
    <3>2. [x \in targets |-> x.boot] \in Surjection(targets, boots)
      BY DEF Surjection
    <3> HIDE DEF targets, boots
    <3>. QED  BY <3>1, <3>2, FS_Surjection
  <2> HIDE DEF boots
  <2>3. IsFiniteSet(boots \ {end.boot}) /\ Cardinality(boots \ {end.boot}) = 1
    BY <1>1, <2>1, <2>2, FS_RemoveElement
  <2>. QED  BY <2>1, <2>3, AtMostOne
<1>6. S!Producer(e) = S!Producer(c)
  BY <1>2, <1>4, <1>5, EventFacts DEF StreamInv
<1>7. Before(c, end)
  BY <1>2, <1>4 DEF Before, HoldsPast, S!Edge
<1>8. CASE e.seq = c.seq
  BY <1>2, <1>4, <1>6, <1>7, <1>8 DEF StreamInv, EventsKept, end
<1>9. CASE e.seq < c.seq
  BY <1>2, <1>3, <1>4, <1>6, <1>7, <1>9, EarlierIsBefore, BeforeIsTransitive DEF StreamInv, end
<1>10. CASE c.seq < e.seq
  <2>1. \A x \in unique : S!Position(x) \in 1..Len(order) /\ order[S!Position(x)] = x
    <3> SUFFICES ASSUME NEW x \in unique
                 PROVE  \E i \in 1..Len(order) : order[i] = x
      BY DEF S!Position
    <3>1. S!Range(order) = unique /\ order \in Seq(unique)
      BY DEF StreamInv, OrderGrows
    <3>. QED  BY <3>1 DEF S!Range
  <2>2. S!Follows(order[S!Position(e)], c)
    BY <1>4, <1>6, <1>10, <2>1 DEF S!Follows
  <2>3. PICK j \in 1..S!Position(e)-1 : order[j] = c
    BY <1>2, <1>4, <2>1, <2>2 DEF StreamInv, OrderGrows
  <2>4. Len(order) \in Nat
    BY DEF StreamInv, OrderGrows
  <2>5. j \in 1..Len(order) /\ j = S!Position(c)
    BY <1>2, <1>4, <2>1, <2>3, <2>4 DEF StreamInv, OrderGrows
  <2>6. S!Position(e) <= S!Position(c)
    BY <1>2
  <2>. QED  BY <1>4, <2>1, <2>3, <2>4, <2>5, <2>6
<1>11. e.seq \in Nat /\ c.seq \in Nat
  BY <1>2, <1>4, EventFacts DEF StreamInv
<1>. QED  BY <1>8, <1>9, <1>10, <1>11

LEMMA JudgeStep == ASSUME StreamInv, S!Judge  PROVE StreamInv'
<1>1. /\ phase = "judge" /\ UNCHANGED <<collected, unread, unique, left, order>>
      /\ phase' \in {"passed", "refused"}
      /\ phase' = "passed" => /\ S!Cardinality(S!SessionIds) = 1
                             /\ \/ (\A e \in unique : e.kind = "update") /\ S!UpdateSound
                                \/ (\A e \in unique : e.kind # "update") /\ S!AccessSound
  BY DEF S!Judge
<1>2. OrderGrows'
  BY <1>1 DEF StreamInv, OrderGrows, S!Follows, S!Producer, S!Range
<1>3. EventsKept' /\ HasTerminal'
  BY <1>1 DEF StreamInv, EventsKept, HasTerminal, S!Producer, S!Terminals
<1>4. ASSUME phase' = "passed"
      PROVE  EarnedBy(TerminalOf(unique))
  <2> DEFINE end == TerminalOf(unique)
  <2>1. unique # {}
    <3>1. Cardinality(S!SessionIds) = 1
      BY <1>1, <1>4, SameSize
    <3>2. S!SessionIds # {}
      BY <3>1, FS_EmptySet
    <3>. QED  BY <3>2 DEF S!SessionIds
  <2>2. end = S!Terminal /\ end \in unique
    BY <1>1, <2>1, TheTerminal
  <2> HIDE DEF end
  <2>3. CASE (\A e \in unique : e.kind = "update") /\ S!UpdateSound
    <3>1. end.kind = "update" /\ end.code # "RESET"
      BY <2>2, <2>3, EventFacts DEF StreamInv
    <3>2. ASSUME end.code = "COMPLETED", end.part = "target"
          PROVE  \E i, b \in unique : i.code = "INSTALLED" /\ b.code = "BOOTED" /\ Before(i, b) /\ i.at # b.at
      BY <1>1, <2>2, <2>3, <3>2, UpdateIsEarned
    <3>. QED  BY <3>1, <3>2 DEF EarnedBy, end
  <2>4. CASE (\A e \in unique : e.kind # "update") /\ S!AccessSound
    <3>1. ASSUME end.code = "COMPLETED", S!AccessPath = "local"
          PROVE  \A on \in unique : on.code = "RELAY_ON" => \E p \in unique : p.code = "PROOF" /\ Before(p, on)
      BY <1>1, <2>2, <2>4, <3>1, CompletedIsEarned
    <3>2. ASSUME end.code = "RESET"
          PROVE  \A e \in unique : S!Target(e) /\ e.boot # end.boot => Before(e, end)
      BY <1>1, <2>2, <2>4, <3>2, ResetIsEarned DEF S!Former
    <3>3. end.kind # "update"
      BY <2>2, <2>4
    <3>. QED  BY <3>1, <3>2, <3>3 DEF EarnedBy, end
  <2>. QED  BY <1>1, <1>4, <2>3, <2>4
<1>5. JudgedSound'
  BY <1>1, <1>4, SameVerdict DEF JudgedSound
<1>. QED  BY <1>2, <1>3, <1>5 DEF StreamInv

LEMMA StreamStep == ASSUME StreamInv, [S!Next]_S!svars  PROVE StreamInv'
<1>1. CASE UNCHANGED S!svars
  <2>1. UNCHANGED <<collected, unread, unique, phase, left, order>>
    BY <1>1 DEF S!svars
  <2>2. EarnedBy(TerminalOf(unique)) => EarnedBy(TerminalOf(unique))'
    BY <2>1, SameVerdict
  <2>3. OrderGrows'
    BY <2>1 DEF StreamInv, OrderGrows, S!Follows, S!Producer, S!Range, Waiting, S!Edge
  <2>4. EventsKept' /\ HasTerminal' /\ JudgedSound'
    BY <2>1, <2>2 DEF StreamInv, EventsKept, HasTerminal, JudgedSound, S!Producer, S!Terminals
  <2>. QED  BY <2>3, <2>4 DEF StreamInv
<1>. QED  BY <1>1, ReadStep, ValidateStep, OrderStep, OrderedStep, JudgeStep DEF S!Next

LEMMA StreamAlways == Spec => [](part = "events" => StreamInv)
<1>1. Init => (part = "events" => StreamInv)
  BY StreamInit DEF Init
<1>2. (part = "events" => StreamInv) /\ [Next]_vars => (part = "events" => StreamInv)'
  <2> SUFFICES ASSUME part = "events" => StreamInv, [Next]_vars, part' = "events"  PROVE StreamInv'
    OBVIOUS
  <2>1. part = "events" /\ [S!Next]_S!svars
    BY DEF Next, vars, S!svars
  <2>. QED  BY <2>1, StreamStep
<1>. QED  BY <1>1, <1>2, PTL DEF Spec

LEMMA StreamIsSafe == ASSUME StreamInv  PROVE S!StreamIsJudged
<1>1. S!OrderIsCausal
  <2>1. S!ToSet(order) = S!Range(order)
    BY DEF S!ToSet, S!Range, StreamInv, OrderGrows
  <2>. QED  BY <2>1 DEF StreamInv, OrderGrows, S!OrderIsCausal
<1>2. ASSUME phase = "passed"
      PROVE  /\ S!Terminal.code = "COMPLETED" /\ S!Terminal.kind = "access" /\ S!AccessPath = "local" =>
                  \A on \in S!Of("RELAY_ON") : \E p \in S!Of("PROOF") : S!Precedes(p, on)
             /\ S!Terminal.code = "RESET" => \A e \in S!Former : S!Precedes(e, S!Terminal)
             /\ S!Terminal.code = "COMPLETED" /\ S!Terminal.kind = "update" /\ S!Terminal.part = "target" =>
                  \E i \in S!Of("INSTALLED"), b \in S!Of("BOOTED") : S!Precedes(i, b) /\ i.at # b.at
  <2>1. EarnedBy(S!Terminal)
    BY <1>2 DEF StreamInv, JudgedSound, TerminalOf, S!Terminal
  <2>2. \A x, y : S!Precedes(x, y) <=> Before(x, y)
    BY PrecedesIsBefore DEF StreamInv
  <2>. QED  BY <2>1, <2>2 DEF EarnedBy, S!Of, S!Former
<1>. QED  BY <1>1, <1>2 DEF S!StreamIsJudged, S!VerdictIsEarned

(* However recorded events were collected, repeated or lost, the order puts *)
(* no event before one that it follows, and what passes as a completed      *)
(* local session or as a reset was earned (order_events,                    *)
(* evaluate_access_session of event_parser.py).                             *)
THEOREM StreamsAlwaysJudged == Spec => []StreamIsJudged
<1>1. (part = "events" => StreamInv) => StreamIsJudged
  BY StreamIsSafe DEF StreamIsJudged
<1>. QED  BY <1>1, StreamAlways, PTL

(* Of two events one has the smaller key, by itself or of three.            *)
LEMMA KeysAreOrdered ==
  ASSUME EventsKept
  PROVE  /\ \A x \in unique : ~S!First(x, x)
         /\ \A x, y \in unique : x # y => S!First(x, y) \/ S!First(y, x)
         /\ \A x, y, z \in unique : S!First(x, y) /\ S!First(y, z) => S!First(x, z)
<1>1. \A x \in unique : x.id \in Nat /\ x.source \in Nat /\ x.boot \in Nat /\ x.seq \in Nat /\ x.wall \in Nat
  BY EventFacts
<1>2. \A x \in unique : ~S!First(x, x)
  BY <1>1 DEF S!First
<1>3. \A x, y \in unique : x # y => S!First(x, y) \/ S!First(y, x)
  BY <1>1 DEF S!First, EventsKept, S!Producer
<1>4. ASSUME NEW x \in unique, NEW y \in unique, NEW z \in unique, S!First(x, y), S!First(y, z)
      PROVE  S!First(x, z)
  <2>1. CASE x.wall # 0
    BY <1>1, <1>4, <2>1 DEF S!First
  <2>2. CASE x.wall = 0
    BY <1>1, <1>4, <2>2 DEF S!First, S!Producer
  <2>. QED  BY <2>1, <2>2
<1>. QED  BY <1>2, <1>3, <1>4

(* One of the events that are ready comes next.                             *)
ComesNext(e) == e \in S!Ready /\ \A x \in S!Ready \ {e} : S!First(e, x)
OneComesNext ==
  (part = "events" /\ phase = "order" /\ S!Ready # {}) =>
    \E e : ComesNext(e) /\ \A d : ComesNext(d) => d = e

LEMMA SomeComesNext == ASSUME EventsKept, S!Ready # {}  PROVE \E e : ComesNext(e)
<1> DEFINE Below(e) == {x \in S!Ready : S!First(x, e)}
           T == {Cardinality(Below(e)) : e \in S!Ready}
<1>1. S!Ready \subseteq unique /\ IsFiniteSet(S!Ready)
  BY EventFacts, FS_Subset DEF S!Ready
<1>2. \A e \in S!Ready : IsFiniteSet(Below(e)) /\ Cardinality(Below(e)) \in Nat
  BY <1>1, FS_Subset, FS_CardinalityType
<1>3. PICK m \in T : \A k \in T : m <= k
  <2>1. T \subseteq Nat /\ T # {}
    BY <1>2
  <2> HIDE DEF T
  <2>. QED  BY <2>1, LeastNumber
<1>4. PICK e \in S!Ready : \A x \in S!Ready : Cardinality(Below(e)) <= Cardinality(Below(x))
  BY <1>3
<1>5. ASSUME NEW x \in S!Ready \ {e}, ~S!First(e, x)
      PROVE  FALSE
  <2>1. S!First(x, e)
    BY <1>1, <1>5, KeysAreOrdered
  <2>2. Below(x) \subseteq Below(e) /\ x \in Below(e) /\ x \notin Below(x)
    BY <1>1, <2>1, KeysAreOrdered
  <2> HIDE DEF Below
  <2>3. Cardinality(Below(x)) <= Cardinality(Below(e)) /\ Cardinality(Below(e)) # Cardinality(Below(x))
    BY <1>2, <2>2, FS_Subset
  <2>. QED  BY <1>2, <1>4, <2>3
<1>. QED  BY <1>5 DEF ComesNext

(* The order does not depend on anything but the events: while some are     *)
(* ready, one and only one of them comes next, however the clocks and the   *)
(* producers are mixed ("Return a deterministic topological order",         *)
(* order_events of event_parser.py).                                        *)
THEOREM OrderIsDetermined == Spec => []OneComesNext
<1>1. (part = "events" => StreamInv) => OneComesNext
  <2> SUFFICES ASSUME EventsKept, S!Ready # {}
               PROVE  \E e : ComesNext(e) /\ \A d : ComesNext(d) => d = e
    BY DEF OneComesNext, StreamInv
  <2>1. PICK e : ComesNext(e)
    BY SomeComesNext
  <2>2. ASSUME NEW d, ComesNext(d), d # e
        PROVE  FALSE
    <3>1. d \in unique /\ e \in unique /\ S!First(d, e) /\ S!First(e, d)
      BY <2>1, <2>2 DEF ComesNext, S!Ready
    <3>. QED  BY <3>1, KeysAreOrdered
  <2>. QED  BY <2>1, <2>2
<1>. QED  BY <1>1, StreamAlways, PTL

(* Some events follow each other in a circle.                               *)
Circle(ring) == ring \subseteq unique /\ ring # {} /\ \A e \in ring : \E x \in ring : S!Edge(x, e)
RefusedForACircle ==
  part = "events" /\ phase = "order" /\ phase' = "refused" => \E ring : Circle(ring)

LEMMA StuckInACircle ==
  ASSUME StreamInv, phase = "order", phase' = "refused", S!Next
  PROVE  \E ring : Circle(ring)
<1> DEFINE ring == unique \ S!Range(order)
<1>1. S!Ready = {} /\ Len(order) # S!Cardinality(unique)
  BY DEF S!Next, S!Read, S!Validate, S!Order, S!Ordered, S!Judge
<1>2. ring # {}
  <2>1. S!Range(order) \subseteq unique
    BY DEF StreamInv, OrderGrows, S!Range
  <2>. QED  BY <1>1, <2>1, SameSize DEF StreamInv, OrderGrows
<1>3. ASSUME NEW e \in ring
      PROVE  \E x \in ring : S!Edge(x, e)
  <2>1. left[e] = Cardinality(Waiting(e)) /\ left[e] # 0
    BY <1>1, <1>3 DEF S!Ready, StreamInv, OrderGrows
  <2>2. Waiting(e) # {}
    BY <2>1, FS_EmptySet
  <2>. QED  BY <2>2 DEF Waiting
<1>. QED  BY <1>2, <1>3 DEF Circle

(* A stream is never refused for its order unless some of its events do     *)
(* follow each other in a circle ("causation/sequence graph contains a      *)
(* cycle", order_events of event_parser.py); one that has a circle is never *)
(* ordered to the end, as StreamIsJudged says.                              *)
THEOREM RefusalMeansACircle == Spec => [][RefusedForACircle]_vars
<1>1. (part = "events" => StreamInv) /\ [Next]_vars => [RefusedForACircle]_vars
  <2> SUFFICES ASSUME part = "events", StreamInv, [Next]_vars, ~UNCHANGED vars,
                      phase = "order", phase' = "refused"
               PROVE  \E ring : Circle(ring)
    BY DEF RefusedForACircle
  <2>1. S!Next
    BY DEF Next, vars
  <2>. QED  BY <2>1, StuckInACircle
<1>. QED  BY <1>1, StreamAlways, PTL DEF Spec

HIDE DEF collected, unread, unique, phase, left, order

=============================================================================
