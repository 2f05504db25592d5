--------------------------- MODULE StartupProofs ---------------------------
(***************************************************************************)
(* For collections of any size and any sequence of failures: no start of a *)
(* service stores an item twice, and what a service serves is complete but *)
(* for the items this very start had to skip.                              *)
(*                                                                         *)
(* The invariant follows the loop: an item about to be inserted was read   *)
(* and not found, and every item before the current one is stored or was   *)
(* skipped.                                                                *)
(***************************************************************************)
EXTENDS Startup, TLAPS

InLoop == phase \in {"read", "insert"}

\* An item about to be inserted is not there, or its read was mistaken.
InsertsWhatIsMissing ==
  phase = "insert" => docs[item] = 0 \/ (service = "rate" /\ item \in misread)

\* The items before the current one.
Passed ==
  InLoop => /\ \A k \in 1..(item - 1) : docs[k] > 0 \/ k \in skipped
            /\ skipped \subseteq 1..(item - 1)

\* After the loop.
Complete ==
  phase \in {"load", "serving"} =>
    /\ \A k \in Items : docs[k] > 0 \/ k \in skipped
    /\ P.keeps => docs[N] > 0 /\ N \notin skipped

SkipsExcused == P.insert = "fatal" => skipped \subseteq misread

IInv == /\ TypeOK /\ NoDuplicates /\ InsertsWhatIsMissing /\ Passed /\ Complete
        /\ SkipsExcused /\ MemoryIsStored

-----------------------------------------------------------------------------

\* What the arguments need to know about the six policies.
LEMMA PolicyFacts ==
  ASSUME NEW s \in DOMAIN Policy
  PROVE  /\ Policy[s].all = "insert" => s = "rate"
         /\ Policy[s].keeps => Policy[s].all = "none"
         /\ Policy[s].insert = "fatal" => Policy[s].find = "fatal"
<1>1. s \in {"geo", "profile", "recommendation", "rate", "user", "reservation"}
  BY DEF Policy
<1>2. CASE s = "geo" BY <1>2 DEF Policy, Geo
<1>3. CASE s = "profile" BY <1>3 DEF Policy, Profile
<1>4. CASE s = "recommendation" BY <1>4 DEF Policy, RecommendationHotels
<1>5. CASE s = "rate" BY <1>5 DEF Policy, RatePlans
<1>6. CASE s = "user" BY <1>6 DEF Policy, Users
<1>7. CASE s = "reservation" BY <1>7 DEF Policy, RoomNumbers
<1> QED BY <1>1, <1>2, <1>3, <1>4, <1>5, <1>6, <1>7

LEMMA PFacts ==
  ASSUME TypeOK
  PROVE  /\ P.all = "insert" => service = "rate"
         /\ P.keeps => P.all = "none"
         /\ P.insert = "fatal" => P.find = "fatal"
BY PolicyFacts, ConstantsAssumption DEF TypeOK, P

LEMMA InitIInv == Init => IInv
<1> SUFFICES ASSUME Init PROVE IInv
  OBVIOUS
<1>1. TypeOK
  <2>1. 1 \in Items /\ 0 \in 0..MaxFaults
    BY ConstantsAssumption DEF Items
  <2> QED BY <2>1 DEF Init, TypeOK
<1>2. NoDuplicates /\ InsertsWhatIsMissing /\ Passed /\ Complete
  BY ConstantsAssumption DEF Init, NoDuplicates, InsertsWhatIsMissing, Passed,
     Complete, InLoop, Items
<1>3. SkipsExcused /\ MemoryIsStored
  BY DEF Init, SkipsExcused, MemoryIsStored
<1> QED BY <1>1, <1>2, <1>3 DEF IInv

\* A process that ends leaves nothing to show but the documents.
LEMMA DownIInv ==
  ASSUME IInv, TypeOK', phase' = "down", docs' = docs, UNCHANGED <<service, skipped>>,
         misread \subseteq misread'
  PROVE  IInv'
<1>1. NoDuplicates'
  BY DEF IInv, NoDuplicates, Items
<1>2. InsertsWhatIsMissing' /\ Passed' /\ Complete' /\ MemoryIsStored'
  BY DEF InsertsWhatIsMissing, Passed, Complete, MemoryIsStored, InLoop
<1>3. SkipsExcused'
  BY DEF IInv, SkipsExcused, P
<1> QED BY <1>1, <1>2, <1>3 DEF IInv

\* Going on after an item that is stored, or that is added to skipped.
LEMMA AdvanceIInv ==
  ASSUME IInv, NEW e \in BOOLEAN, Advance(e), InLoop, TypeOK',
         \A k \in Items \ {item} : docs'[k] = docs[k],
         docs'[item] > 0 \/ item \in skipped',
         docs'[item] > 1 => service = "rate" /\ item \in misread',
         docs'[item] >= docs[item],
         skipped' \in {skipped, skipped \cup {item}}, misread \subseteq misread',
         P.keeps /\ ~e => item \notin skipped' /\ docs'[item] > 0,
         P.insert = "fatal" => skipped' \subseteq misread'
  PROVE  IInv'
<1>1. item \in 1..N /\ N \in Nat \ {0} /\ service' = service
  BY ConstantsAssumption DEF IInv, TypeOK, Items, Advance
<1>2. NoDuplicates'
  BY <1>1 DEF IInv, NoDuplicates, Items
<1>3. phase' \in {"read", "down", "load"} /\ P' = P
  BY <1>1 DEF Advance, P
<1>4. InsertsWhatIsMissing' /\ MemoryIsStored' /\ SkipsExcused'
  BY <1>3 DEF InsertsWhatIsMissing, MemoryIsStored, SkipsExcused
<1>5. \A k \in 1..item : docs'[k] > 0 \/ k \in skipped'
  <2>1. \A k \in 1..(item - 1) : docs[k] > 0 \/ k \in skipped
    BY DEF IInv, Passed
  <2> QED BY <1>1, <2>1 DEF Items
<1>6. skipped' \subseteq 1..item
  BY <1>1 DEF IInv, Passed
<1>7. Passed'
  <2> SUFFICES ASSUME phase' = "read" PROVE item' = item + 1
    BY <1>1, <1>3, <1>5, <1>6 DEF Passed, InLoop
  <2> QED BY DEF Advance
<1>8. Complete'
  <2> SUFFICES ASSUME phase' = "load"
               PROVE  item = N /\ (P.keeps => ~e)
    BY <1>1, <1>3, <1>5 DEF Complete, Items
  <2> QED BY DEF Advance
<1> QED BY <1>2, <1>4, <1>7, <1>8 DEF IInv

\* The start, the serving and the end of a process.
LEMMA BeginStep == ASSUME IInv, Begin PROVE IInv'
<1>1. TypeOK'
  <2>1. 1 \in Items
    BY ConstantsAssumption DEF Items
  <2> QED BY <2>1 DEF IInv, TypeOK, Begin
<1>2. Passed'
  BY DEF Begin, Passed, InLoop
<1>3. NoDuplicates' /\ InsertsWhatIsMissing' /\ Complete' /\ MemoryIsStored' /\ SkipsExcused'
  BY DEF IInv, Begin, NoDuplicates, InsertsWhatIsMissing, Complete, MemoryIsStored,
     SkipsExcused
<1> QED BY <1>1, <1>2, <1>3 DEF IInv

LEMMA FaultType == ASSUME TypeOK, Fault PROVE faults' \in 0..MaxFaults
BY ConstantsAssumption DEF TypeOK, Fault

LEMMA EndStep == ASSUME IInv, End, faults' \in 0..MaxFaults PROVE IInv'
<1>1. TypeOK'
  BY DEF IInv, TypeOK, End
<1> QED BY <1>1, DownIInv DEF End

LEMMA ServeStep ==
  ASSUME IInv, NEW S \in SUBSET Items, Serve(S), faults' \in 0..MaxFaults,
         service \in {"geo", "user"} => S = Stored,
         service = "recommendation" => S \in {{}, Stored}
  PROVE  IInv'
<1>1. TypeOK' /\ Stored' = Stored /\ P' = P
  BY DEF IInv, TypeOK, Serve, Stored, P
<1>2. MemoryIsStored'
  BY <1>1 DEF Serve, MemoryIsStored
<1>3. NoDuplicates' /\ InsertsWhatIsMissing' /\ Passed' /\ SkipsExcused' /\ Complete'
  BY <1>1 DEF IInv, Serve, NoDuplicates, InsertsWhatIsMissing, Passed, InLoop,
     SkipsExcused, Complete
<1> QED BY <1>1, <1>2, <1>3 DEF IInv

LEMMA LoadStep ==
  ASSUME IInv, ServeFromDatabase \/ NewGeoIndex \/ loadUsers \/ loadRecommendations
  PROVE  IInv'
<1>1. Stored \in SUBSET Items /\ {} \in SUBSET Items
  BY DEF Stored
<1>2. TypeOK /\ faults \in 0..MaxFaults
  BY DEF IInv, TypeOK
<1>3. CASE ServeFromDatabase
  BY <1>1, <1>2, <1>3, ServeStep DEF ServeFromDatabase, Loaders
<1>4. CASE NewGeoIndex
  BY <1>1, <1>2, <1>4, ServeStep, EndStep, FaultType DEF NewGeoIndex
<1>5. CASE loadUsers
  BY <1>1, <1>2, <1>5, ServeStep, EndStep, FaultType DEF loadUsers
<1>6. CASE loadRecommendations
  BY <1>1, <1>2, <1>6, ServeStep, FaultType DEF loadRecommendations
<1> QED BY <1>3, <1>4, <1>5, <1>6

-----------------------------------------------------------------------------
(* The steps of the loop *)

LEMMA AdvanceType ==
  ASSUME TypeOK, NEW e \in BOOLEAN, Advance(e), docs' \in [Items -> Nat],
         skipped' \in SUBSET Items, misread' \in SUBSET Items,
         faults' \in 0..MaxFaults
  PROVE  TypeOK'
BY ConstantsAssumption DEF TypeOK, Advance, Items

LEMMA ReadStep == ASSUME IInv, Read PROVE IInv'
<1>0. item \in Items /\ docs \in [Items -> Nat] /\ TypeOK /\ InLoop
  BY DEF IInv, TypeOK, Read, InLoop
<1>1. CASE docs[item] > 0 /\ Advance(FALSE)
  <2>1. TypeOK'
    BY <1>0, <1>1, AdvanceType DEF TypeOK, Read, history
  <2>2. item \notin skipped
    BY <1>0 DEF IInv, Passed, Items
  <2>3. docs[item] > 1 => service = "rate" /\ item \in misread
    BY <1>0 DEF IInv, NoDuplicates
  <2>4. P.insert = "fatal" => skipped \subseteq misread
    BY DEF IInv, SkipsExcused
  <2>5. UNCHANGED <<docs, skipped, misread, faults>> /\ docs[item] >= docs[item]
    BY <1>0 DEF Read, history
  <2> QED BY <1>0, <1>1, <2>1, <2>2, <2>3, <2>4, <2>5, AdvanceIInv
<1>2. CASE docs[item] = 0 /\ phase' = "insert" /\
           UNCHANGED <<service, item, err, late, loaded, docs, history>>
  <2>1. TypeOK' /\ P' = P
    BY <1>2 DEF IInv, TypeOK, history, P
  <2>2. InsertsWhatIsMissing' /\ Complete' /\ MemoryIsStored'
    BY <1>2 DEF InsertsWhatIsMissing, Complete, MemoryIsStored
  <2>3. NoDuplicates' /\ SkipsExcused' /\ Passed'
    BY <1>0, <1>2, <2>1 DEF IInv, NoDuplicates, SkipsExcused, Passed, InLoop, history
  <2> QED BY <2>1, <2>2, <2>3 DEF IInv
<1> QED BY <1>1, <1>2 DEF Read

LEMMA FindFailsStep == ASSUME IInv, FindFails PROVE IInv'
<1>0. /\ item \in Items /\ docs \in [Items -> Nat] /\ TypeOK /\ InLoop
      /\ faults' \in 0..MaxFaults
  BY FaultType DEF IInv, TypeOK, FindFails, InLoop
<1>1. CASE /\ P.find = "skip" /\ Advance(TRUE)
           /\ skipped' = skipped \cup {item} /\ UNCHANGED <<docs, misread>>
  <2>1. TypeOK'
    BY <1>0, <1>1, AdvanceType DEF TypeOK
  <2>2. docs[item] > 1 => service = "rate" /\ item \in misread
    BY <1>0 DEF IInv, NoDuplicates
  <2>3. P.insert # "fatal"
    BY <1>0, <1>1, PFacts
  <2>4. docs'[item] >= docs[item] /\ item \in skipped'
    BY <1>0, <1>1
  <2> QED BY <1>0, <1>1, <2>1, <2>2, <2>3, <2>4, AdvanceIInv
<1>2. CASE End
  BY <1>0, <1>2, EndStep
<1> QED BY <1>1, <1>2 DEF FindFails

LEMMA AllFailsStep == ASSUME IInv, AllFails PROVE IInv'
<1>0. /\ item \in Items /\ docs \in [Items -> Nat] /\ TypeOK /\ InLoop
      /\ faults' \in 0..MaxFaults /\ docs' = docs
      /\ misread' = misread \cup {item}
  BY FaultType DEF IInv, TypeOK, AllFails, InLoop
<1>1. CASE P.all = "skip" /\ Advance(FALSE) /\ skipped' = skipped \cup {item}
  <2>1. TypeOK'
    BY <1>0, <1>1, AdvanceType DEF TypeOK
  <2>2. docs[item] > 1 => service = "rate" /\ item \in misread
    BY <1>0 DEF IInv, NoDuplicates
  <2>3. ~P.keeps /\ (P.insert = "fatal" => skipped' \subseteq misread')
    BY <1>0, <1>1, PFacts DEF IInv, SkipsExcused
  <2>4. docs'[item] >= docs[item] /\ item \in skipped'
    BY <1>0, <1>1
  <2>5. docs'[item] > 1 => service = "rate" /\ item \in misread'
    BY <1>0, <2>2
  <2> QED BY <1>0, <1>1, <2>1, <2>3, <2>4, <2>5, AdvanceIInv
<1>2. CASE /\ P.all = "insert" /\ phase' = "insert"
           /\ UNCHANGED <<service, item, err, late, loaded, skipped>>
  <2>1. TypeOK' /\ P' = P /\ service = "rate"
    BY <1>0, <1>2, PFacts DEF TypeOK, P
  <2>2. InsertsWhatIsMissing' /\ Complete' /\ MemoryIsStored'
    BY <1>0, <1>2, <2>1 DEF InsertsWhatIsMissing, Complete, MemoryIsStored
  <2>3. NoDuplicates' /\ SkipsExcused' /\ Passed'
    BY <1>0, <1>2, <2>1 DEF IInv, NoDuplicates, SkipsExcused, Passed, InLoop
  <2> QED BY <2>1, <2>2, <2>3 DEF IInv
<1> QED BY <1>1, <1>2 DEF AllFails

LEMMA InsertStep == ASSUME IInv, Insert PROVE IInv'
<1>0. item \in Items /\ docs \in [Items -> Nat] /\ TypeOK /\ InLoop
  BY DEF IInv, TypeOK, Insert, InLoop
<1>1. /\ Advance(FALSE) /\ UNCHANGED <<skipped, misread, faults>>
      /\ docs' = [docs EXCEPT ![item] = @ + 1]
  BY DEF Insert, history
<1>2. docs' \in [Items -> Nat] /\ docs'[item] = docs[item] + 1
  BY <1>0, <1>1
<1>3. TypeOK'
  BY <1>0, <1>1, <1>2, AdvanceType DEF TypeOK
<1>4. docs'[item] > 1 => service = "rate" /\ item \in misread
  BY <1>0, <1>2 DEF IInv, InsertsWhatIsMissing, Insert
<1>5. item \notin skipped /\ (P.insert = "fatal" => skipped \subseteq misread)
  BY <1>0 DEF IInv, Passed, Items, SkipsExcused
<1>6. \A k \in Items \ {item} : docs'[k] = docs[k]
  BY <1>0, <1>1
<1>7. docs'[item] > 0 /\ docs'[item] >= docs[item]
  BY <1>0, <1>2
<1> QED BY <1>0, <1>1, <1>3, <1>4, <1>5, <1>6, <1>7, AdvanceIInv

LEMMA InsertFailsStep == ASSUME IInv, InsertFails PROVE IInv'
<1>0. /\ item \in Items /\ docs \in [Items -> Nat] /\ TypeOK /\ InLoop
      /\ faults' \in 0..MaxFaults /\ misread' = misread
      /\ docs' \in {docs, [docs EXCEPT ![item] = @ + 1]}
  BY FaultType DEF IInv, TypeOK, InsertFails, InLoop
<1>1. /\ docs' \in [Items -> Nat] /\ docs'[item] \in {docs[item], docs[item] + 1}
      /\ docs'[item] >= docs[item]
      /\ \A k \in Items \ {item} : docs'[k] = docs[k]
  BY <1>0
<1>2. docs'[item] > 1 => service = "rate" /\ item \in misread
  <2>1. docs[item] = 0 \/ (service = "rate" /\ item \in misread)
    BY DEF IInv, InsertsWhatIsMissing, InsertFails
  <2> QED BY <1>0, <1>1, <2>1
<1>3. CASE P.insert = "log" /\ Advance(TRUE) /\ skipped' = skipped \cup {item}
  <2>1. TypeOK'
    BY <1>0, <1>1, <1>3, AdvanceType DEF TypeOK
  <2> QED BY <1>0, <1>1, <1>2, <1>3, <2>1, AdvanceIInv
<1>4. CASE /\ P.insert = "fatal" /\ phase' = "down" /\ loaded' = {}
           /\ UNCHANGED <<service, item, err, late, skipped>>
  <2>1. TypeOK' /\ P' = P
    BY <1>0, <1>1, <1>4 DEF TypeOK, P
  <2>2. NoDuplicates'
    BY <1>0, <1>1, <1>2, <1>4 DEF IInv, NoDuplicates
  <2>3. InsertsWhatIsMissing' /\ Passed' /\ Complete' /\ MemoryIsStored'
    BY <1>4 DEF InsertsWhatIsMissing, Passed, Complete, MemoryIsStored, InLoop
  <2>4. SkipsExcused'
    BY <1>0, <1>4, <2>1 DEF IInv, SkipsExcused
  <2> QED BY <2>1, <2>2, <2>3, <2>4 DEF IInv
<1> QED BY <1>3, <1>4 DEF InsertFails

LEMMA DeadlineStep == ASSUME IInv, Deadline PROVE IInv'
<1>1. TypeOK' /\ P' = P
  BY FaultType DEF IInv, TypeOK, Deadline, P
<1>2. NoDuplicates' /\ InsertsWhatIsMissing' /\ Passed'
  BY DEF IInv, Deadline, NoDuplicates, InsertsWhatIsMissing, Passed, InLoop
<1>3. Complete' /\ MemoryIsStored' /\ SkipsExcused'
  BY <1>1 DEF IInv, Deadline, Complete, MemoryIsStored, SkipsExcused
<1> QED BY <1>1, <1>2, <1>3 DEF IInv

LEMMA KillStep == ASSUME IInv, Kill PROVE IInv'
BY EndStep, FaultType DEF IInv, Kill

LEMMA NextStep == IInv /\ [Next]_vars => IInv'
<1> SUFFICES ASSUME IInv, [Next]_vars PROVE IInv'
  OBVIOUS
<1>1. CASE UNCHANGED vars
  <2>1. UNCHANGED <<service, phase, item, docs, err, late, loaded, skipped, misread, faults>>
    BY <1>1 DEF vars, history
  <2>2. P' = P /\ Stored' = Stored
    BY <2>1 DEF P, Stored
  <2> QED
    BY <2>1, <2>2 DEF IInv, TypeOK, NoDuplicates, InsertsWhatIsMissing, Passed,
       InLoop, Complete, SkipsExcused, MemoryIsStored
<1>2. CASE Next
  BY <1>2, BeginStep, ReadStep, FindFailsStep, AllFailsStep, InsertStep,
     InsertFailsStep, LoadStep, DeadlineStep, KillStep DEF Next, Step
<1> QED BY <1>1, <1>2

-----------------------------------------------------------------------------

\* The variables have their types at every moment of every start.
THEOREM TypeCorrect == Spec => []TypeOK
BY InitIInv, NextStep, PTL DEF Spec, IInv

\* However often a service is killed while it fills its collection, no item gets
\* a second document, but for the failed reads of rate.
THEOREM SeedsOnce == Spec => []NoDuplicates
BY InitIInv, NextStep, PTL DEF Spec, IInv

\* A service that serves has every item that this start did not skip.
THEOREM ServesComplete == Spec => []ServesAllButSkipped
<1>1. IInv => ServesAllButSkipped
  BY DEF IInv, Complete, SkipsExcused, ServesAllButSkipped
<1> QED BY <1>1, InitIInv, NextStep, PTL DEF Spec

\* geo and user serve what the collection holds, recommendation that or nothing.
THEOREM MemoryCorrect == Spec => []MemoryIsStored
BY InitIInv, NextStep, PTL DEF Spec, IInv
=============================================================================
