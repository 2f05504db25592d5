-------------------------- MODULE DiscoveryProofs --------------------------
(***************************************************************************)
(* What runs is listed in Consul, unless Consul missed its registration,   *)
(* for any services, addresses and faults.  The invariant adds that what   *)
(* runs is never listed as critical: that is all Consul deregisters.       *)
(***************************************************************************)
EXTENDS Discovery, SequenceTheorems, TLAPS

-----------------------------------------------------------------------------
(* The programs: all but the frontend's end with the registration *)

Names == {"mongo-geo", "memc-profile", "mongo-profile", "memc-rate", "mongo-rate",
          "mongo-recomm", "mongo-user", "memc-reserve", "mongo-reserve",
          "geo", "rate", "search", "profile", "recommendation", "user", "reservation"}
Steps == [do : {"find", "seed", "load", "dial", "register"},
          of : Names \cup {"port"}]

LEMMA StepsAre ==
  /\ \A d \in Names : Find(d) \in Steps /\ Seed(d) \in Steps
                     /\ Load(d) \in Steps /\ Dial(d) \in Steps
  /\ Publish \in Steps
  BY DEF Steps, Find, Seed, Load, Dial, Publish

LEMMA Joined ==
  ASSUME NEW m \in Seq(Steps), NEW r \in Seq(Steps), Len(r) > 0
  PROVE  /\ m \o r \in Seq(Steps)
         /\ Len(m \o r) \in Nat \ {0}
         /\ (m \o r)[Len(m \o r)] = r[Len(r)]
         /\ DOMAIN (m \o r) = 1..Len(m \o r)
<1>1. Len(m) \in Nat /\ Len(r) \in Nat
  OBVIOUS
<1> QED BY <1>1, ConcatProperties

LEMMA Mains ==
  {geoMain, profileMain, rateMain, recommendationMain, userMain, reservationMain,
   searchMain, frontendMain} \subseteq Seq(Steps)
<1>1. geoMain \in Seq(Steps) BY StepsAre DEF Names, geoMain
<1>2. profileMain \in Seq(Steps) BY StepsAre DEF Names, profileMain
<1>3. rateMain \in Seq(Steps) BY StepsAre DEF Names, rateMain
<1>4. recommendationMain \in Seq(Steps) BY StepsAre DEF Names, recommendationMain
<1>5. userMain \in Seq(Steps) BY StepsAre DEF Names, userMain
<1>6. reservationMain \in Seq(Steps) BY StepsAre DEF Names, reservationMain
<1>7. searchMain \in Seq(Steps) /\ frontendMain \in Seq(Steps)
  BY DEF searchMain, frontendMain
<1> QED BY <1>1, <1>2, <1>3, <1>4, <1>5, <1>6, <1>7

Ends(r) == r \in Seq(Steps) /\ Len(r) > 0 /\ r[Len(r)] = Publish

LEMMA Runs ==
  \A r \in {geoRun, profileRun, rateRun, recommendationRun, userRun, reservationRun,
           searchRun} : Ends(r)
<1>1. Ends(geoRun)
  <2>1. geoRun \in Seq(Steps) /\ Len(geoRun) = 3 BY StepsAre DEF Names, geoRun
  <2> QED BY <2>1 DEF Ends, geoRun
<1>2. Ends(recommendationRun)
  <2>1. recommendationRun \in Seq(Steps) /\ Len(recommendationRun) = 2
    BY StepsAre DEF Names, recommendationRun
  <2> QED BY <2>1 DEF Ends, recommendationRun
<1>3. Ends(userRun)
  <2>1. userRun \in Seq(Steps) /\ Len(userRun) = 2 BY StepsAre DEF Names, userRun
  <2> QED BY <2>1 DEF Ends, userRun
<1>4. <<Publish>> \in Seq(Steps) /\ Ends(<<Publish>>)
  <2>1. <<Publish>> \in Seq(Steps) BY StepsAre
  <2> QED BY <2>1 DEF Ends
<1>5. Ends(searchRun)
  <2>1. searchClients \in Seq(Steps) BY StepsAre DEF Names, searchClients
  <2> QED BY <1>4, <2>1, Joined DEF Ends, searchRun
<1> QED BY <1>1, <1>2, <1>3, <1>4, <1>5 DEF profileRun, rateRun, reservationRun

LEMMA EndsWithPublish ==
  ASSUME NEW s \in Services, s # "frontend"
  PROVE  /\ Len(Program[s]) \in Nat \ {0}
         /\ Program[s][Len(Program[s])] = Publish
         /\ DOMAIN Program[s] = 1..Len(Program[s])
<1>1. s \in {"geo", "profile", "rate", "recommendation", "user", "reservation", "search"}
  BY ConstantsAssumption DEF Program
<1>2. PICK m \in Seq(Steps), r \in Seq(Steps) : Ends(r) /\ Program[s] = m \o r
  <2>1. CASE s = "geo" BY <2>1, Mains, Runs DEF Program, Ends
  <2>2. CASE s = "profile" BY <2>2, Mains, Runs DEF Program, Ends
  <2>3. CASE s = "rate" BY <2>3, Mains, Runs DEF Program, Ends
  <2>4. CASE s = "recommendation" BY <2>4, Mains, Runs DEF Program, Ends
  <2>5. CASE s = "user" BY <2>5, Mains, Runs DEF Program, Ends
  <2>6. CASE s = "reservation" BY <2>6, Mains, Runs DEF Program, Ends
  <2>7. CASE s = "search" BY <2>7, Mains, Runs DEF Program, Ends
  <2> QED BY <1>1, <2>1, <2>2, <2>3, <2>4, <2>5, <2>6, <2>7
<1> QED BY <1>2, Joined DEF Ends

LEMMA FrontendIsNotListed == ~Registers("frontend")
<1> DEFINE Calls == {Dial(d) : d \in Names}
<1>0. \A d \in Names : Dial(d) \in Calls
  OBVIOUS
<1>3. Publish \notin Calls
  <2>1. \A d \in Names : Publish.do # Dial(d).do
    BY DEF Publish, Dial
  <2> QED BY <2>1
<1> HIDE DEF Calls
<1>1. frontendClients \in Seq(Calls) /\ <<>> \in Seq(Calls)
  BY <1>0 DEF Names, frontendClients
<1>2. Program["frontend"] \in Seq(Calls)
  BY <1>1, ConcatProperties DEF Program, frontendMain, frontendRun
<1> QED BY <1>2, <1>3 DEF Registers, Range

-----------------------------------------------------------------------------
(* The invariant *)

StepsOf(s) == Len(Program[s])
Published == {s \in Services : Registers(s)}

LEMMA LastStep ==
  \A s \in Published : /\ StepsOf(s) \in Nat \ {0}
                      /\ Program[s][StepsOf(s)] = Publish
                      /\ DOMAIN Program[s] = 1..StepsOf(s)
<1> SUFFICES ASSUME NEW s \in Published
             PROVE  /\ StepsOf(s) \in Nat \ {0}
                    /\ Program[s][StepsOf(s)] = Publish
                    /\ DOMAIN Program[s] = 1..StepsOf(s)
  OBVIOUS
<1>1. s \in Services /\ s # "frontend"
  BY FrontendIsNotListed DEF Published
<1> QED BY <1>1, EndsWithPublish DEF StepsOf

Types ==
  /\ addr \in [Nodes -> 1..MaxMoves]
  /\ step \in [Services -> Nat]
  /\ sidecar \subseteq Databases
  /\ catalog \in [Ids -> {"none", "new", "passing", "critical"}]

\* The nodes whose check server answers.
Running == sidecar \cup {s \in Published : Serving(s)}

\* Consul knows of what runs, and holds it for healthy.
Known(n) == catalog[Id(n)] \in {"new", "passing"} \/ Id(n) \in missed

IInv == Types /\ \A n \in Running : Known(n)

LEMMA RunningNodes == Types => Running \subseteq Nodes
  BY DEF Types, Running, Published, Nodes

LEMMA IdOfNode == ASSUME Types, NEW n \in Nodes PROVE Id(n) \in Ids
  BY DEF Types, Id, Ids

LEMMA Invariant == IInv => ListedUnlessMissed
<1> SUFFICES ASSUME IInv PROVE ListedUnlessMissed
  OBVIOUS
<1>1. \A n \in Running : Listed(Id(n)) \/ Id(n) \in missed
  BY DEF IInv, Known, Listed
<1> QED BY <1>1 DEF ListedUnlessMissed, Running, Published

\* Nothing starts to run, and no address and no entry changes.
LEMMA NothingStarts ==
  ASSUME IInv, Types', Running' \subseteq Running,
         \A n \in Running' : addr'[n] = addr[n],
         UNCHANGED <<catalog, missed>>
  PROVE  IInv'
<1>1. \A n \in Running' : Id(n)' = Id(n) /\ Known(n)
  BY DEF IInv, Id
<1>2. \A n \in Running' : Known(n)'
  BY <1>1 DEF Known
<1> QED BY <1>2 DEF IInv

LEMMA EndStep ==
  ASSUME IInv, NEW s \in Services, End(s), UNCHANGED addr
  PROVE  IInv'
<1>1. Types'
  BY DEF IInv, Types, End, registry
<1>2. \A t \in Published : Serving(t)' => t # s /\ Serving(t)
  BY LastStep DEF Serving, End, IInv, Types, StepsOf, Published
<1>3. Running' \subseteq Running
  BY <1>2 DEF Running, End
<1> QED BY <1>1, <1>3, NothingStarts DEF End, registry

\* A step of a program that is not the registration does not make it serve, for it
\* is not the last.
LEMMA ContinueStep ==
  ASSUME IInv, NEW s \in Services, Continue(s),
         NEW k, k # "register", At(s, k),
         UNCHANGED <<addr, sidecar, catalog, missed>>
  PROVE  IInv'
<1>1. Types'
  BY DEF IInv, Types, Continue
<1>2. \A t \in Published : Serving(t)' => Serving(t)
  <2> SUFFICES ASSUME NEW t \in Published, Serving(t)', ~Serving(t)
               PROVE  FALSE
    OBVIOUS
  <2>1. t = s /\ step[s] + 1 = StepsOf(s)
    BY LastStep DEF Serving, Continue, IInv, Types, StepsOf, Published
  <2>2. Program[s][step[s] + 1].do = "register"
    BY <2>1, LastStep DEF Publish
  <2> QED BY <2>2 DEF At
<1>3. Running' \subseteq Running
  BY <1>2 DEF Running
<1> QED BY <1>1, <1>3, NothingStarts

LEMMA ProgramStep ==
  ASSUME IInv, NEW s \in Services,
         \/ FindService(s) \/ InitializeDatabase(s) \/ LoadDatabase(s)
         \/ DialService(s)
  PROVE  IInv'
<1>1. CASE FindService(s)
  BY <1>1, EndStep, ContinueStep DEF FindService, registry
<1>2. CASE InitializeDatabase(s)
  BY <1>2, EndStep, ContinueStep DEF InitializeDatabase, registry
<1>3. CASE LoadDatabase(s)
  BY <1>3, EndStep, ContinueStep DEF LoadDatabase, registry
<1>4. CASE DialService(s)
  BY <1>4, ContinueStep DEF DialService, registry
<1> QED BY <1>1, <1>2, <1>3, <1>4

\* A node that registers, and no other starts to run.
LEMMA Registration ==
  ASSUME IInv, NEW m \in Nodes, Types', addr' = addr,
         Running' \subseteq Running \cup {m},
         \/ /\ catalog' = [catalog EXCEPT ![Id(m)] = "new"]
            /\ missed' = missed \ {Id(m)}
         \/ catalog' = catalog /\ missed' = missed \cup {Id(m)}
  PROVE  IInv'
<1>1. Id(m) \in Ids
  BY IdOfNode DEF IInv
<1>2. ASSUME NEW n \in Running' PROVE Known(n)'
  <2>1. n \in Nodes /\ Id(n)' = Id(n) /\ Id(n) \in Ids
    BY RunningNodes, IdOfNode DEF IInv, Id
  <2>2. n # m => Id(n) # Id(m)
    BY DEF Id
  <2>3. n # m => Known(n)
    BY DEF IInv
  <2> QED BY <1>1, <2>1, <2>2, <2>3 DEF IInv, Types, Known
<1> QED BY <1>2 DEF IInv

LEMMA RegisterStep == ASSUME IInv, NEW s \in Services, Register(s) PROVE IInv'
<1>1. CASE ~consul
  BY <1>1, EndStep DEF Register
<1>2. CASE consul
  <2>1. /\ catalog' = [catalog EXCEPT ![Id(s)] = "new"]
        /\ missed' = missed \ {Id(s)}
        /\ Continue(s) /\ UNCHANGED <<addr, sidecar>>
    BY <1>2 DEF Register
  <2>2. Types'
    <3>1. step' \in [Services -> Nat]
      BY <2>1 DEF IInv, Types, Continue
    <3>2. catalog' \in [Ids -> {"none", "new", "passing", "critical"}]
      BY <2>1 DEF IInv, Types
    <3> QED BY <2>1, <3>1, <3>2 DEF IInv, Types
  <2>3. \A t \in Published : Serving(t)' => Serving(t) \/ t = s
    BY <2>1 DEF Serving, Continue, IInv, Types, Published
  <2>4. Running' \subseteq Running \cup {s} /\ s \in Nodes
    BY <2>1, <2>3 DEF Running, Nodes
  <2> QED BY <2>1, <2>2, <2>4, Registration
<1> QED BY <1>1, <1>2

LEMMA SidecarStep == ASSUME IInv, NEW d \in Databases, StartSidecar(d) PROVE IInv'
<1>1. Types'
  BY DEF IInv, Types, StartSidecar
<1>2. \A t \in Services : Serving(t)' <=> Serving(t)
  BY DEF Serving, StartSidecar
<1>3. Running' \subseteq Running \cup {d} /\ d \in Nodes
  BY <1>2 DEF Running, StartSidecar, Nodes, Published
<1> QED BY <1>1, <1>3, Registration DEF StartSidecar

-----------------------------------------------------------------------------
(* Consul and the faults *)

\* What runs answers its check, and what is critical does not run.
LEMMA ConsulStep ==
  ASSUME IInv, NEW id \in Ids, Check(id) \/ Reap(id)
  PROVE  IInv'
<1>1. /\ UNCHANGED <<process, missed>> /\ Types'
      /\ \A i \in Ids \ {id} : catalog'[i] = catalog[i]
      /\ \/ Listed(id) /\ catalog'[id] = IF Pings(id) THEN "passing" ELSE "critical"
         \/ catalog[id] = "critical"
  BY DEF Check, Reap, IInv, Types, process
<1>2. Running' = Running
  BY <1>1 DEF Running, Serving, process
<1>3. ASSUME NEW n \in Running PROVE Known(n)'
  <2>1. Known(n) /\ Id(n)' = Id(n) /\ Id(n) \in Ids
    BY <1>1, RunningNodes, IdOfNode DEF IInv, Id, process
  <2>2. CASE Id(n) # id
    BY <1>1, <2>1, <2>2 DEF Known
  <2>3. CASE Id(n) = id
    <3>1. Pings(id)
      BY <2>3 DEF Pings, Alive, Id, Running, Published
    <3> QED BY <1>1, <2>1, <2>3, <3>1 DEF Known
  <2> QED BY <2>2, <2>3
<1> QED BY <1>1, <1>2, <1>3 DEF IInv

LEMMA StopConsulStep == ASSUME IInv, StopConsul PROVE IInv'
<1>1. Running' = Running /\ UNCHANGED <<addr, step, sidecar>>
  BY DEF StopConsul, Running, Serving, process
<1>2. CASE UNCHANGED <<catalog, missed>>
  <2>1. Types'
    BY <1>1, <1>2 DEF IInv, Types
  <2> QED BY <1>1, <1>2, <2>1, NothingStarts
<1>3. CASE /\ catalog' = [id \in Ids |-> "none"]
           /\ missed' = missed \cup {id \in Ids : Listed(id)}
  <2>1. Types'
    BY <1>1, <1>3 DEF IInv, Types
  <2>2. ASSUME NEW n \in Running PROVE Id(n)' \in missed'
    <3>1. Known(n) /\ Id(n)' = Id(n) /\ Id(n) \in Ids
      BY <1>1, RunningNodes, IdOfNode DEF IInv, Id
    <3> QED BY <1>3, <3>1 DEF Known, Listed
  <2> QED BY <1>1, <2>1, <2>2 DEF IInv, Known
<1> QED BY <1>2, <1>3 DEF StopConsul

LEMMA MoveStep == ASSUME IInv, NEW m \in Nodes, Move(m) PROVE IInv'
<1>1. addr' \in [Nodes -> 1..MaxMoves] /\ \A n \in Nodes \ {m} : addr'[n] = addr[n]
  BY ConstantsAssumption DEF Move, IInv, Types
<1>2. UNCHANGED <<catalog, missed>>
  BY DEF Move, End, registry
<1>3. CASE m \in Services /\ End(m)
  <2>1. Types'
    BY <1>1, <1>3 DEF IInv, Types, End, registry
  <2>2. \A t \in Published : Serving(t)' => t # m /\ Serving(t)
    BY <1>3, LastStep DEF Serving, End, IInv, Types, StepsOf, Published
  <2>3. Running' \subseteq Running \ {m}
    BY <1>3, <2>2, ConstantsAssumption DEF Running, End, IInv, Types
  <2>4. Running' \subseteq Nodes
    BY <2>3, RunningNodes DEF IInv
  <2> QED BY <1>1, <1>2, <2>1, <2>3, <2>4, NothingStarts
<1>4. CASE m \in Databases /\ sidecar' = sidecar \ {m} /\ step' = step
  <2>1. Types'
    BY <1>1, <1>2, <1>4 DEF IInv, Types
  <2>2. Running' \subseteq Running \ {m}
    BY <1>4, ConstantsAssumption DEF Running, Serving, Published
  <2>3. Running' \subseteq Nodes
    BY <2>2, RunningNodes DEF IInv
  <2> QED BY <1>1, <1>2, <2>1, <2>2, <2>3, NothingStarts
<1> QED BY <1>3, <1>4 DEF Move

LEMMA InitIInv == Init => IInv
<1> SUFFICES ASSUME Init PROVE IInv
  OBVIOUS
<1>1. Types
  BY ConstantsAssumption DEF Init, Types
<1>2. \A s \in Published : ~Serving(s)
  BY LastStep DEF Init, Serving, StepsOf, Published
<1> QED BY <1>1, <1>2 DEF IInv, Running, Init

LEMMA NextIInv == IInv /\ [Next]_vars => IInv'
<1> SUFFICES ASSUME IInv, [Next]_vars PROVE IInv'
  OBVIOUS
<1>1. ASSUME UNCHANGED <<addr, step, sidecar, catalog, missed>> PROVE IInv'
  <2>1. Types' /\ Running' = Running
    BY <1>1 DEF IInv, Types, Running, Serving
  <2> QED BY <1>1, <2>1, NothingStarts
<1>2. ASSUME NEW s \in Services, Step(s) PROVE IInv'
  BY <1>2, ProgramStep, RegisterStep DEF Step
<1>3. ASSUME NEW s \in Services, Resolve(s) PROVE IInv'
  BY <1>1, <1>3 DEF Resolve, registry
<1>4. ASSUME NEW s \in Services, Use(s) \/ Kill(s) PROVE IInv'
  BY <1>4, EndStep DEF Use, Kill
<1>5. ASSUME NEW d \in Databases, StartSidecar(d) PROVE IInv'
  BY <1>5, SidecarStep
<1>6. ASSUME NEW n \in Nodes, Move(n) PROVE IInv'
  BY <1>6, MoveStep
<1>7. CASE StartConsul
  BY <1>1, <1>7 DEF StartConsul, process
<1>8. CASE StopConsul
  BY <1>8, StopConsulStep
<1>9. ASSUME NEW id \in Ids, Check(id) \/ Reap(id) PROVE IInv'
  BY <1>9, ConsulStep
<1>10. CASE UNCHANGED vars
  BY <1>1, <1>10 DEF vars, process, registry
<1> QED BY <1>2, <1>3, <1>4, <1>5, <1>6, <1>7, <1>8, <1>9, <1>10 DEF Next

\* What runs stays listed in Consul, whatever ends, moves and comes back, unless
\* Consul did not hear of it or has lost what it knew.
THEOREM StaysListed == Spec => []ListedUnlessMissed
BY InitIInv, NextIInv, Invariant, PTL DEF Spec
=============================================================================
