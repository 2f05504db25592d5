------------------------------ MODULE Discovery ------------------------------
(***************************************************************************)
(* How the processes find each other.  A database has a sidecar that       *)
(* registers it in Consul; main of a service finds its databases there,    *)
(* Run fills and loads them and registers the service; its clients follow  *)
(* the instances that Consul finds healthy.  Processes and pods end and    *)
(* start again at another address, and Consul may forget what it knew.     *)
(*                                                                         *)
(* Consul is external: a registration is healthy or not by the answers to  *)
(* its pings, and one that stays unhealthy is deregistered.                *)
(***************************************************************************)
EXTENDS Integers, Sequences, SequencesExt

CONSTANTS
  Services,   \* those of Program that are studied
  MaxMoves,   \* a bound: the addresses a pod has had
  MaxFaults,  \* a bound: processes and pods that end, and Consul
  Faulty      \* a bound: the pods that end

-----------------------------------------------------------------------------
(* The programs: main of each command, and Run of its server.  net.Listen, which *)
(* nothing else keeps from its port, is left out. *)

Find(d) == [do |-> "find", of |-> d]
Seed(d) == [do |-> "seed", of |-> d]
Load(d) == [do |-> "load", of |-> d]
Dial(s) == [do |-> "dial", of |-> s]
Publish == [do |-> "register", of |-> "port"]

geoMain == <<Find("mongo-geo")>>
geoRun == <<Seed("mongo-geo"), Load("mongo-geo"), Publish>>

profileMain == <<Find("memc-profile"), Find("mongo-profile"), Seed("mongo-profile")>>
profileRun == <<Publish>>

rateMain == <<Find("memc-rate"), Find("mongo-rate"), Seed("mongo-rate")>>
rateRun == <<Publish>>

recommendationMain == <<Find("mongo-recomm"), Seed("mongo-recomm")>>
recommendationRun == <<Load("mongo-recomm"), Publish>>

userMain == <<Find("mongo-user"), Seed("mongo-user")>>
userRun == <<Load("mongo-user"), Publish>>

reservationMain ==
  <<Find("memc-reserve"), Find("mongo-reserve"), Seed("mongo-reserve")>>
reservationRun == <<Publish>>

searchClients == <<Dial("geo"), Dial("rate")>>
searchRun == searchClients \o <<Publish>>

frontendClients == <<Dial("search"), Dial("profile"), Dial("recommendation"),
                     Dial("user"), Dial("reservation")>>
frontendRun == frontendClients

\* main of search and of the frontend only calls Run.
searchMain == <<>>
frontendMain == <<>>

Program == [geo |-> geoMain \o geoRun,
            profile |-> profileMain \o profileRun,
            rate |-> rateMain \o rateRun,
            recommendation |-> recommendationMain \o recommendationRun,
            user |-> userMain \o userRun,
            reservation |-> reservationMain \o reservationRun,
            search |-> searchMain \o searchRun,
            frontend |-> frontendMain \o frontendRun]

\* The services or databases of the steps of a kind.
Of(s, kind) == {st.of : st \in {t \in Range(Program[s]) : t.do = kind}}
Databases == UNION {Of(s, "find") : s \in Services}
Targets(s) == Of(s, "dial") \cap Services
Registers(s) == Publish \in Range(Program[s])

Nodes == Services \cup Databases
Ids == Nodes \X (1..MaxMoves)   \* name and ip, as in reg.ID

ASSUME ConstantsAssumption ==
  /\ Services \subseteq DOMAIN Program
  /\ MaxMoves \in Nat \ {0} /\ MaxFaults \in Nat
  /\ Services \cap Databases = {}

VARIABLES
  addr,     \* the address of each pod
  step,     \* the steps of its program that a service has done; 0 when it is down
  found,    \* the addresses FindService gave it; 0 for none
  sees,     \* the instances its clients are connected to
  sidecar,  \* the databases whose sidecar is up
  consul,   \* Consul is up
  catalog,  \* what it knows of an id
  missed,   \* history: the ids Consul did not hear of, or has forgotten
  faults

process == <<addr, step, found, sees, sidecar>>
registry == <<consul, catalog, missed>>
vars == <<process, registry, faults>>

Id(n) == <<n, addr[n]>>
Serving(s) == step[s] = Len(Program[s])
Alive(id) == addr[id[1]] = id[2]
Listed(id) == catalog[id] # "none"
Fault == faults < MaxFaults /\ faults' = faults + 1

-----------------------------------------------------------------------------

Init ==
  /\ addr = [n \in Nodes |-> 1]
  /\ step = [s \in Services |-> 0]
  /\ found = [s \in Services |-> [d \in Databases |-> 0]]
  /\ sees = [s \in Services |-> {}]
  /\ sidecar = {}
  /\ consul = FALSE
  /\ catalog = [id \in Ids |-> "none"]
  /\ missed = {} /\ faults = 0

\* log.Fatal, a panic, or the end of the container.
End(s) ==
  /\ step' = [step EXCEPT ![s] = 0]
  /\ found' = [found EXCEPT ![s] = [d \in Databases |-> 0]]
  /\ sees' = [sees EXCEPT ![s] = {}]
  /\ UNCHANGED <<sidecar, registry>>

\* What the process does next, or, when it is down, once it is started again.
At(s, kind) == ~Serving(s) /\ Program[s][step[s] + 1].do = kind
Arg(s) == Program[s][step[s] + 1].of
Continue(s) == step' = [step EXCEPT ![s] = @ + 1]

\* Any instance in the catalog, healthy or not; rand.Intn(0) panics.
FindService(s) ==
  /\ At(s, "find")
  /\ LET ids == {id \in Ids : id[1] = Arg(s) /\ Listed(id)} IN
     IF consul /\ ids # {}
       THEN /\ \E id \in ids : found' = [found EXCEPT ![s][Arg(s)] = id[2]]
            /\ Continue(s)
            /\ UNCHANGED <<addr, sees, sidecar, registry, faults>>
       ELSE End(s) /\ UNCHANGED <<addr, faults>>

Reaches(s, d) == Alive(<<d, found[s][d]>>)

\* InitializeDatabase: all six end the process when the database is not there
\* (module Startup).
InitializeDatabase(s) ==
  /\ At(s, "seed")
  /\ IF Reaches(s, Arg(s))
       THEN Continue(s) /\ UNCHANGED <<addr, found, sees, sidecar, registry, faults>>
       ELSE End(s) /\ UNCHANGED <<addr, faults>>

\* The collection is read into memory; recommendation goes on without.
LoadDatabase(s) ==
  /\ At(s, "load")
  /\ IF Reaches(s, Arg(s)) \/ s = "recommendation"
       THEN Continue(s) /\ UNCHANGED <<addr, found, sees, sidecar, registry, faults>>
       ELSE End(s) /\ UNCHANGED <<addr, faults>>

\* The healthy instances of the services T.
Healthy(T) == {id \in Ids : id[1] \in T /\ catalog[id] = "passing"}

\* Dial waits for no connection; the resolver of WithBalancer asks Consul for the
\* instances at once, and an error is only logged.
DialService(s) ==
  /\ At(s, "dial")
  /\ sees' = IF consul THEN [sees EXCEPT ![s] = @ \cup Healthy({Arg(s)} \cap Services)]
                       ELSE sees
  /\ Continue(s)
  /\ UNCHANGED <<addr, found, sidecar, registry, faults>>

\* (mutant) What Consul knew of the id is kept.
RegisterKeeping(s) ==
  /\ At(s, "register")
  /\ IF consul
       THEN /\ catalog' = [catalog EXCEPT ![Id(s)] = IF @ = "none" THEN "new" ELSE @]
            /\ missed' = missed \ {Id(s)}
            /\ Continue(s)
            /\ UNCHANGED <<addr, found, sees, sidecar, consul, faults>>
       ELSE End(s) /\ UNCHANGED <<addr, faults>>

\* A registration under the same id replaces the one before; the ping server is
\* started first.
Register(s) ==
  /\ At(s, "register")
  /\ IF consul
       THEN /\ catalog' = [catalog EXCEPT ![Id(s)] = "new"]
            /\ missed' = missed \ {Id(s)}
            /\ Continue(s)
            /\ UNCHANGED <<addr, found, sees, sidecar, consul, faults>>
       ELSE End(s) /\ UNCHANGED <<addr, faults>>

\* The sidecar does not look at what ServiceRegister returns.
StartSidecar(d) ==
  /\ d \notin sidecar /\ sidecar' = sidecar \cup {d}
  /\ IF consul
       THEN /\ catalog' = [catalog EXCEPT ![Id(d)] = "new"]
            /\ missed' = missed \ {Id(d)}
       ELSE missed' = missed \cup {Id(d)} /\ UNCHANGED catalog
  /\ UNCHANGED <<addr, step, found, sees, consul, faults>>

-----------------------------------------------------------------------------
(* Clients *)

\* The resolver of WithBalancer: the healthy instances, when they change.
Resolve(s) ==
  /\ step[s] # 0 /\ consul
  /\ sees' = [sees EXCEPT ![s] = Healthy(Targets(s))]
  /\ UNCHANGED <<addr, step, found, sidecar, registry, faults>>

\* The round robin has a connection to t.
Connected(s, t) == \E id \in sees[s] : id[1] = t /\ Alive(id) /\ Serving(t)

\* A request that needs a database or a service that is not there: rate and
\* reservation panic, search calls log.Fatalf; the others answer with an error or
\* with less.
Use(s) ==
  /\ Serving(s)
  /\ \/ s \in {"rate", "reservation"} /\ \E d \in Of(s, "find") : ~Reaches(s, d)
     \/ s = "search" /\ \E t \in Targets(s) : ~Connected(s, t)
  /\ End(s)
  /\ UNCHANGED <<addr, faults>>

-----------------------------------------------------------------------------
(* Consul *)

StartConsul ==
  /\ ~consul /\ consul' = TRUE
  /\ UNCHANGED <<process, catalog, missed, faults>>

\* It may keep what it knows, or not.
StopConsul ==
  /\ consul /\ consul' = FALSE
  /\ Fault
  /\ \/ UNCHANGED <<catalog, missed>>
     \/ /\ catalog' = [id \in Ids |-> "none"]
        /\ missed' = missed \cup {id \in Ids : Listed(id)}
  /\ UNCHANGED process

\* The check server of Register answers while the process serves, the one of a
\* sidecar whenever that is up, whatever its database does.
Pings(id) ==
  /\ Alive(id)
  /\ id[1] \in sidecar \cup {s \in Services : Serving(s)}

Check(id) ==
  /\ consul /\ Listed(id)
  /\ catalog' = [catalog EXCEPT ![id] = IF Pings(id) THEN "passing" ELSE "critical"]
  /\ UNCHANGED <<process, consul, missed, faults>>

\* (mutant) Without DeregisterCriticalServiceAfter.
ReapNever(id) ==
  /\ consul /\ catalog[id] = "critical"
  /\ UNCHANGED vars

\* DeregisterCriticalServiceAfter
Reap(id) ==
  /\ consul /\ catalog[id] = "critical"
  /\ catalog' = [catalog EXCEPT ![id] = "none"]
  /\ UNCHANGED <<process, consul, missed, faults>>

-----------------------------------------------------------------------------
(* Faults *)

Kill(s) == s \in Faulty /\ step[s] # 0 /\ Fault /\ End(s) /\ UNCHANGED addr

\* A pod is scheduled again, at a new address.
Move(n) ==
  /\ n \in Faulty /\ addr[n] < MaxMoves
  /\ addr' = [addr EXCEPT ![n] = @ + 1]
  /\ Fault
  /\ \/ n \in Services /\ End(n)
     \/ /\ n \in Databases /\ sidecar' = sidecar \ {n}
        /\ UNCHANGED <<step, found, sees, registry>>

Step(s) ==
  \/ FindService(s) \/ InitializeDatabase(s) \/ LoadDatabase(s)
  \/ DialService(s) \/ Register(s)

Next ==
  \/ \E s \in Services : Step(s) \/ Resolve(s) \/ Use(s) \/ Kill(s)
  \/ \E d \in Databases : StartSidecar(d)
  \/ \E n \in Nodes : Move(n)
  \/ StartConsul \/ StopConsul
  \/ \E id \in Ids : Check(id) \/ Reap(id)

Spec == Init /\ [][Next]_vars

\* Everything that ends is started again, Consul checks every 5 s, a resolver
\* waits for what it finds, and requests keep coming.
FairSpec ==
  /\ Spec
  /\ WF_vars(StartConsul)
  /\ \A s \in Services : WF_vars(Step(s)) /\ WF_vars(Resolve(s)) /\ WF_vars(Use(s))
  /\ \A d \in Databases : WF_vars(StartSidecar(d))
  /\ \A id \in Ids : WF_vars(Check(id)) /\ WF_vars(Reap(id))

-----------------------------------------------------------------------------
(* Properties *)

\* A process registers once, when it starts.  As long as it runs Consul lists it,
\* and does not deregister it for what an earlier process with its id failed to
\* answer; unless Consul was down when the sidecar registered, or lost what it
\* knew since.
ListedUnlessMissed ==
  /\ \A s \in Services : Serving(s) /\ Registers(s) => Listed(Id(s)) \/ Id(s) \in missed
  /\ \A d \in sidecar : Listed(Id(d)) \/ Id(d) \in missed

\* What a service needs: databases and services, and what those need.
With(S) == S \cup UNION {Of(s, "find") \cup Targets(s) : s \in S \cap Services}
Needs(s) == With(With(With({s}))) \ {s}

\* When pods stop moving, every service comes up and stays, connected to those it
\* calls, although main may find the address of a database that is gone and die of
\* it; and rate and reservation get rid of an address that has gone stale.  Unless
\* Consul never heard of something the service needs, or has forgotten it: nobody
\* registers twice.
ComesUpUnlessMissed ==
  <>[](\A s \in Services :
         \/ \E n \in Needs(s) : Id(n) \in missed
         \/ /\ Serving(s)
            /\ \A t \in Targets(s) : Connected(s, t)
            /\ s \in {"rate", "reservation"} => \A d \in Of(s, "find") : Reaches(s, d))
=============================================================================
