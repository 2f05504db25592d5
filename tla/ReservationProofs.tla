------------------------- MODULE ReservationProofs -------------------------
(***************************************************************************)
(* Theorems about the reservation service, for every set of requests,      *)
(* hotels, capacities and faults.                                          *)
(***************************************************************************)
EXTENDS Reservation, TLAPS, FiniteSetTheorems

Row == Requests \cup {Seed}

-----------------------------------------------------------------------------
(* Sums of rooms *)

\* What a request contains, given the type of req.
LEMMA CallFacts ==
  ASSUME req \in [Requests -> Calls], NEW r \in Requests
  PROVE  /\ req[r] \in Call
         /\ req[r].op \in {"make", "check"}
         /\ req[r].hotels \in Seq(Hotels)
         /\ Make(r) => req[r].hotels # <<>>
         /\ Rooms(r) \in Int
         /\ In(r) \in 0..LastDay
         /\ Out(r) \in 0..LastDay
         /\ Stay(r) \subseteq Nights
         /\ Stay(r) = {n \in Int : In(r) < n /\ n <= Out(r)}
<1>1. req[r] \in Calls
  OBVIOUS
<1>2. req[r] \in Call
  BY <1>1, ConstantsAssumption
<1>3. /\ req[r].op \in {"make", "check"}
      /\ req[r].hotels \in Seq(Hotels)
      /\ Rooms(r) \in Int
  BY <1>2 DEF Call, Rooms
<1>4. Make(r) => req[r].hotels # <<>>
  BY <1>1, ConstantsAssumption DEF Make
<1>5. /\ In(r) \in 0..LastDay
      /\ Out(r) \in 0..LastDay
  BY ConstantsAssumption DEF In, Out, Parse, Nights
<1>6. /\ Stay(r) \subseteq Nights
      /\ Stay(r) = {n \in Int : In(r) < n /\ n <= Out(r)}
  BY <1>5, ConstantsAssumption DEF Stay, Nights
<1> QED
  BY <1>2, <1>3, <1>4, <1>5, <1>6

LEMMA NumberType ==
  ASSUME req \in [Requests -> Calls], NEW x \in Row
  PROVE  Number(x) \in Int
BY CallFacts, ConstantsAssumption DEF Number, Row

\* Rows and requests are finitely many.
LEMMA RowFinite ==
  ASSUME NEW S \in SUBSET Row
  PROVE  IsFiniteSet(S)
<1>1. IsFiniteSet(Row)
  BY FS_AddElement, ConstantsAssumption DEF Row
<1> QED
  BY <1>1, FS_Subset

\* The size of the part of Units (or Debts) that belongs to one row.
LEMMA PartSize ==
  ASSUME NEW x, NEW n \in Int
  PROVE  /\ IsFiniteSet({x} \X (1..n))
         /\ Cardinality({x} \X (1..n)) = IF n > 0 THEN n ELSE 0
<1>1. /\ IsFiniteSet(1..n)
      /\ Cardinality(1..n) = IF n > 0 THEN n ELSE 0
  BY FS_Interval
<1>2. IsFiniteSet({x}) /\ Cardinality({x}) = 1
  BY FS_Singleton
<1>3. Cardinality({x} \X (1..n)) = 1 * Cardinality(1..n) /\ IsFiniteSet({x} \X (1..n))
  BY <1>1, <1>2, FS_Product
<1> QED
  BY <1>1, <1>3

\* The two sets whose sizes make up Total are finite, and grow by the rooms of a
\* row that is added.
LEMMA UnitsFinite ==
  ASSUME req \in [Requests -> Calls], NEW S \in SUBSET Row
  PROVE  IsFiniteSet(Units(S)) /\ IsFiniteSet(Debts(S))
<1> DEFINE f == [x \in S |-> {x} \X (1..Number(x))]
           F == {{x} \X (1..Number(x)) : x \in S}
           g == [x \in S |-> {x} \X (1..(-Number(x)))]
           G == {{x} \X (1..(-Number(x))) : x \in S}
<1>1. IsFiniteSet(S)
  BY RowFinite
<1>2. IsFiniteSet(F) /\ IsFiniteSet(G)
  <2>1. f \in Surjection(S, F) /\ g \in Surjection(S, G)
    BY DEF Surjection
  <2> QED
    BY <1>1, <2>1, FS_Surjection
<1>3. \A x \in S : /\ IsFiniteSet({x} \X (1..Number(x)))
                   /\ IsFiniteSet({x} \X (1..(-Number(x))))
  <2> TAKE x \in S
  <2>1. Number(x) \in Int /\ -Number(x) \in Int
    BY NumberType
  <2> QED
    BY <2>1, PartSize
<1>4. IsFiniteSet(UNION F) /\ IsFiniteSet(UNION G)
  <2>1. (\A T \in F : IsFiniteSet(T)) /\ (\A T \in G : IsFiniteSet(T))
    BY <1>3
  <2> HIDE DEF F, G
  <2> QED
    BY <1>2, <2>1, FS_UNION
<1> QED
  BY <1>4 DEF Units, Debts

LEMMA TotalType ==
  ASSUME req \in [Requests -> Calls], NEW S \in SUBSET Row
  PROVE  Total(S) \in Int
<1>1. IsFiniteSet(Units(S)) /\ IsFiniteSet(Debts(S))
  BY UnitsFinite
<1>2. Cardinality(Units(S)) \in Nat /\ Cardinality(Debts(S)) \in Nat
  BY <1>1, FS_CardinalityType
<1> QED
  BY <1>2 DEF Total

LEMMA TotalEmpty == Total({}) = 0
<1>1. Units({}) = {} /\ Debts({}) = {}
  BY Zenon DEF Units, Debts
<1> QED
  BY <1>1, FS_EmptySet DEF Total

\* Another row adds its rooms to the sum.
LEMMA TotalAdd ==
  ASSUME req \in [Requests -> Calls], NEW S \in SUBSET Row, NEW x \in Row, x \notin S
  PROVE  Total(S \cup {x}) = Total(S) + Number(x)
<1> DEFINE U == {x} \X (1..Number(x))
           D == {x} \X (1..(-Number(x)))
<1>1. Number(x) \in Int /\ -Number(x) \in Int
  BY NumberType
<1>2. /\ IsFiniteSet(U) /\ Cardinality(U) = IF Number(x) > 0 THEN Number(x) ELSE 0
      /\ IsFiniteSet(D) /\ Cardinality(D) = IF -Number(x) > 0 THEN -Number(x) ELSE 0
  BY <1>1, PartSize
<1>3. IsFiniteSet(Units(S)) /\ IsFiniteSet(Debts(S))
  BY UnitsFinite
<1>4. Units(S \cup {x}) = Units(S) \cup U /\ Debts(S \cup {x}) = Debts(S) \cup D
  BY Zenon DEF Units, Debts
<1>5. Units(S) \cap U = {} /\ Debts(S) \cap D = {}
  BY DEF Units, Debts
<1> HIDE DEF U, D
<1>6. /\ Cardinality(Units(S) \cup U) = Cardinality(Units(S)) + Cardinality(U)
      /\ Cardinality(Debts(S) \cup D) = Cardinality(Debts(S)) + Cardinality(D)
  <2>1. /\ Cardinality(Units(S) \cup U)
             = Cardinality(Units(S)) + Cardinality(U) - Cardinality({})
        /\ Cardinality(Debts(S) \cup D)
             = Cardinality(Debts(S)) + Cardinality(D) - Cardinality({})
    BY <1>2, <1>3, <1>5, FS_Union
  <2>2. /\ Cardinality(Units(S)) \in Nat /\ Cardinality(U) \in Nat
        /\ Cardinality(Debts(S)) \in Nat /\ Cardinality(D) \in Nat
    BY <1>2, <1>3, FS_CardinalityType
  <2> QED
    BY <2>1, <2>2, FS_EmptySet
<1>7. Cardinality(Units(S)) \in Nat /\ Cardinality(Debts(S)) \in Nat
  BY <1>3, FS_CardinalityType
<1>8. Total(S \cup {x}) = (Cardinality(Units(S)) + Cardinality(U))
                             - (Cardinality(Debts(S)) + Cardinality(D))
  BY <1>4, <1>6 DEF Total
<1>9. Cardinality(U) - Cardinality(D) = Number(x)
  BY <1>1, <1>2
<1>10. Cardinality(U) \in Nat /\ Cardinality(D) \in Nat
  BY <1>2, FS_CardinalityType
<1> QED
  BY <1>7, <1>8, <1>9, <1>10 DEF Total

\* More rows, more rooms, when nobody books a negative number of them.
LEMMA TotalMonotone ==
  ASSUME req \in [Requests -> Calls], NoNegativeRooms,
         NEW T \in SUBSET Row, NEW S \in SUBSET T
  PROVE  Total(S) <= Total(T)
<1>1. \A x \in Row : Number(x) \in Int /\ Number(x) >= 0
  <2> SUFFICES ASSUME NEW x \in Row PROVE Number(x) \in Int /\ Number(x) >= 0
    OBVIOUS
  <2>1. CASE x = Seed
    BY <2>1 DEF Number
  <2>2. CASE x # Seed
    <3>1. x \in Requests /\ req[x] \in Calls
      BY <2>2 DEF Row
    <3> QED
      BY <2>2, <3>1, CallFacts DEF Number, Rooms, NoNegativeRooms
  <2> QED
    BY <2>1, <2>2
<1>2. \A x \in Row : 1..(-Number(x)) = {}
  BY <1>1
<1>3. Debts(S) = {} /\ Debts(T) = {}
  BY <1>2 DEF Debts
<1>4. Units(S) \in SUBSET Units(T)
  BY DEF Units
<1>5. IsFiniteSet(Units(T))
  BY UnitsFinite
<1>6. /\ Cardinality(Units(S)) <= Cardinality(Units(T))
      /\ IsFiniteSet(Units(S))
  BY <1>4, <1>5, FS_Subset
<1>7. Cardinality(Units(S)) \in Nat /\ Cardinality(Units(T)) \in Nat
  BY <1>5, <1>6, FS_CardinalityType
<1> QED
  BY <1>3, <1>6, <1>7, FS_EmptySet DEF Total

-----------------------------------------------------------------------------
(* Types and control *)

\* Where a handler can be: what its phase says about its other variables.
Control ==
  \A r \in Requests :
    /\ pc[r] \in Running => /\ up
                            /\ hi[r] \in 1..Len(req[r].hotels)
                            /\ day[r] \in Stay(r)
    /\ pc[r] = "new" => hi[r] = 1
    /\ Make(r) => hi[r] = 1
    /\ pc[r] = "find" => count[r] = 0
    /\ pc[r] = "fill" => ~Make(r)
    /\ pc[r] \in {"publish", "insert"} => r \in promised
    /\ r \in promised => Make(r) /\ pc[r] \in {"publish", "insert", "replied", "lost"}
    /\ memo[r] # {} => Make(r) /\ pc[r] \in Running
    /\ \A m \in memo[r] : m.night \in Stay(r)

TypeInv == Typed /\ Control

\* No step changes what the requests ask for ...
LEMMA ReqConstant ==
  ASSUME [Next]_vars
  PROVE  req' = req
BY DEF Next, vars, server, locals, Boot, BootFails, Evict, Quiet, Arrive, Handle,
       Fail, Crash, InsertFails, Die, GetCount, Note, FindForBooking, FindForCheck,
       FillCount, GetCap, FindCap, FillCap, Publish, Insert, InsertNight

\* ... nor what is computed from it.
LEMMA ReqFrame ==
  ASSUME req' = req
  PROVE  /\ \A r : /\ In(r)' = In(r) /\ Out(r)' = Out(r) /\ Stay(r)' = Stay(r)
                   /\ Make(r)' = Make(r) /\ Rooms(r)' = Rooms(r)
                   /\ First(r)' = First(r)
         /\ \A S : Total(S)' = Total(S)
<1>1. \A r : /\ In(r)' = In(r) /\ Out(r)' = Out(r) /\ Stay(r)' = Stay(r)
             /\ Make(r)' = Make(r) /\ Rooms(r)' = Rooms(r)
             /\ First(r)' = First(r)
  BY DEF In, Out, Stay, Make, Rooms, First
<1>2. \A x : Number(x)' = Number(x)
  BY <1>1 DEF Number
<1>3. \A S : Units(S)' = Units(S) /\ Debts(S)' = Debts(S)
  BY <1>2 DEF Units, Debts
<1> QED
  BY <1>1, <1>3 DEF Total

LEMMA InitTypeInv == Init => TypeInv
<1> SUFFICES ASSUME Init PROVE TypeInv
  OBVIOUS
<1>1. Typed
  <2>1. /\ cache \in [Keys -> Int \cup {Absent}]
        /\ capCache \in [Hotels -> Nat \cup {Absent}]
        /\ rows \in [Keys -> SUBSET (Requests \cup {Seed})]
    BY DEF Init
  <2>2. pc \in [Requests -> Phases] /\ up \in BOOLEAN
    BY DEF Init, Phases
  <2>3. /\ result \in [Requests -> Seq(Hotels)]
        /\ memo \in [Requests -> SUBSET [night : Nights, val : Int]]
    BY DEF Init
  <2> QED
    BY <2>1, <2>2, <2>3 DEF Init, Typed
<1>2. Control
  BY DEF Init, Control, Running
<1> QED
  BY <1>1, <1>2 DEF TypeInv

\* The hotel and night a handler works on.
LEMMA KeyFacts ==
  ASSUME TypeInv, NEW r \in Requests, pc[r] \in Running
  PROVE  /\ Hotel(r) \in Hotels
         /\ day[r] \in Nights /\ In(r) < day[r] /\ day[r] <= Out(r)
         /\ Key(r) \in Keys
<1>1. req \in [Requests -> Calls] /\ req[r].hotels \in Seq(Hotels)
  BY CallFacts DEF TypeInv, Typed
<1>2. hi[r] \in 1..Len(req[r].hotels) /\ day[r] \in Stay(r)
  BY DEF TypeInv, Control
<1> QED
  BY <1>1, <1>2, CallFacts DEF Hotel, Key, Keys

\* The step after the capacity check.
LEMMA JudgeTypeInv ==
  ASSUME TypeInv, NEW r \in Requests, NEW c \in Nat, Judge(r, c),
         pc[r] \in {"getCap", "findCap", "fillCap"},
         up' = up, req' = req, count' = count
  PROVE  /\ pc' \in [Requests -> Phases]
         /\ hi' \in [Requests -> Nat \ {0}]
         /\ day' \in [Requests -> Nat]
         /\ memo' \in [Requests -> SUBSET [night : Nights, val : Int]]
         /\ result' \in [Requests -> Seq(Hotels)]
         /\ promised' \subseteq Requests
         /\ Control'
<1>1. /\ Typed /\ Control
      /\ pc[r] \in Running
  BY DEF TypeInv, Running
<1>2. /\ Hotel(r) \in Hotels
      /\ day[r] \in Nights /\ In(r) < day[r] /\ day[r] <= Out(r)
  BY <1>1, KeyFacts
<1>3. req \in [Requests -> Calls]
  BY <1>1 DEF Typed
<1>4. /\ req[r].hotels \in Seq(Hotels)
      /\ In(r) \in 0..LastDay /\ Out(r) \in 0..LastDay
      /\ Stay(r) = {n \in Int : In(r) < n /\ n <= Out(r)}
  BY <1>3, CallFacts
<1>5. /\ \A q : /\ In(q)' = In(q) /\ Out(q)' = Out(q) /\ Stay(q)' = Stay(q)
                /\ Make(q)' = Make(q)
  BY ReqFrame
<1>6. CASE NextNight(r) /\ day[r] # Out(r)
  <2>1. day[r] + 1 \in Stay(r)
    BY <1>2, <1>4, <1>6 DEF Nights
  <2> QED
    BY <1>1, <1>2, <1>5, <1>6, <2>1
    DEF NextNight, Goto, Typed, Control, Phases, Running, Nights
<1>7. CASE Make(r) /\ Reply(r, <<>>) /\ UNCHANGED <<hi, day, promised>>
  BY <1>1, <1>5, <1>7 DEF Reply, Goto, Typed, Control, Phases, Running
<1>8. CASE Make(r) /\ Promise(r)
  <2>1. In(r) + 1 \in Stay(r) /\ In(r) + 1 \in Nat
    BY <1>2, <1>4 DEF Nights
  <2> QED
    BY <1>1, <1>5, <1>8, <2>1 DEF Promise, Goto, Typed, Control, Phases, Running
<1>9. CASE ~Make(r) /\ \E free \in BOOLEAN : NextHotel(r, free)
  <2>1. In(r) + 1 \in Stay(r) /\ In(r) + 1 \in Nat
    BY <1>2, <1>4 DEF Nights
  <2>2. hi[r] \in 1..Len(req[r].hotels) /\ Len(req[r].hotels) \in Nat
    BY <1>1, <1>4 DEF Control
  <2>3. PICK free \in BOOLEAN : NextHotel(r, free)
    BY <1>9
  <2> DEFINE found == IF free THEN Append(result[r], Hotel(r)) ELSE result[r]
  <2>4. found \in Seq(Hotels)
    BY <1>1, <1>2 DEF Typed
  <2>5. \/ /\ hi[r] < Len(req[r].hotels)
           /\ hi' = [hi EXCEPT ![r] = @ + 1]
           /\ day' = [day EXCEPT ![r] = In(r) + 1]
           /\ result' = [result EXCEPT ![r] = found]
           /\ Goto(r, "getCount")
           /\ UNCHANGED <<memo, promised>>
        \/ Reply(r, found) /\ UNCHANGED <<hi, day, promised>>
    BY <2>3 DEF NextHotel
  <2> HIDE DEF found
  <2>6. CASE /\ hi[r] < Len(req[r].hotels)
             /\ hi' = [hi EXCEPT ![r] = @ + 1]
             /\ day' = [day EXCEPT ![r] = In(r) + 1]
             /\ result' = [result EXCEPT ![r] = found]
             /\ Goto(r, "getCount")
             /\ UNCHANGED <<memo, promised>>
    BY <1>1, <1>5, <1>9, <2>1, <2>2, <2>4, <2>6 DEF Goto, Typed, Control, Phases, Running
  <2>7. CASE Reply(r, found) /\ UNCHANGED <<hi, day, promised>>
    BY <1>1, <1>5, <1>9, <2>4, <2>7 DEF Reply, Goto, Typed, Control, Phases, Running
  <2> QED
    BY <2>5, <2>6, <2>7
<1> QED
  BY <1>6, <1>7, <1>8, <1>9 DEF Judge, Decide

\* Only the handler of r notes a hotel without a capacity, one of its own.
LEMMA HandleMisread ==
  ASSUME Typed, NEW r \in Requests, Arrive(r) \/ Handle(r)
  PROVE  /\ misread' \in [Requests -> SUBSET SeededHotels]
         /\ \/ misread' = misread
            \/ /\ pc[r] = "findCap"
               /\ misread' = [misread EXCEPT ![r] = @ \cup ({Hotel(r)} \cap SeededHotels)]
<1>1. misread \in [Requests -> SUBSET SeededHotels]
  BY DEF Typed
<1>2. \/ misread' = misread
      \/ /\ pc[r] = "findCap"
         /\ misread' = [misread EXCEPT ![r] = @ \cup ({Hotel(r)} \cap SeededHotels)]
  BY DEF Arrive, Handle, GetCount, FindForBooking, FindForCheck, FillCount, GetCap,
         FindCap, FillCap, Publish, Insert, InsertNight
<1> QED
  BY <1>1, <1>2

\* The steps of one handler.
LEMMA HandleTypeInv ==
  ASSUME TypeInv, NEW r \in Requests, Arrive(r) \/ Handle(r)
  PROVE  TypeInv'
<1>1. /\ Typed /\ Control /\ req' = req
      /\ misread' \in [Requests -> SUBSET SeededHotels]
  <2>1. Typed /\ Control /\ req' = req
    BY DEF TypeInv, Arrive, Handle, GetCount, Note, FindForBooking, FindForCheck,
           FillCount, GetCap, FindCap, FillCap, Publish, Insert, InsertNight, server
  <2> QED
    BY <2>1, HandleMisread
<1>2. /\ req \in [Requests -> Calls]
      /\ \A q : /\ In(q)' = In(q) /\ Out(q)' = Out(q) /\ Stay(q)' = Stay(q)
                /\ Make(q)' = Make(q)
  BY <1>1, ReqFrame DEF Typed
<1>3. /\ req[r].hotels \in Seq(Hotels)
      /\ Make(r) => req[r].hotels # <<>>
      /\ Rooms(r) \in Int
      /\ In(r) \in 0..LastDay /\ Out(r) \in 0..LastDay
      /\ Stay(r) = {n \in Int : In(r) < n /\ n <= Out(r)}
  BY <1>2, CallFacts
<1>4. pc[r] \in Running => /\ Hotel(r) \in Hotels
                           /\ day[r] \in Nights /\ In(r) < day[r] /\ day[r] <= Out(r)
                           /\ Key(r) \in Keys
                           /\ day[r] \in Stay(r)
  BY KeyFacts DEF TypeInv, Control
<1>5. CASE Arrive(r)
  <2>1. In(r) + 1 \in Nat /\ up /\ pc[r] = "new" /\ hi[r] = 1 /\ memo[r] = {}
    BY <1>1, <1>3, <1>5 DEF Arrive, Control, Running
  <2>2. CASE Stay(r) # {} /\ req[r].hotels # <<>>
    <3>1. /\ day' = [day EXCEPT ![r] = In(r) + 1]
          /\ pc' = [pc EXCEPT ![r] = "getCount"]
          /\ UNCHANGED <<memo, result, promised, server, req, hi, count, cap, blind>>
      BY <1>5, <2>2 DEF Arrive, Goto
    <3>2. In(r) + 1 \in Stay(r) /\ 1 \in 1..Len(req[r].hotels)
      BY <1>3, <2>2
    <3> QED
      BY <1>1, <1>2, <2>1, <3>1, <3>2
      DEF TypeInv, Typed, Control, Phases, Running, server
  <2>3. CASE Stay(r) = {} \/ req[r].hotels = <<>>
    <3> DEFINE reply == IF Make(r) THEN <<Hotel(r)>> ELSE <<>>
    <3>1. /\ day' = [day EXCEPT ![r] = In(r) + 1]
          /\ pc' = [pc EXCEPT ![r] = "replied"]
          /\ result' = [result EXCEPT ![r] = reply]
          /\ memo' = [memo EXCEPT ![r] = {}]
          /\ promised' = IF Make(r) THEN promised \cup {r} ELSE promised
          /\ UNCHANGED <<server, req, hi, count, cap, blind>>
      BY <1>5, <2>3 DEF Arrive, Goto, Reply
    <3>2. reply \in Seq(Hotels)
      BY <1>3, <2>1 DEF Hotel
    <3> HIDE DEF reply
    <3> QED
      BY <1>1, <1>2, <2>1, <3>1, <3>2
      DEF TypeInv, Typed, Control, Phases, Running, server
  <2> QED
    BY <2>2, <2>3
<1>6. CASE GetCount(r)
  <2>1. cache[Key(r)] \in Int \cup {Absent}
    BY <1>1, <1>4, <1>6 DEF GetCount, Note, Typed, Running
  <2>2. /\ pc[r] = "getCount"
        /\ UNCHANGED <<server, req, hi, day, cap, result, promised, blind>>
    BY <1>6 DEF GetCount, Note
  <2>3. CASE cache[Key(r)] # Absent
    <3> DEFINE m == [night |-> day[r], val |-> cache[Key(r)] + Rooms(r)]
    <3>1. m \in [night : Nights, val : Int] /\ m.night = day[r]
      BY <1>3, <1>4, <2>1, <2>2, <2>3 DEF Running
    <3>2. /\ pc' = [pc EXCEPT ![r] = "getCap"]
          /\ count' = [count EXCEPT ![r] = cache[Key(r)]]
          /\ memo' = IF Make(r) THEN [memo EXCEPT ![r] = @ \cup {m}] ELSE memo
      BY <1>6, <2>3 DEF GetCount, Note, Goto
    <3> HIDE DEF m
    <3>3. Typed'
      BY <1>1, <2>1, <2>2, <2>3, <3>1, <3>2 DEF Typed, Phases, Running, server
    <3>4. Control'
      BY <1>1, <1>2, <1>4, <2>2, <3>1, <3>2 DEF Typed, Control, Running, server
    <3> QED
      BY <3>3, <3>4 DEF TypeInv
  <2>4. CASE cache[Key(r)] = Absent
    <3>1. /\ pc' = [pc EXCEPT ![r] = "find"]
          /\ count' = [count EXCEPT ![r] = 0]
          /\ memo' = memo
      BY <1>6, <2>4 DEF GetCount, Note, Goto
    <3> QED
      BY <1>1, <1>2, <1>4, <2>2, <3>1
      DEF TypeInv, Typed, Control, Phases, Running, server
  <2> QED
    BY <2>3, <2>4
<1>7. CASE FindForBooking(r)
  <2>1. [night |-> day[r], val |-> Rooms(r)] \in [night : Nights, val : Int]
    BY <1>3, <1>4, <1>7 DEF FindForBooking, Note, Running
  <2>2. /\ pc[r] = "find" /\ Make(r)
        /\ pc' = [pc EXCEPT ![r] = "getCap"] /\ blind' = blind \cup {r}
        /\ UNCHANGED <<server, req, hi, day, count, cap, result, promised>>
        /\ \/ memo' = [memo EXCEPT ![r] = @ \cup {[night |-> day[r], val |-> 0 + Rooms(r)]}]
           \/ memo' = memo
    BY <1>7 DEF FindForBooking, Note, Goto
  <2>3. 0 + Rooms(r) = Rooms(r)
    BY <1>1, CallFacts DEF Typed
  <2>4. CASE memo' = memo
    BY <1>1, <1>2, <1>4, <2>2, <2>4
    DEF TypeInv, Typed, Control, Phases, Running, server
  <2>5. CASE memo' = [memo EXCEPT ![r] = @ \cup {[night |-> day[r], val |-> Rooms(r)]}]
    <3>1. Typed'
      BY <1>1, <2>1, <2>2, <2>5 DEF Typed, Phases, Running, server
    <3>2. Control'
      BY <1>1, <1>2, <1>4, <2>2, <2>5 DEF Typed, Control, Running, server
    <3> QED
      BY <3>1, <3>2 DEF TypeInv
  <2> QED
    BY <2>2, <2>3, <2>4, <2>5
<1>8. CASE FindForCheck(r)
  <2>1. Total(rows[Key(r)]) \in Int
    BY <1>1, <1>2, <1>4, <1>8, TotalType DEF FindForCheck, Typed, Row, Running
  <2>2. /\ pc[r] = "find" /\ ~Make(r)
        /\ UNCHANGED <<server, req, hi, day, cap, memo, result, promised, blind>>
        /\ \/ /\ count' = [count EXCEPT ![r] = Total(rows[Key(r)])]
              /\ pc' = [pc EXCEPT ![r] = "fill"]
           \/ pc' = [pc EXCEPT ![r] = "getCap"] /\ count' = count
    BY <1>8 DEF FindForCheck, Goto
  <2>3. Typed'
    BY <1>1, <2>1, <2>2 DEF Typed, Phases, Running, server
  <2>4. Control'
    BY <1>1, <1>2, <2>2 DEF Typed, Control, Running, server
  <2> QED
    BY <2>3, <2>4 DEF TypeInv
<1>9. CASE FillCount(r)
  BY <1>1, <1>2, <1>4, <1>9
  DEF FillCount, SetCount, Goto, TypeInv, Typed, Control, Phases, Running, locals
<1>10. CASE GetCap(r)
  <2>1. CASE capCache[Hotel(r)] # Absent
    <3>1. capCache[Hotel(r)] \in Nat /\ pc[r] = "getCap"
      BY <1>1, <1>4, <1>10, <2>1 DEF GetCap, Typed, Running
    <3>2. Judge(r, capCache[Hotel(r)]) /\ UNCHANGED <<server, req, count, cap, blind>>
      BY <1>10, <2>1 DEF GetCap
    <3>3. up' = up /\ req' = req
      BY <3>2 DEF server
    <3> QED
      BY <1>1, <3>1, <3>2, <3>3, JudgeTypeInv DEF TypeInv, Typed, server
  <2>2. CASE capCache[Hotel(r)] = Absent
    BY <1>1, <1>2, <1>10, <2>2
    DEF GetCap, Goto, TypeInv, Typed, Control, Phases, Running, server
  <2> QED
    BY <2>1, <2>2
<1>11. CASE FindCap(r)
  <2>1. CASE Goto(r, "fillCap") /\ cap' = [cap EXCEPT ![r] = Capacity[Hotel(r)]]
             /\ UNCHANGED <<hi, day, memo, result, promised>>
    <3>1. Capacity[Hotel(r)] \in Nat
      BY <1>4, <1>11, ConstantsAssumption DEF FindCap, Running
    <3> QED
      BY <1>1, <1>2, <1>11, <2>1, <3>1
      DEF FindCap, Goto, TypeInv, Typed, Control, Phases, Running, server
  <2>2. CASE Judge(r, 0) /\ UNCHANGED cap
    <3>1. pc[r] = "findCap" /\ UNCHANGED <<server, req, count, cap, blind>>
      BY <1>11, <2>2 DEF FindCap
    <3>2. up' = up
      BY <3>1 DEF server
    <3> QED
      BY <1>1, <2>2, <3>1, <3>2, JudgeTypeInv DEF TypeInv, Typed, server
  <2> QED
    BY <1>11, <2>1, <2>2 DEF FindCap
<1>12. CASE FillCap(r)
  <2>1. /\ pc[r] = "fillCap"
        /\ cap[r] \in Nat
        /\ Judge(r, cap[r])
        /\ UNCHANGED <<up, rows, numbers, cache, req, count, cap, blind>>
        /\ capCache' \in {capCache, [capCache EXCEPT ![Hotel(r)] = cap[r]]}
    BY <1>1, <1>12 DEF FillCap, Typed
  <2> QED
    BY <1>1, <1>4, <2>1, JudgeTypeInv DEF TypeInv, Typed, Running
<1>13. CASE Publish(r)
  <2>1. PICK m \in memo[r] :
          /\ SetCount(<<Hotel(r), m.night>>, m.val)
          /\ memo' = [memo EXCEPT ![r] = @ \ {m}]
          /\ Goto(r, IF memo[r] = {m} THEN "insert" ELSE "publish")
    BY <1>13 DEF Publish
  <2>2. m \in [night : Nights, val : Int]
    BY <1>1, <2>1 DEF Typed
  <2>3. cache' \in [Keys -> Int \cup {Absent}]
    BY <1>1, <1>4, <1>13, <2>1, <2>2 DEF Publish, SetCount, Typed, Running, Keys
  <2> QED
    BY <1>1, <1>2, <1>13, <2>1, <2>3
    DEF Publish, Goto, TypeInv, Typed, Control, Phases, Running
<1>14. CASE Insert(r)
  <2>1. rows' \in [Keys -> SUBSET (Requests \cup {Seed})]
    BY <1>1, <1>4, <1>14 DEF Insert, InsertNight, Typed, Running
  <2>2. CASE day[r] < Out(r) /\ day' = [day EXCEPT ![r] = @ + 1]
             /\ UNCHANGED <<pc, memo, result>>
    <3>1. day[r] + 1 \in Stay(r) /\ day[r] + 1 \in Nat
      BY <1>3, <1>4, <1>14, <2>2 DEF Insert, InsertNight, Running, Nights
    <3> QED
      BY <1>1, <1>2, <1>14, <2>1, <2>2, <3>1
      DEF Insert, InsertNight, TypeInv, Typed, Control, Phases, Running
  <2>3. CASE Reply(r, <<Hotel(r)>>) /\ UNCHANGED day
    <3>1. <<Hotel(r)>> \in Seq(Hotels)
      BY <1>4, <1>14 DEF Insert, InsertNight, Running
    <3> QED
      BY <1>1, <1>2, <1>14, <2>1, <2>3, <3>1
      DEF Insert, InsertNight, Reply, Goto, TypeInv, Typed, Control, Phases, Running
  <2> QED
    BY <1>14, <2>2, <2>3 DEF Insert, InsertNight
<1> QED
  BY <1>5, <1>6, <1>7, <1>8, <1>9, <1>10, <1>11, <1>12, <1>13, <1>14 DEF Handle

\* Every step.
LEMMA NextTypeInv ==
  ASSUME TypeInv, [Next]_vars
  PROVE  TypeInv'
<1>1. Typed /\ Control /\ req' = req
  BY ReqConstant DEF TypeInv
<1>2. \A q : Stay(q)' = Stay(q) /\ Make(q)' = Make(q)
  BY <1>1, ReqFrame
<1>3. Seeded \in [Keys -> SUBSET (Requests \cup {Seed})]
  BY <1>1, ConstantsAssumption DEF Seeded, Typed
<1>4. CASE Boot
  BY <1>1, <1>2, <1>3, <1>4 DEF Boot, TypeInv, Typed, Control, locals
<1>5. CASE BootFails
  BY <1>1, <1>2, <1>3, <1>5 DEF BootFails, TypeInv, Typed, Control, locals
<1>6. CASE Evict
  BY <1>1, <1>2, <1>6 DEF Evict, TypeInv, Typed, Control, locals
<1>7. CASE Quiet \/ UNCHANGED vars
  BY <1>1, <1>2, <1>7 DEF Quiet, vars, server, locals, TypeInv, Typed, Control
<1>8. ASSUME NEW r \in Requests, Arrive(r) \/ Handle(r)
      PROVE  TypeInv'
  BY <1>8, HandleTypeInv
<1>9. ASSUME NEW r \in Requests, Fail(r)
      PROVE  TypeInv'
  <2>1. Die /\ pc[r] \in Running
    BY <1>9 DEF Fail, Crash, InsertFails, Running
  <2>2. rows' \in [Keys -> SUBSET (Requests \cup {Seed})]
    <3>1. rows' \in {rows, [rows EXCEPT ![Key(r)] = @ \cup {r}]}
      BY <1>9 DEF Fail, Crash, InsertFails
    <3>2. Key(r) \in Keys
      BY <2>1, KeyFacts
    <3>3. rows \in [Keys -> SUBSET (Requests \cup {Seed})]
      BY <1>1 DEF Typed
    <3> QED
      BY <3>1, <3>2, <3>3
  <2>3. Typed'
    BY <1>1, <2>1, <2>2 DEF Die, Typed, Phases
  <2>4. Control'
    BY <1>1, <1>2, <2>1 DEF Die, Control, Running
  <2> QED
    BY <2>3, <2>4 DEF TypeInv
<1> QED
  BY <1>4, <1>5, <1>6, <1>7, <1>8, <1>9 DEF Next

\* Every variable keeps its type: a handler never reads a hotel beyond the end
\* of the request's list, nor a night outside the request's stay.
THEOREM TypeCorrect == Spec => []TypeOK
<1>1. Init => TypeInv
  BY InitTypeInv
<1>2. TypeInv /\ [Next]_vars => TypeInv'
  BY NextTypeInv
<1>3. TypeInv => TypeOK
  BY DEF TypeInv, Control, TypeOK, InRange
<1> QED
  BY <1>1, <1>2, <1>3, PTL DEF Spec

-----------------------------------------------------------------------------
(* What the handlers do around the capacity check *)

LEMMA JudgeEffect ==
  ASSUME TypeInv, NEW r \in Requests, NEW c \in Nat, Judge(r, c),
         pc[r] \in {"getCap", "findCap", "fillCap"}
  PROVE  /\ pc'[r] \in {"getCount", "publish", "insert", "replied"}
         /\ memo'[r] \in {memo[r], {}}
         /\ \/ promised' = promised /\ pc'[r] \in {"getCount", "replied"}
            \/ /\ promised' = promised \cup {r} /\ pc'[r] \in {"publish", "insert"}
               /\ Make(r) /\ count[r] + Rooms(r) <= c
<1>1. Typed
  BY DEF TypeInv
<1>2. count[r] + Rooms(r) \in Int
  BY <1>1, CallFacts DEF Typed
<1>3. CASE NextNight(r)
  BY <1>1, <1>3 DEF NextNight, Goto, Typed
<1>4. CASE Reply(r, <<>>) /\ UNCHANGED promised
  BY <1>1, <1>4 DEF Reply, Goto, Typed
<1>5. CASE Make(r) /\ ~(count[r] + Rooms(r) > c) /\ Promise(r)
  BY <1>1, <1>2, <1>5 DEF Promise, Goto, Typed
<1>6. CASE \E free \in BOOLEAN : NextHotel(r, free)
  BY <1>1, <1>6 DEF NextHotel, Reply, Goto, Typed
<1> QED
  BY <1>3, <1>4, <1>5, <1>6 DEF Judge, Decide

\* GetCap, FindCap and FillCap: the next call of the three, or the judgement.
LEMMA CapEffect ==
  ASSUME TypeInv, NEW r \in Requests, GetCap(r) \/ FindCap(r) \/ FillCap(r)
  PROVE  /\ pc[r] \in {"getCap", "findCap", "fillCap"}
         /\ UNCHANGED <<up, rows, numbers, cache, req, count, blind>>
         /\ \A q \in Requests \ {r} :
              /\ pc'[q] = pc[q] /\ hi'[q] = hi[q] /\ day'[q] = day[q]
              /\ memo'[q] = memo[q] /\ result'[q] = result[q]
         /\ \/ /\ pc'[r] \in {"findCap", "fillCap"}
               /\ UNCHANGED <<hi, day, memo, result, promised>>
            \/ \E c \in Nat : Judge(r, c)
<1>1. Typed
  BY DEF TypeInv
<1>2. ASSUME NEW c \in Nat, Judge(r, c)
      PROVE  \A q \in Requests \ {r} :
               /\ pc'[q] = pc[q] /\ hi'[q] = hi[q] /\ day'[q] = day[q]
               /\ memo'[q] = memo[q] /\ result'[q] = result[q]
  BY <1>1, <1>2 DEF Judge, Decide, NextNight, NextHotel, Promise, Reply, Goto, Typed
<1>3. CASE GetCap(r)
  <2>1. CASE capCache[Hotel(r)] # Absent
    <3>1. capCache[Hotel(r)] \in Nat
      BY <1>1, <1>3, <2>1, KeyFacts DEF GetCap, Typed, Running
    <3> QED
      BY <1>2, <1>3, <2>1, <3>1 DEF GetCap, server
  <2>2. CASE capCache[Hotel(r)] = Absent
    BY <1>1, <1>3, <2>2 DEF GetCap, Goto, Typed, server
  <2> QED
    BY <2>1, <2>2
<1>4. CASE FindCap(r)
  <2>1. CASE Goto(r, "fillCap") /\ UNCHANGED <<hi, day, memo, result, promised>>
    BY <1>1, <1>4, <2>1 DEF FindCap, Goto, Typed, server
  <2>2. CASE Judge(r, 0)
    BY <1>2, <1>4, <2>2 DEF FindCap, server
  <2> QED
    BY <1>4, <2>1, <2>2 DEF FindCap
<1>5. CASE FillCap(r)
  <2>1. cap[r] \in Nat
    BY <1>1 DEF Typed
  <2> QED
    BY <1>2, <1>5, <2>1 DEF FillCap
<1> QED
  BY <1>3, <1>4, <1>5

-----------------------------------------------------------------------------
(* Claims *)

LEMMA ClaimsType ==
  ASSUME TypeInv, NEW h, NEW n
  PROVE  ClaimsOf(h, n) \subseteq Row /\ Claimed(h, n) \in Int
<1>1. ClaimsOf(h, n) \subseteq Row
  BY DEF TypeInv, Typed, ClaimsOf, Row
<1> QED
  BY <1>1, TotalType DEF Claimed, TypeInv, Typed

LEMMA ClaimsNonNegative ==
  ASSUME TypeInv, NoNegativeRooms, NEW h, NEW n
  PROVE  Claimed(h, n) >= 0
<1>1. Total({}) <= Total(ClaimsOf(h, n))
  BY ClaimsType, TotalMonotone DEF TypeInv, Typed
<1> QED
  BY <1>1, TotalEmpty DEF Claimed

\* Claims are never withdrawn.  Only a booking that was found to fit adds one.
LEMMA PromisedStep ==
  ASSUME TypeInv, [Next]_vars
  PROVE  \/ promised' = promised
         \/ \E r \in Requests : /\ Make(r) /\ r \notin promised
                                /\ promised' = promised \cup {r}
                                /\ \/ Stay(r) = {} /\ Arrive(r)
                                   \/ GetCap(r) \/ FindCap(r) \/ FillCap(r)
<1>1. ASSUME NEW r \in Requests, Arrive(r)
      PROVE  \/ promised' = promised
             \/ /\ Make(r) /\ r \notin promised
                /\ promised' = promised \cup {r}
                /\ Stay(r) = {}
  <2>1. /\ pc[r] = "new" /\ req \in [Requests -> Calls]
        /\ r \notin promised
    BY <1>1 DEF Arrive, TypeInv, Typed, Control
  <2> QED
    BY <1>1, <2>1, CallFacts DEF Arrive
<1>2. ASSUME NEW r \in Requests, GetCap(r) \/ FindCap(r) \/ FillCap(r)
      PROVE  \/ promised' = promised
             \/ Make(r) /\ r \notin promised /\ promised' = promised \cup {r}
  <2>1. pc[r] \in {"getCap", "findCap", "fillCap"}
    BY <1>2, CapEffect
  <2>2. r \notin promised
    BY <2>1 DEF TypeInv, Control
  <2> QED
    BY <1>2, <2>1, <2>2, CapEffect, JudgeEffect
<1>3. CASE UNCHANGED promised
  BY <1>3
<1> QED
  BY <1>1, <1>2, <1>3
  DEF Next, vars, locals, server, Boot, BootFails, Evict, Quiet, Handle, Fail,
      Crash, InsertFails, Die, GetCount, Note, FindForBooking, FindForCheck,
      FillCount, Publish, Insert, InsertNight

LEMMA ClaimsStep ==
  ASSUME TypeInv, [Next]_vars
  PROVE  /\ promised \subseteq promised'
         /\ \A h, n : ClaimsOf(h, n) \subseteq ClaimsOf(h, n)'
         /\ NoNegativeRooms => \A h, n : /\ Claimed(h, n) \in Int /\ Claimed(h, n) >= 0
                                         /\ Claimed(h, n)' \in Int
                                         /\ Claimed(h, n) <= Claimed(h, n)'
<1>1. req' = req /\ promised \subseteq promised'
  BY ReqConstant, PromisedStep
<1>2. \A h, n : ClaimsOf(h, n) \subseteq ClaimsOf(h, n)'
  BY <1>1, ReqFrame DEF ClaimsOf
<1>3. ASSUME NoNegativeRooms, NEW h, NEW n
      PROVE  /\ Claimed(h, n) \in Int /\ Claimed(h, n) >= 0
             /\ Claimed(h, n)' \in Int
             /\ Claimed(h, n) <= Claimed(h, n)'
  <2>1. PICK T : T = ClaimsOf(h, n)'
    OBVIOUS
  <2>2. Claimed(h, n)' = Total(T)
    BY <1>1, <2>1, ReqFrame DEF Claimed
  <2>3. T \subseteq Row /\ ClaimsOf(h, n) \subseteq T
    <3>1. promised' \subseteq Requests
      BY NextTypeInv DEF TypeInv, Typed
    <3> QED
      BY <1>2, <2>1, <3>1 DEF ClaimsOf, Row
  <2>4. req \in [Requests -> Calls]
    BY DEF TypeInv, Typed
  <2>5. Total(ClaimsOf(h, n)) <= Total(T) /\ Total(T) \in Int
    BY <1>3, <2>3, <2>4, TotalMonotone, TotalType
  <2>6. Claimed(h, n) \in Int /\ Claimed(h, n) >= 0
    BY <1>3, ClaimsType, ClaimsNonNegative
  <2> QED
    BY <2>2, <2>5, <2>6 DEF Claimed
<1> QED
  BY <1>1, <1>2, <1>3

\* A new claim adds the rooms of the booking to each night of its stay.
LEMMA ClaimAdds ==
  ASSUME TypeInv, req' = req, NEW r \in Requests, r \notin promised,
         promised' = promised \cup {r}, NEW h, NEW n
  PROVE  Claimed(h, n)' = IF n \in Stay(r) /\ First(r) = h
                            THEN Claimed(h, n) + Rooms(r) ELSE Claimed(h, n)
<1>1. PICK T : T = ClaimsOf(h, n)'
  OBVIOUS
<1>2. Claimed(h, n)' = Total(T)
  BY <1>1, ReqFrame DEF Claimed
<1>3. T = IF n \in Stay(r) /\ First(r) = h THEN ClaimsOf(h, n) \cup {r} ELSE ClaimsOf(h, n)
  BY <1>1, ReqFrame DEF ClaimsOf
<1>4. r \notin ClaimsOf(h, n) /\ ClaimsOf(h, n) \subseteq Row /\ r \in Row
  BY ClaimsType, ConstantsAssumption DEF ClaimsOf, Row
<1>5. Total(ClaimsOf(h, n) \cup {r}) = Total(ClaimsOf(h, n)) + Number(r)
  BY <1>4, TotalAdd DEF TypeInv, Typed
<1>6. Number(r) = Rooms(r)
  BY ConstantsAssumption DEF Number
<1> QED
  BY <1>2, <1>3, <1>5, <1>6 DEF Claimed

-----------------------------------------------------------------------------
(* The cache is never ahead of the claims *)

\* Every row is a claim.
RowsClaimed == \A k \in Keys : rows[k] \subseteq ClaimsOf(k[1], k[2])

\* The number a handler has read, and the one it is about to write, are bounded
\* by the claims like the one in the cache.
CacheBounded == \A k \in Keys : cache[k] # Absent => cache[k] <= Claimed(k[1], k[2])

CountBounded ==
  \A r \in Requests :
    pc[r] \in {"fill", "getCap", "findCap", "fillCap"} =>
      count[r] <= Claimed(Hotel(r), day[r])

MemoBounded ==
  \A r \in Requests : \A m \in memo[r] :
    m.val <= Claimed(First(r), m.night) + (IF r \in promised THEN 0 ELSE Rooms(r))

BoundInv ==
  /\ TypeInv
  /\ RowsClaimed
  /\ NoNegativeRooms => CacheBounded /\ CountBounded /\ MemoBounded

LEMMA InitBoundInv == Init => BoundInv
<1> SUFFICES ASSUME Init PROVE BoundInv
  OBVIOUS
<1>1. RowsClaimed
  BY DEF Init, RowsClaimed
<1>2. CacheBounded /\ CountBounded /\ MemoBounded
  BY DEF Init, CacheBounded, CountBounded, MemoBounded
<1> QED
  BY <1>1, <1>2, InitTypeInv DEF BoundInv

\* The three ways in which a step changes the rows.
LEMMA RowsEffect ==
  ASSUME TypeInv, [Next]_vars
  PROVE  \/ rows' = rows
         \/ rows' = Seeded
         \/ \E r \in Requests :
              /\ pc[r] = "insert" /\ Key(r) \in Keys
              /\ Insert(r) \/ InsertFails(r)
              /\ rows' = [rows EXCEPT ![Key(r)] = @ \cup {r}]
<1>1. ASSUME NEW r \in Requests, pc[r] = "insert" PROVE Key(r) \in Keys
  BY <1>1, KeyFacts DEF Running
<1> QED
  BY <1>1, CapEffect
  DEF Next, vars, locals, server, Boot, BootFails, Evict, Quiet, Arrive, Handle,
      Fail, Crash, InsertFails, Die, GetCount, Note, FindForBooking, FindForCheck,
      FillCount, Publish, Insert, InsertNight

LEMMA RowsClaimedStep ==
  ASSUME TypeInv, RowsClaimed, [Next]_vars
  PROVE  RowsClaimed'
<1>1. \A k \in Keys : ClaimsOf(k[1], k[2]) \subseteq ClaimsOf(k[1], k[2])'
  BY ClaimsStep
<1>2. rows \in [Keys -> SUBSET Row]
  BY DEF TypeInv, Typed, Row
<1>3. CASE rows' = rows
  BY <1>1, <1>3 DEF RowsClaimed
<1>4. CASE rows' = Seeded
  <2>1. \A k \in Keys : \/ rows'[k] = rows[k]
                        \/ k = <<SeedHotel, SeedNight>> /\ rows'[k] = {Seed}
    BY <1>2, <1>4 DEF Seeded
  <2>2. \A k \in Keys :
          k = <<SeedHotel, SeedNight>> => {Seed} \subseteq ClaimsOf(k[1], k[2])
    BY DEF ClaimsOf, Keys
  <2> QED
    BY <1>1, <2>1, <2>2 DEF RowsClaimed
<1>5. ASSUME NEW r \in Requests, pc[r] = "insert", Key(r) \in Keys,
             rows' = [rows EXCEPT ![Key(r)] = @ \cup {r}]
      PROVE  RowsClaimed'
  <2>1. r \in promised /\ Make(r) /\ hi[r] = 1 /\ day[r] \in Stay(r)
    BY <1>5 DEF TypeInv, Control, Running
  <2>2. r \in ClaimsOf(Key(r)[1], Key(r)[2])
    BY <2>1 DEF ClaimsOf, Key, Hotel, First
  <2>3. \A k \in Keys : \/ rows'[k] = rows[k]
                        \/ k = Key(r) /\ rows'[k] = rows[k] \cup {r}
    BY <1>2, <1>5
  <2> QED
    BY <1>1, <2>2, <2>3 DEF RowsClaimed
<1> QED
  BY <1>3, <1>4, <1>5, RowsEffect

\* The rows found for a night are at most the claims on it.
LEMMA RowsTotal ==
  ASSUME BoundInv, NoNegativeRooms, NEW k \in Keys
  PROVE  Total(rows[k]) \in Int /\ Total(rows[k]) <= Claimed(k[1], k[2])
BY ClaimsType, TotalType, TotalMonotone
DEF BoundInv, RowsClaimed, TypeInv, Typed, Claimed, Row

\* What a step does to the cache: nothing, or it drops an entry, or it writes
\* what a handler has read or computed.
LEMMA CacheEffect ==
  ASSUME BoundInv, NoNegativeRooms, [Next]_vars, NEW k \in Keys
  PROVE  \/ cache'[k] = cache[k] \/ cache'[k] = Absent
         \/ cache'[k] \in Int /\ cache'[k] <= Claimed(k[1], k[2])
<1>1. /\ TypeInv /\ CountBounded /\ MemoBounded
      /\ cache \in [Keys -> Int \cup {Absent}]
  BY DEF BoundInv, TypeInv, Typed
<1>2. ASSUME NEW r \in Requests, FillCount(r)
      PROVE  \/ cache'[k] = cache[k]
             \/ cache'[k] \in Int /\ cache'[k] <= Claimed(k[1], k[2])
  <2>1. pc[r] = "fill" /\ cache' \in {cache, [cache EXCEPT ![Key(r)] = count[r]]}
    BY <1>2 DEF FillCount, SetCount
  <2>2. count[r] \in Int /\ count[r] <= Claimed(Key(r)[1], Key(r)[2])
    BY <1>1, <2>1 DEF CountBounded, TypeInv, Typed, Key
  <2> QED
    BY <1>1, <2>1, <2>2
<1>3. ASSUME NEW r \in Requests, Publish(r)
      PROVE  \/ cache'[k] = cache[k]
             \/ cache'[k] \in Int /\ cache'[k] <= Claimed(k[1], k[2])
  <2>1. PICK m \in memo[r] : SetCount(<<Hotel(r), m.night>>, m.val)
    BY <1>3 DEF Publish
  <2>2. r \in promised /\ Make(r) /\ Hotel(r) = First(r)
    BY <1>1, <1>3 DEF Publish, TypeInv, Control, Running, Hotel, First
  <2>3. m.val \in Int /\ m.night \in Nights
    BY <1>1, <2>1 DEF TypeInv, Typed
  <2>4. m.val <= Claimed(First(r), m.night)
    BY <1>1, <2>2, <2>3, ClaimsType DEF MemoBounded
  <2>5. PICK key : key = <<First(r), m.night>>
    OBVIOUS
  <2>6. key[1] = First(r) /\ key[2] = m.night
    BY <2>5
  <2>7. cache' \in {cache, [cache EXCEPT ![key] = m.val]}
    BY <2>1, <2>2, <2>5 DEF SetCount
  <2> QED
    BY <1>1, <2>3, <2>4, <2>6, <2>7
<1>4. CASE Evict
  BY <1>1, <1>4 DEF Evict
<1>5. CASE UNCHANGED cache
  BY <1>5
<1> QED
  BY <1>1, <1>2, <1>3, <1>4, <1>5, CapEffect
  DEF Next, vars, locals, server, Boot, BootFails, Quiet, Arrive, Handle,
      Fail, Crash, InsertFails, Die, GetCount, Note, FindForBooking, FindForCheck,
      Insert, InsertNight

\* A handler leaves the local variables of the others alone.
LEMMA OthersKept ==
  ASSUME TypeInv, NEW r \in Requests, NEW q \in Requests, r # q, Arrive(r) \/ Handle(r)
  PROVE  /\ hi'[q] = hi[q] /\ day'[q] = day[q] /\ count'[q] = count[q]
         /\ result'[q] = result[q] /\ pc'[q] = pc[q] /\ memo'[q] = memo[q]
<1> DEFINE Kept == /\ hi'[q] = hi[q] /\ day'[q] = day[q] /\ count'[q] = count[q]
                   /\ result'[q] = result[q] /\ pc'[q] = pc[q] /\ memo'[q] = memo[q]
<1>1. Typed
  BY DEF TypeInv
<1>2. CASE Arrive(r)
  BY <1>1, <1>2 DEF Arrive, Goto, Reply, Typed
<1>3. CASE GetCap(r) \/ FindCap(r) \/ FillCap(r)
  BY <1>3, CapEffect
<1>4. ASSUME \/ GetCount(r) \/ FindForBooking(r) \/ FindForCheck(r)
             \/ FillCount(r) \/ Publish(r)
      PROVE  Kept
  <2>1. UNCHANGED <<hi, day, result>>
    BY <1>4 DEF GetCount, Note, FindForBooking, FindForCheck, FillCount, Publish, locals
  <2>2. pc'[q] = pc[q] /\ count'[q] = count[q] /\ memo'[q] = memo[q]
    BY <1>1, <1>4
    DEF GetCount, Note, FindForBooking, FindForCheck, FillCount, Publish, Goto,
        locals, Typed
  <2> QED
    BY <2>1, <2>2
<1>5. CASE Insert(r)
  BY <1>1, <1>5 DEF Insert, InsertNight, Goto, Reply, Typed
<1> QED
  BY <1>2, <1>3, <1>4, <1>5 DEF Handle

\* A request advances by its own handler; a crash ends it; nothing else
\* disturbs its local variables.
LEMMA OwnSteps ==
  ASSUME TypeInv, [Next]_vars, NEW q \in Requests
  PROVE  \/ Arrive(q) \/ Handle(q)
         \/ /\ hi'[q] = hi[q] /\ day'[q] = day[q] /\ count'[q] = count[q]
            /\ result'[q] = result[q]
            /\ \/ pc'[q] = pc[q] /\ memo'[q] = memo[q]
               \/ pc'[q] = pc[q] /\ pc[q] \notin Running /\ memo'[q] = {}
               \/ pc'[q] = "lost" /\ pc[q] \in Running /\ memo'[q] = {}
<1>1. ASSUME NEW r \in Requests, Fail(r)
      PROVE  /\ hi' = hi /\ day' = day /\ count' = count /\ result' = result
             /\ memo'[q] = {}
             /\ pc'[q] = IF pc[q] \in Running THEN "lost" ELSE pc[q]
  BY <1>1 DEF Fail, Crash, InsertFails, Die
<1>2. CASE Boot \/ BootFails \/ Evict \/ Quiet \/ UNCHANGED vars
  BY <1>2 DEF Boot, BootFails, Evict, Quiet, vars, locals
<1> QED
  BY <1>1, <1>2, OthersKept DEF Next

LEMMA CountStep ==
  ASSUME BoundInv, NoNegativeRooms, [Next]_vars
  PROVE  CountBounded'
<1> DEFINE Counted == {"fill", "getCap", "findCap", "fillCap"}
<1> SUFFICES ASSUME NEW q \in Requests, pc'[q] \in Counted
             PROVE  count'[q] <= (Claimed(Hotel(q), day[q]))'
  BY DEF CountBounded
<1>1. /\ TypeInv /\ Typed /\ CacheBounded /\ CountBounded
      /\ req' = req /\ TypeInv'
  BY ReqConstant, NextTypeInv DEF BoundInv, TypeInv
<1>2. \A h, n : /\ Claimed(h, n) \in Int /\ Claimed(h, n) >= 0
                /\ Claimed(h, n)' \in Int
                /\ Claimed(h, n) <= Claimed(h, n)'
  BY <1>1, ClaimsStep
<1>3. ASSUME hi'[q] = hi[q], day'[q] = day[q],
             count'[q] \in Int, count'[q] <= Claimed(Hotel(q), day[q])
      PROVE  count'[q] <= (Claimed(Hotel(q), day[q]))'
  <2>1. Hotel(q)' = Hotel(q)
    BY <1>1, <1>3 DEF Hotel
  <2>2. PICK h, n : h = Hotel(q) /\ n = day[q]
    OBVIOUS
  <2>3. (Claimed(Hotel(q), day[q]))' = Claimed(h, n)'
    BY <1>3, <2>1, <2>2
  <2> QED
    BY <1>2, <1>3, <2>2, <2>3
<1>4. count[q] \in Int /\ (pc[q] \in Running => Key(q) \in Keys)
  BY <1>1, KeyFacts DEF Typed
<1>5. CASE GetCount(q)
  <2>1. /\ pc[q] = "getCount" /\ UNCHANGED <<hi, day>>
        /\ \/ cache[Key(q)] # Absent /\ count' = [count EXCEPT ![q] = cache[Key(q)]]
           \/ pc' = [pc EXCEPT ![q] = "find"]
    BY <1>5 DEF GetCount, Note, Goto
  <2>2. cache[Key(q)] # Absent /\ count'[q] = cache[Key(q)]
    BY <1>1, <2>1 DEF Typed
  <2>3. Key(q) \in Keys /\ cache[Key(q)] \in Int
    BY <1>1, <1>4, <2>1, <2>2 DEF Typed, Running
  <2>4. cache[Key(q)] <= Claimed(Key(q)[1], Key(q)[2])
    BY <1>1, <2>2, <2>3 DEF CacheBounded
  <2>5. Key(q)[1] = Hotel(q) /\ Key(q)[2] = day[q]
    BY DEF Key
  <2> QED
    BY <1>3, <2>1, <2>2, <2>3, <2>4, <2>5
<1>6. CASE FindForBooking(q)
  <2>1. count[q] = 0 /\ UNCHANGED <<hi, day, count>>
    BY <1>1, <1>6 DEF FindForBooking, Note, TypeInv, Control
  <2> QED
    BY <1>2, <1>3, <2>1
<1>7. CASE FindForCheck(q)
  <2>1. /\ count[q] = 0 /\ UNCHANGED <<hi, day>>
        /\ Key(q) \in Keys /\ Key(q)[1] = Hotel(q) /\ Key(q)[2] = day[q]
    BY <1>1, <1>4, <1>7 DEF FindForCheck, TypeInv, Control, Running, Key
  <2>2. /\ Total(rows[Key(q)]) \in Int
        /\ Total(rows[Key(q)]) <= Claimed(Hotel(q), day[q])
    BY <2>1, RowsTotal
  <2>3. count'[q] = 0 \/ count'[q] = Total(rows[Key(q)])
    BY <1>1, <1>7, <2>1 DEF FindForCheck, Typed
  <2> QED
    BY <1>2, <1>3, <2>1, <2>2, <2>3
<1>8. CASE FillCount(q)
  BY <1>1, <1>3, <1>4, <1>8 DEF FillCount, locals, CountBounded
<1>9. CASE GetCap(q) \/ FindCap(q) \/ FillCap(q)
  <2>1. pc[q] \in {"getCap", "findCap", "fillCap"} /\ count' = count
    BY <1>1, <1>9, CapEffect
  <2>2. UNCHANGED <<hi, day>>
    BY <1>1, <1>9, <2>1, CapEffect, JudgeEffect
  <2> QED
    BY <1>1, <1>3, <1>4, <2>1, <2>2 DEF CountBounded
<1>10. CASE Arrive(q) \/ Publish(q) \/ Insert(q)
  BY <1>1, <1>10 DEF Arrive, Publish, Insert, InsertNight, Goto, Reply, Typed
<1>11. CASE /\ hi'[q] = hi[q] /\ day'[q] = day[q] /\ count'[q] = count[q]
            /\ pc'[q] \in {pc[q], "lost"}
  BY <1>1, <1>3, <1>4, <1>11 DEF CountBounded
<1>12. \/ Arrive(q) \/ Handle(q)
       \/ /\ hi'[q] = hi[q] /\ day'[q] = day[q] /\ count'[q] = count[q]
          /\ pc'[q] \in {pc[q], "lost"}
  <2>1. \/ Arrive(q) \/ Handle(q)
        \/ /\ hi'[q] = hi[q] /\ day'[q] = day[q] /\ count'[q] = count[q]
           /\ result'[q] = result[q]
           /\ \/ pc'[q] = pc[q] /\ memo'[q] = memo[q]
              \/ pc'[q] = pc[q] /\ pc[q] \notin Running /\ memo'[q] = {}
              \/ pc'[q] = "lost" /\ pc[q] \in Running /\ memo'[q] = {}
    BY <1>1, OwnSteps
  <2> QED
    BY <2>1
<1> QED
  BY <1>5, <1>6, <1>7, <1>8, <1>9, <1>10, <1>11, <1>12 DEF Handle

LEMMA MemoStep ==
  ASSUME BoundInv, NoNegativeRooms, [Next]_vars
  PROVE  MemoBounded'
<1> SUFFICES ASSUME NEW q \in Requests, NEW m \in memo'[q]
             PROVE  m.val <= Claimed(First(q), m.night)'
                               + (IF q \in promised' THEN 0 ELSE Rooms(q)')
  BY DEF MemoBounded
<1>1. /\ TypeInv /\ Typed /\ CacheBounded /\ MemoBounded
      /\ req' = req /\ TypeInv'
  BY ReqConstant, NextTypeInv DEF BoundInv, TypeInv
<1>2. /\ Rooms(q)' = Rooms(q) /\ First(q)' = First(q)
      /\ Rooms(q) \in Int /\ Rooms(q) >= 0
  <2>1. req[q] \in Calls /\ Rooms(q) \in Int
    BY <1>1, CallFacts DEF Typed
  <2> QED
    BY <1>1, <2>1, ReqFrame DEF NoNegativeRooms, Rooms
<1>3. m.val \in Int /\ m.night \in Nights
  BY <1>1 DEF TypeInv, Typed
<1>hn. PICK h, n : h = First(q) /\ n = m.night
  OBVIOUS
<1>4. /\ Claimed(h, n) \in Int /\ Claimed(h, n) >= 0
      /\ Claimed(h, n)' \in Int
      /\ Claimed(h, n) <= Claimed(h, n)'
      /\ promised \subseteq promised'
  BY <1>1, ClaimsStep
<1> SUFFICES m.val <= Claimed(h, n)' + (IF q \in promised' THEN 0 ELSE Rooms(q))
  BY <1>2, <1>hn
<1>5. CASE m \in memo[q]
  <2>1. m.val <= Claimed(h, n) + (IF q \in promised THEN 0 ELSE Rooms(q))
    BY <1>1, <1>5, <1>hn DEF MemoBounded
  <2>2. CASE q \in promised \/ q \notin promised'
    BY <1>2, <1>3, <1>4, <2>1, <2>2
  <2>3. CASE q \notin promised /\ q \in promised'
    <3>1. promised' = promised \cup {q}
      BY <1>1, <2>3, PromisedStep
    <3>2. n \in Stay(q) /\ First(q) = h
      BY <1>1, <1>5, <1>hn DEF Control, TypeInv
    <3>3. Claimed(h, n)' = Claimed(h, n) + Rooms(q)
      BY <1>1, <2>3, <3>1, <3>2, ClaimAdds
    <3> QED
      BY <1>2, <1>3, <1>4, <2>1, <2>3, <3>3
  <2> QED
    BY <2>2, <2>3
<1>6. CASE m \notin memo[q]
  <2>1. GetCount(q) \/ FindForBooking(q)
    <3>1. Arrive(q) => memo'[q] = {}  \/ memo' = memo
      BY <1>1 DEF Arrive, Reply, Typed
    <3>2. GetCap(q) \/ FindCap(q) \/ FillCap(q) => memo'[q] \in {memo[q], {}}
      BY <1>1, CapEffect, JudgeEffect
    <3>3. FindForCheck(q) \/ FillCount(q) => memo' = memo
      BY DEF FindForCheck, FillCount, locals
    <3>4. Publish(q) => memo'[q] \subseteq memo[q]
      BY <1>1 DEF Publish, Typed
    <3>5. Insert(q) => memo'[q] = {} \/ memo' = memo
      BY <1>1 DEF Insert, InsertNight, Reply, Typed
    <3> QED
      BY <1>1, <1>6, <3>1, <3>2, <3>3, <3>4, <3>5, OwnSteps DEF Handle
  <2>2. /\ q \notin promised /\ promised' = promised
        /\ pc[q] \in {"getCount", "find"} /\ pc[q] \in Running
    BY <1>1, <2>1 DEF GetCount, Note, FindForBooking, TypeInv, Control, Running
  <2>3. CASE GetCount(q)
    <3>1. /\ Make(q) /\ cache[Key(q)] # Absent
          /\ m = [night |-> day[q], val |-> cache[Key(q)] + Rooms(q)]
      BY <1>1, <1>6, <2>3 DEF GetCount, Note, Typed
    <3>2. Key(q) \in Keys /\ Key(q)[1] = h /\ Key(q)[2] = n
      BY <1>1, <1>hn, <2>2, <3>1, KeyFacts DEF Key, Hotel, First, TypeInv, Control
    <3>3. cache[Key(q)] \in Int /\ cache[Key(q)] <= Claimed(h, n)
      BY <1>1, <3>1, <3>2 DEF CacheBounded, Typed
    <3> QED
      BY <1>2, <1>3, <1>4, <2>2, <3>1, <3>3
  <2>4. CASE FindForBooking(q)
    <3>1. m = [night |-> day[q], val |-> 0 + Rooms(q)]
      BY <1>1, <1>6, <2>4 DEF FindForBooking, Note, Typed
    <3> QED
      BY <1>2, <1>3, <1>4, <2>2, <3>1
  <2> QED
    BY <2>1, <2>3, <2>4
<1> QED
  BY <1>5, <1>6

LEMMA NextBoundInv ==
  ASSUME BoundInv, [Next]_vars
  PROVE  BoundInv'
<1>1. TypeInv' /\ RowsClaimed'
  BY NextTypeInv, RowsClaimedStep DEF BoundInv
<1>2. ASSUME NoNegativeRooms
      PROVE  CacheBounded' /\ CountBounded' /\ MemoBounded'
  <2>1. CacheBounded'
    <3> SUFFICES ASSUME NEW k \in Keys, cache'[k] # Absent
                 PROVE  cache'[k] <= Claimed(k[1], k[2])'
      BY DEF CacheBounded
    <3>1. \/ cache'[k] = cache[k]
          \/ cache'[k] \in Int /\ cache'[k] <= Claimed(k[1], k[2])
      BY <1>2, CacheEffect
    <3>2. cache'[k] \in Int /\ cache'[k] <= Claimed(k[1], k[2])
      BY <1>2, <3>1 DEF BoundInv, TypeInv, Typed, CacheBounded
    <3>3. /\ Claimed(k[1], k[2]) \in Int /\ Claimed(k[1], k[2])' \in Int
          /\ Claimed(k[1], k[2]) <= Claimed(k[1], k[2])'
      BY <1>2, ClaimsStep DEF BoundInv
    <3> QED
      BY <3>2, <3>3
  <2> QED
    BY <1>2, <2>1, CountStep, MemoStep
<1>3. NoNegativeRooms' => NoNegativeRooms
  <2>1. req' = req
    BY ReqConstant DEF BoundInv, TypeInv
  <2> QED
    BY <2>1 DEF NoNegativeRooms, Rooms
<1> QED
  BY <1>1, <1>2, <1>3 DEF BoundInv

\* memcached never holds more rooms for a night than were claimed, whatever the
\* interleaving, the evictions, the lost writes and the crashes: a write that
\* arrives late can only make it forget bookings.
THEOREM CacheStaysBehind == Spec => []CacheNeverAhead
<1>1. Init => BoundInv
  BY InitBoundInv
<1>2. BoundInv /\ [Next]_vars => BoundInv'
  BY NextBoundInv
<1>3. BoundInv => CacheNeverAhead
  BY DEF BoundInv, CacheBounded, CacheNeverAhead
<1> QED
  BY <1>1, <1>2, <1>3, PTL DEF Spec

-----------------------------------------------------------------------------
(* No client is turned away without a reason *)

\* A capacity in the cache, or on its way there, is right; and while the
\* collection "number" answers, so is the one that a handler finds in it.
CapsRight ==
  /\ "numberError" \notin Faults => (up => numbers = SeededHotels)
  /\ \A h \in Hotels : capCache[h] # Absent => capCache[h] = RoomsOf(h)
  /\ \A r \in Requests : pc[r] = "fillCap" => cap[r] = RoomsOf(Hotel(r))

\* The i-th hotel of the request is in the reply, was full, or was not read.
Settled(r, i) ==
  \/ \E j \in DOMAIN result[r] : result[r][j] = req[r].hotels[i]
  \/ Full(r, req[r].hotels[i])
  \/ req[r].hotels[i] \in misread[r]

\* The hotels that a handler has left behind are settled.
AllSettled ==
  NoNegativeRooms =>
    \A r \in Requests : Stay(r) # {} =>
      \A i \in DOMAIN req[r].hotels :
        pc[r] = "replied" \/ (pc[r] \in Running /\ i < hi[r]) =>
          (Make(r) /\ i # 1) \/ Settled(r, i)

RefusalInv == BoundInv /\ CapsRight /\ AllSettled

LEMMA InitRefusalInv == Init => RefusalInv
<1> SUFFICES ASSUME Init PROVE RefusalInv
  OBVIOUS
<1>1. CapsRight
  BY DEF Init, CapsRight
<1>2. AllSettled
  BY DEF Init, AllSettled, Running
<1> QED
  BY <1>1, <1>2, InitBoundInv DEF RefusalInv

LEMMA RoomsOfType ==
  ASSUME NEW h \in Hotels
  PROVE  RoomsOf(h) \in Nat
BY ConstantsAssumption DEF RoomsOf

\* So the judgement is about the hotel's rooms, unless the handler has not read them.
LEMMA JudgedOrMisread ==
  ASSUME TypeInv, CapsRight, NEW r \in Requests,
         GetCap(r) \/ FindCap(r) \/ FillCap(r)
  PROVE  \/ /\ pc'[r] \in {"findCap", "fillCap"}
            /\ UNCHANGED <<hi, day, memo, result, promised>>
         \/ \E c \in Nat : /\ Judge(r, c)
                           /\ c = RoomsOf(Hotel(r)) \/ Hotel(r) \in misread'[r]
<1>1. Typed /\ pc[r] \in Running /\ up
  BY CapEffect DEF TypeInv, Control, Running
<1>2. Hotel(r) \in Hotels /\ RoomsOf(Hotel(r)) \in Nat
  BY <1>1, KeyFacts, RoomsOfType
<1>3. CASE GetCap(r)
  BY <1>1, <1>2, <1>3 DEF GetCap, CapsRight, Goto, Typed
<1>4. CASE FindCap(r)
  <2>1. CASE Goto(r, "fillCap") /\ UNCHANGED <<hi, day, memo, result, promised>>
    BY <1>1, <2>1 DEF Goto, Typed
  <2>2. CASE /\ Judge(r, 0)
             /\ misread' = [misread EXCEPT ![r] = @ \cup ({Hotel(r)} \cap SeededHotels)]
    <3>1. CASE Hotel(r) \in SeededHotels
      BY <1>1, <2>2, <3>1 DEF Typed
    <3>2. CASE Hotel(r) \notin SeededHotels
      BY <2>2, <3>2 DEF RoomsOf
    <3> QED
      BY <3>1, <3>2
  <2> QED
    BY <1>4, <2>1, <2>2 DEF FindCap
<1>5. CASE FillCap(r)
  BY <1>2, <1>5 DEF FillCap, CapsRight
<1> QED
  BY <1>3, <1>4, <1>5

\* ... and is about them while the collection "number" answers.
LEMMA JudgedByRooms ==
  ASSUME TypeInv, CapsRight, "numberError" \notin Faults, NEW r \in Requests,
         GetCap(r) \/ FindCap(r) \/ FillCap(r)
  PROVE  \/ /\ pc'[r] \in {"findCap", "fillCap"}
            /\ UNCHANGED <<hi, day, memo, result, promised>>
         \/ Judge(r, RoomsOf(Hotel(r)))
<1>1. Typed /\ pc[r] \in Running /\ up
  BY CapEffect DEF TypeInv, Control, Running
<1>2. Hotel(r) \in Hotels
  BY <1>1, KeyFacts
<1>3. CASE GetCap(r)
  BY <1>1, <1>2, <1>3 DEF GetCap, CapsRight, Goto, Typed
<1>4. CASE FindCap(r)
  <2>1. Hotel(r) \notin numbers => RoomsOf(Hotel(r)) = 0
    BY <1>1 DEF CapsRight, RoomsOf
  <2> QED
    BY <1>1, <1>4, <2>1 DEF FindCap, Goto, Typed
<1>5. CASE FillCap(r)
  BY <1>5 DEF FillCap, CapsRight
<1> QED
  BY <1>3, <1>4, <1>5

\* Only a FindOne that has read the document leads to the Set of a capacity.
LEMMA FillCapFollows ==
  ASSUME TypeInv, [Next]_vars, NEW r \in Requests, pc'[r] = "fillCap"
  PROVE  \/ /\ FindCap(r) /\ UNCHANGED hi /\ Hotel(r) \in numbers
            /\ cap' = [cap EXCEPT ![r] = Capacity[Hotel(r)]]
         \/ pc[r] = "fillCap" /\ hi'[r] = hi[r] /\ cap'[r] = cap[r]
<1>0. Typed /\ req' = req
  BY ReqConstant DEF TypeInv
<1>1. Arrive(r) => pc'[r] \in {"getCount", "replied"}
  BY <1>0 DEF Arrive, Goto, Reply, Typed
<1>2. GetCount(r) \/ FindForBooking(r) \/ FindForCheck(r) \/ FillCount(r) =>
        pc'[r] \in {"getCap", "find", "fill"}
  BY <1>0 DEF GetCount, Note, FindForBooking, FindForCheck, FillCount, Goto, Typed
<1>3. GetCap(r) \/ FillCap(r) => pc'[r] # "fillCap"
  <2>1. ASSUME NEW c \in Nat, Judge(r, c), pc[r] \in {"getCap", "fillCap"}
        PROVE  pc'[r] # "fillCap"
    BY <2>1, JudgeEffect
  <2>2. GetCap(r) => \/ pc'[r] = "findCap"
                     \/ \E c \in Nat : Judge(r, c) /\ pc[r] = "getCap"
    <3>1. GetCap(r) => capCache[Hotel(r)] \in Nat \cup {Absent}
      BY <1>0, KeyFacts DEF GetCap, Typed, Running
    <3> QED
      BY <1>0, <3>1 DEF GetCap, Goto, Typed
  <2>3. FillCap(r) => \E c \in Nat : Judge(r, c) /\ pc[r] = "fillCap"
    BY <1>0 DEF FillCap, Typed
  <2> QED
    BY <2>1, <2>2, <2>3
<1>4. Publish(r) \/ Insert(r) => pc'[r] \in {"publish", "insert", "replied"}
  BY <1>0 DEF Publish, Insert, InsertNight, Goto, Reply, Typed
<1>5. FindCap(r) \/ (pc[r] = "fillCap" /\ hi'[r] = hi[r])
  BY <1>1, <1>2, <1>3, <1>4, OwnSteps DEF Handle
<1>6. CASE FindCap(r)
  BY <1>6, JudgeEffect DEF FindCap, TypeInv
<1>7. CASE pc[r] = "fillCap" /\ hi'[r] = hi[r]
  <2>1. ASSUME NEW q \in Requests, FindCap(q) PROVE cap'[r] = cap[r]
    BY <1>0, <1>7, <2>1 DEF FindCap, Typed
  <2>2. CASE UNCHANGED cap
    BY <1>7, <2>2
  <2> QED
    BY <1>7, <2>1, <2>2
    DEF Next, vars, locals, server, Boot, BootFails, Evict, Quiet, Arrive,
        Handle, Fail, Crash, InsertFails, Die, GetCount, Note, FindForBooking,
        FindForCheck, FillCount, GetCap, FillCap, Publish, Insert, InsertNight
<1> QED
  BY <1>5, <1>6, <1>7

LEMMA CapsRightStep ==
  ASSUME TypeInv, CapsRight, [Next]_vars
  PROVE  CapsRight'
<1> SUFFICES /\ "numberError" \notin Faults => (up' => numbers' = SeededHotels)
             /\ \A h \in Hotels : capCache'[h] # Absent => capCache'[h] = RoomsOf(h)
             /\ \A r \in Requests :
                  pc'[r] = "fillCap" => cap'[r] = RoomsOf(Hotel(r)')
  BY DEF CapsRight, RoomsOf
<1>1. Typed /\ req' = req
  BY ReqConstant DEF TypeInv
<1>2. ASSUME "numberError" \notin Faults PROVE up' => numbers' = SeededHotels
  <2>1. CASE Boot
    BY <1>1, <1>2, <2>1 DEF Boot, Typed
  <2>2. CASE BootFails
    BY <2>2 DEF BootFails
  <2>3. CASE UNCHANGED numbers /\ (up' => up)
    BY <1>2, <2>3 DEF CapsRight
  <2> QED
    BY <2>1, <2>2, <2>3, CapEffect
    DEF Next, vars, locals, server, Evict, Quiet, Arrive, Handle, Fail, Crash,
        InsertFails, Die, GetCount, Note, FindForBooking, FindForCheck, FillCount,
        Publish, Insert, InsertNight
<1>3. ASSUME NEW h \in Hotels, capCache'[h] # Absent
      PROVE  capCache'[h] = RoomsOf(h)
  <2>1. ASSUME NEW r \in Requests, FillCap(r)
        PROVE  capCache'[h] \in {capCache[h], RoomsOf(h)}
    <3>1. capCache' \in {capCache, [capCache EXCEPT ![Hotel(r)] = cap[r]]}
      BY <2>1 DEF FillCap
    <3>2. cap[r] = RoomsOf(Hotel(r))
      BY <2>1 DEF FillCap, CapsRight
    <3>3. capCache \in [Hotels -> Nat \cup {Absent}]
      BY <1>1 DEF Typed
    <3> QED
      BY <3>1, <3>2, <3>3
  <2>2. CASE Evict
    BY <1>1, <1>3, <2>2 DEF Evict, Typed, CapsRight
  <2>3. CASE UNCHANGED capCache
    BY <1>3, <2>3 DEF CapsRight
  <2> QED
    BY <1>3, <2>1, <2>2, <2>3
    DEF Next, vars, locals, server, Boot, BootFails, Quiet, Arrive, Handle, Fail,
        Crash, InsertFails, Die, GetCount, Note, FindForBooking, FindForCheck,
        FillCount, GetCap, FindCap, Publish, Insert, InsertNight, CapsRight
<1>4. ASSUME NEW r \in Requests, pc'[r] = "fillCap"
      PROVE  cap'[r] = RoomsOf(Hotel(r)')
  <2>1. CASE /\ FindCap(r) /\ UNCHANGED hi /\ Hotel(r) \in numbers
             /\ cap' = [cap EXCEPT ![r] = Capacity[Hotel(r)]]
    <3>1. RoomsOf(Hotel(r)) = Capacity[Hotel(r)]
      BY <1>1, <2>1 DEF RoomsOf, Typed
    <3> QED
      BY <1>1, <2>1, <3>1 DEF Hotel, Typed
  <2>2. CASE pc[r] = "fillCap" /\ hi'[r] = hi[r] /\ cap'[r] = cap[r]
    BY <1>1, <2>2 DEF CapsRight, Hotel
  <2> QED
    BY <1>4, <2>1, <2>2, FillCapFollows
<1> QED
  BY <1>2, <1>3, <1>4

LEMMA FullStep ==
  ASSUME TypeInv, NoNegativeRooms, [Next]_vars, NEW r \in Requests, NEW h \in Hotels,
         Full(r, h)
  PROVE  Full(r, h)'
<1>1. /\ req' = req /\ Rooms(r) \in Int
      /\ Rooms(r)' = Rooms(r) /\ Stay(r)' = Stay(r)
  BY ReqConstant, ReqFrame, CallFacts DEF TypeInv, Typed
<1>2. PICK n \in Stay(r) : Claimed(h, n) + Rooms(r) > RoomsOf(h)
  BY DEF Full
<1>3. /\ Claimed(h, n) \in Int /\ Claimed(h, n)' \in Int
      /\ Claimed(h, n) <= Claimed(h, n)'
  BY ClaimsStep
<1>4. Claimed(h, n)' + Rooms(r) > RoomsOf(h)
  BY <1>1, <1>2, <1>3, RoomsOfType
<1>5. RoomsOf(h)' = RoomsOf(h)
  BY DEF RoomsOf
<1> QED
  BY <1>1, <1>4, <1>5 DEF Full

\* What a handler has not read stays noted.
LEMMA MisreadGrows ==
  ASSUME TypeInv, [Next]_vars, NEW q \in Requests
  PROVE  misread[q] \subseteq misread'[q]
<1>1. Typed
  BY DEF TypeInv
<1>2. ASSUME NEW r \in Requests, Arrive(r) \/ Handle(r)
      PROVE  misread[q] \subseteq misread'[q]
  <2>1. \/ misread' = misread
        \/ misread' = [misread EXCEPT ![r] = @ \cup ({Hotel(r)} \cap SeededHotels)]
    BY <1>1, <1>2, HandleMisread
  <2> QED
    BY <1>1, <2>1 DEF Typed
<1>3. CASE misread' = misread
  BY <1>3
<1> QED
  BY <1>2, <1>3
  DEF Next, vars, Boot, BootFails, Evict, Quiet, Fail, Crash, InsertFails, Die

\* When a handler finds a night full, it is.
LEMMA FullWhenJudged ==
  ASSUME BoundInv, NoNegativeRooms, NEW r \in Requests,
         pc[r] \in {"getCap", "findCap", "fillCap"},
         count[r] + Rooms(r) > RoomsOf(Hotel(r))
  PROVE  Full(r, Hotel(r))
<1>1. /\ TypeInv /\ Typed /\ pc[r] \in Running
      /\ count[r] <= Claimed(Hotel(r), day[r])
  BY DEF BoundInv, TypeInv, CountBounded, Running
<1>2. Hotel(r) \in Hotels /\ day[r] \in Stay(r)
  BY <1>1, KeyFacts DEF TypeInv, Control
<1>3. /\ count[r] \in Int /\ Rooms(r) \in Int /\ Claimed(Hotel(r), day[r]) \in Int
      /\ RoomsOf(Hotel(r)) \in Nat
  BY <1>1, <1>2, CallFacts, ClaimsType, RoomsOfType DEF Typed
<1>4. Claimed(Hotel(r), day[r]) + Rooms(r) > RoomsOf(Hotel(r))
  BY <1>1, <1>3
<1> QED
  BY <1>2, <1>4 DEF Full

\* Hotels settled by the judgement itself.
LEMMA JudgeSettles ==
  ASSUME RefusalInv, NoNegativeRooms, [Next]_vars,
         NEW r \in Requests, pc[r] \in {"getCap", "findCap", "fillCap"},
         NEW c \in Nat, Judge(r, c),
         c = RoomsOf(Hotel(r)) \/ Hotel(r) \in misread'[r],
         NEW i \in DOMAIN req[r].hotels, i = 1 \/ ~Make(r),
         pc'[r] = "replied" \/ (pc'[r] \in Running /\ i < hi'[r])
  PROVE  \/ \E j \in DOMAIN result'[r] : result'[r][j] = req[r].hotels[i]
         \/ Full(r, req[r].hotels[i])
         \/ req[r].hotels[i] \in misread'[r]
<1>1. /\ BoundInv /\ TypeInv /\ Typed /\ Control /\ pc[r] \in Running
      /\ Stay(r) # {}
  BY DEF RefusalInv, BoundInv, TypeInv, Control, Running
<1>2. /\ hi[r] \in 1..Len(req[r].hotels) /\ req[r].hotels \in Seq(Hotels)
      /\ result[r] \in Seq(Hotels) /\ Hotel(r) \in Hotels
  BY <1>1, CallFacts, KeyFacts DEF Control, Typed
<1>3. i < hi[r] => \/ \E j \in DOMAIN result[r] : result[r][j] = req[r].hotels[i]
                   \/ Full(r, req[r].hotels[i])
                   \/ req[r].hotels[i] \in misread'[r]
  BY <1>1, MisreadGrows DEF RefusalInv, AllSettled, Settled
<1>4. count[r] + Rooms(r) > c => Full(r, Hotel(r)) \/ Hotel(r) \in misread'[r]
  BY <1>1, FullWhenJudged
<1>5. CASE NextNight(r)
  BY <1>1, <1>3, <1>5 DEF NextNight, Goto, Typed, Running
<1>6. CASE Make(r) /\ count[r] + Rooms(r) > c
  <2>1. i = 1 /\ hi[r] = 1
    BY <1>1, <1>6 DEF Control
  <2> QED
    BY <1>4, <1>6, <2>1 DEF Hotel
<1>7. CASE Make(r) /\ Promise(r)
  <2>1. i = 1 /\ hi'[r] = 1 /\ pc'[r] # "replied"
    BY <1>1, <1>7 DEF Control, Promise, Goto, Typed
  <2> QED
    BY <2>1
<1>8. ASSUME NEW free \in BOOLEAN, NextHotel(r, free),
             ~free => count[r] + Rooms(r) > c
      PROVE  \/ \E j \in DOMAIN result'[r] : result'[r][j] = req[r].hotels[i]
             \/ Full(r, req[r].hotels[i])
             \/ req[r].hotels[i] \in misread'[r]
  <2> DEFINE found == IF free THEN Append(result[r], Hotel(r)) ELSE result[r]
  <2>1. result'[r] = found /\ i <= hi[r]
    <3>1. \/ /\ hi[r] < Len(req[r].hotels) /\ hi' = [hi EXCEPT ![r] = @ + 1]
             /\ result' = [result EXCEPT ![r] = found]
             /\ pc' = [pc EXCEPT ![r] = "getCount"]
          \/ /\ hi[r] = Len(req[r].hotels)
             /\ result' = [result EXCEPT ![r] = found]
      BY <1>8 DEF NextHotel, Reply, Goto
    <3>2. result'[r] = found
      BY <1>1, <3>1 DEF Typed
    <3>3. i \in 1..Len(req[r].hotels) /\ hi[r] \in Nat
      BY <1>2
    <3>4. hi[r] < Len(req[r].hotels) => hi'[r] = hi[r] + 1 /\ pc'[r] = "getCount"
      BY <1>1, <3>1 DEF Typed
    <3> QED
      BY <3>1, <3>2, <3>3, <3>4
  <2>2. CASE i < hi[r]
    <3>1. \A j \in DOMAIN result[r] : j \in DOMAIN found /\ found[j] = result[r][j]
      BY <1>2
    <3> QED
      BY <1>3, <2>1, <2>2, <3>1
  <2>3. CASE i = hi[r] /\ free
    <3>1. found = Append(result[r], Hotel(r))
      BY <2>3
    <3>2. Len(found) \in DOMAIN found /\ found[Len(found)] = Hotel(r)
      BY <1>2, <3>1
    <3> QED
      BY <2>1, <2>3, <3>2 DEF Hotel
  <2>4. CASE i = hi[r] /\ ~free
    BY <1>4, <1>8, <2>4 DEF Hotel
  <2> QED
    BY <1>2, <2>1, <2>2, <2>3, <2>4
<1> QED
  BY <1>5, <1>6, <1>7, <1>8 DEF Judge, Decide

LEMMA AllSettledStep ==
  ASSUME RefusalInv, [Next]_vars
  PROVE  AllSettled'
<1>1. /\ BoundInv /\ TypeInv /\ Typed /\ Control /\ CapsRight /\ AllSettled
      /\ req' = req /\ TypeInv'
  BY ReqConstant, NextTypeInv DEF RefusalInv, BoundInv, TypeInv
<1>2. SUFFICES ASSUME NoNegativeRooms, NEW r \in Requests, Stay(r) # {},
                      NEW i \in DOMAIN req[r].hotels, i = 1 \/ ~Make(r),
                      pc'[r] = "replied" \/ (pc'[r] \in Running /\ i < hi'[r])
               PROVE  \/ \E j \in DOMAIN result'[r] : result'[r][j] = req[r].hotels[i]
                      \/ Full(r, req[r].hotels[i])
                      \/ req[r].hotels[i] \in misread'[r]
  <2>1. \A r \in Requests : Stay(r)' = Stay(r) /\ Make(r)' = Make(r)
    BY <1>1, ReqFrame
  <2>2. \A r \in Requests : req[r].hotels \in Seq(Hotels)
    BY <1>1, CallFacts DEF Typed
  <2>3. \A r \in Requests : \A i \in DOMAIN req[r].hotels : req[r].hotels[i] \in Hotels
    BY <2>2
  <2>4. ASSUME NEW r \in Requests, NEW i \in DOMAIN req[r].hotels,
               NoNegativeRooms, Full(r, req[r].hotels[i])
        PROVE  Full(r, req[r].hotels[i])'
    <3>1. PICK h \in Hotels : h = req[r].hotels[i]
      BY <2>3
    <3>2. Full(r, h)'
      BY <1>1, <2>4, <3>1, FullStep
    <3> QED
      BY <1>1, <3>1, <3>2
  <2>5. NoNegativeRooms' => NoNegativeRooms
    BY <1>1 DEF NoNegativeRooms, Rooms
  <2> QED
    BY <1>1, <2>1, <2>4, <2>5 DEF AllSettled, Settled
<1>3. req[r].hotels \in Seq(Hotels) /\ i \in Nat /\ i >= 1
  BY <1>1, CallFacts DEF Typed
<1>4. CASE /\ hi'[r] = hi[r] /\ result'[r] = result[r]
           /\ \/ pc'[r] = pc[r] \/ pc'[r] = "lost"
              \/ pc[r] \in Running /\ pc'[r] \in Running
  BY <1>1, <1>2, <1>4, MisreadGrows DEF AllSettled, Settled, Running
<1>5. CASE Arrive(r)
  <2>1. req[r].hotels # <<>> /\ hi[r] = 1
    BY <1>1, <1>3, <1>5 DEF Arrive, Control
  <2> QED
    BY <1>1, <1>2, <1>3, <1>5, <2>1 DEF Arrive, Goto, Typed
<1>6. CASE GetCount(r) \/ FindForBooking(r) \/ FindForCheck(r) \/ FillCount(r) \/ Publish(r)
  <2>1. pc[r] \in Running /\ pc'[r] \in Running /\ UNCHANGED <<hi, result>>
    BY <1>1, <1>6
    DEF GetCount, Note, FindForBooking, FindForCheck, FillCount, Publish, Goto, Typed,
        Running, locals
  <2> QED
    BY <1>4, <2>1
<1>7. CASE GetCap(r) \/ FindCap(r) \/ FillCap(r)
  <2>1. pc[r] \in {"getCap", "findCap", "fillCap"}
    BY <1>1, <1>7, CapEffect
  <2>2. CASE pc'[r] \in {"findCap", "fillCap"} /\ UNCHANGED <<hi, result>>
    BY <1>4, <2>1, <2>2 DEF Running
  <2>3. ASSUME NEW c \in Nat, Judge(r, c),
               c = RoomsOf(Hotel(r)) \/ Hotel(r) \in misread'[r]
        PROVE  \/ \E j \in DOMAIN result'[r] : result'[r][j] = req[r].hotels[i]
               \/ Full(r, req[r].hotels[i])
               \/ req[r].hotels[i] \in misread'[r]
    BY <1>2, <2>1, <2>3, JudgeSettles
  <2> QED
    BY <1>1, <1>2, <1>7, <2>2, <2>3, JudgedOrMisread
<1>8. CASE Insert(r)
  <2>1. Make(r) /\ hi[r] = 1 /\ i = 1 /\ hi' = hi /\ pc[r] = "insert"
    BY <1>1, <1>2, <1>8 DEF Insert, InsertNight, Control
  <2>2. CASE UNCHANGED <<pc, result>>
    BY <1>4, <2>1, <2>2
  <2>3. CASE Reply(r, <<Hotel(r)>>)
    <3>1. result'[r] = <<req[r].hotels[1]>>
      BY <1>1, <2>1, <2>3 DEF Reply, Hotel, Typed
    <3>2. 1 \in DOMAIN result'[r] /\ result'[r][1] = req[r].hotels[1]
      BY <3>1
    <3> QED
      BY <2>1, <3>2
  <2> QED
    BY <1>8, <2>2, <2>3 DEF Insert, InsertNight
<1> QED
  BY <1>1, <1>4, <1>5, <1>6, <1>7, <1>8, OwnSteps DEF Handle

\* A booking is refused, and a hotel left out of an availability reply, only
\* when the claims on one of its nights leave too few rooms, or this request's own
\* FindOne did not find the hotel's capacity: neither a stale or lost cache entry nor
\* the failure of another request costs a client a room.
THEOREM RefusalsJustified == Spec => []NoFalseRefusal
<1>1. Init => RefusalInv
  BY InitRefusalInv
<1>2. RefusalInv /\ [Next]_vars => RefusalInv'
  BY NextBoundInv, CapsRightStep, AllSettledStep DEF RefusalInv, BoundInv
<1>3. RefusalInv => NoFalseRefusal
  BY DEF RefusalInv, AllSettled, Settled, NoFalseRefusal
<1> QED
  BY <1>1, <1>2, <1>3, PTL DEF Spec

\* A capacity that is cached, or on its way, has been read from a document.
CapsStored ==
  /\ CapacityIsTrue
  /\ \A r \in Requests :
       pc[r] = "fillCap" => Hotel(r) \in numbers /\ cap[r] = Capacity[Hotel(r)]

LEMMA CapsStoredStep ==
  ASSUME TypeInv, CapsStored, [Next]_vars
  PROVE  CapsStored'
<1>1. Typed /\ req' = req
  BY ReqConstant DEF TypeInv
<1>2. numbers \subseteq numbers'
  <2>1. CASE Boot \/ BootFails
    BY <2>1 DEF Boot, BootFails
  <2>2. CASE UNCHANGED numbers
    BY <2>2
  <2> QED
    BY <2>1, <2>2, CapEffect
    DEF Next, vars, locals, server, Evict, Quiet, Arrive, Handle, Fail, Crash,
        InsertFails, Die, GetCount, Note, FindForBooking, FindForCheck, FillCount,
        Publish, Insert, InsertNight
<1>3. ASSUME NEW h \in Hotels, capCache'[h] # Absent
      PROVE  h \in numbers' /\ capCache'[h] = Capacity[h]
  <2>1. ASSUME NEW r \in Requests, FillCap(r)
        PROVE  \/ capCache'[h] = capCache[h]
               \/ h \in numbers /\ capCache'[h] = Capacity[h]
    <3>1. capCache' \in {capCache, [capCache EXCEPT ![Hotel(r)] = cap[r]]}
      BY <2>1 DEF FillCap
    <3>2. Hotel(r) \in numbers /\ cap[r] = Capacity[Hotel(r)]
      BY <2>1 DEF FillCap, CapsStored
    <3>3. capCache \in [Hotels -> Nat \cup {Absent}]
      BY <1>1 DEF Typed
    <3> QED
      BY <3>1, <3>2, <3>3
  <2>2. CASE Evict
    BY <1>1, <1>2, <1>3, <2>2 DEF Evict, Typed, CapsStored, CapacityIsTrue
  <2>3. CASE capCache'[h] = capCache[h]
    BY <1>2, <1>3, <2>3 DEF CapsStored, CapacityIsTrue
  <2>4. CASE h \in numbers /\ capCache'[h] = Capacity[h]
    BY <1>2, <2>4
  <2> QED
    BY <2>1, <2>2, <2>3, <2>4
    DEF Next, vars, locals, server, Boot, BootFails, Quiet, Arrive, Handle, Fail,
        Crash, InsertFails, Die, GetCount, Note, FindForBooking, FindForCheck,
        FillCount, GetCap, FindCap, Publish, Insert, InsertNight
<1>4. ASSUME NEW r \in Requests, pc'[r] = "fillCap"
      PROVE  Hotel(r)' \in numbers' /\ cap'[r] = Capacity[Hotel(r)']
  <2>1. CASE /\ FindCap(r) /\ UNCHANGED hi /\ Hotel(r) \in numbers
             /\ cap' = [cap EXCEPT ![r] = Capacity[Hotel(r)]]
    BY <1>1, <1>2, <2>1 DEF Hotel, Typed
  <2>2. CASE pc[r] = "fillCap" /\ hi'[r] = hi[r] /\ cap'[r] = cap[r]
    BY <1>1, <1>2, <2>2 DEF CapsStored, Hotel
  <2> QED
    BY <1>4, <2>1, <2>2, FillCapFollows
<1> QED
  BY <1>3, <1>4 DEF CapsStored, CapacityIsTrue

\* A failed FindOne is not remembered: whatever fails and interleaves, memcached
\* has the capacity of a hotel's document or none.
THEOREM FailuresAreForgotten == Spec => []CapacityIsTrue
<1>1. Init => BoundInv /\ CapsStored
  <2>1. Init => CapsStored
    BY DEF Init, CapsStored, CapacityIsTrue
  <2> QED
    BY <2>1, InitRefusalInv DEF RefusalInv
<1>2. BoundInv /\ CapsStored /\ [Next]_vars => (BoundInv /\ CapsStored)'
  BY NextBoundInv, CapsStoredStep DEF BoundInv
<1>3. CapsStored => CapacityIsTrue
  BY DEF CapsStored
<1> QED
  BY <1>1, <1>2, <1>3, PTL DEF Spec

-----------------------------------------------------------------------------
(* Bookings are filed for whole stays *)

\* The insertion of rows starts at the first night.
FirstNight == \A r \in Requests : pc[r] = "publish" => day[r] = In(r) + 1

WholeInv == BoundInv /\ FirstNight /\ StaysWhole

LEMMA InitWholeInv == Init => WholeInv
<1> SUFFICES ASSUME Init PROVE WholeInv
  OBVIOUS
<1>1. FirstNight
  BY DEF Init, FirstNight
<1>2. \A k \in Keys : rows[k] = {}
  BY DEF Init
<1>3. \A r \in Requests : Make(r) => <<First(r), 0>> \in Hotels \X Int
  BY CallFacts DEF Init, First
<1>4. \A r \in Requests : Make(r) => Filed(r) = {}
  BY <1>2, <1>3 DEF Filed, Keys
<1>5. StaysWhole
  BY <1>2, <1>4 DEF Init, StaysWhole
<1> QED
  BY <1>1, <1>5, InitBoundInv DEF WholeInv

\* The effect of one inserted row.
LEMMA RowFiled ==
  ASSUME TypeInv, req' = req, NEW q \in Requests, pc[q] = "insert",
         rows' = [rows EXCEPT ![Key(q)] = @ \cup {q}],
         NEW r \in Requests, Make(r)
  PROVE  Filed(r)' = IF q = r THEN Filed(r) \cup {day[r]} ELSE Filed(r)
<1>1. /\ First(r)' = First(r) /\ First(r) \in Hotels
      /\ rows \in [Keys -> SUBSET Row]
  BY ReqFrame, CallFacts DEF TypeInv, Typed, First, Row
<1>2. \A n \in Nights : <<First(r), n>> \in Keys
  BY <1>1 DEF Keys
<1>3. /\ Key(q) \in Keys /\ day[q] \in Nights
      /\ q = r => Key(q) = <<First(r), day[r]>>
  BY KeyFacts DEF Running, TypeInv, Control, Key, Hotel, First
<1>4. PICK key : key = Key(q)
  OBVIOUS
<1>5. \A k \in Keys : rows'[k] = IF k = key THEN rows[k] \cup {q} ELSE rows[k]
  BY <1>1, <1>4
<1>6. CASE q # r
  <2>1. \A k \in Keys : r \in rows'[k] <=> r \in rows[k]
    BY <1>5, <1>6
  <2> QED
    BY <1>1, <1>2, <1>6, <2>1 DEF Filed
<1>7. CASE q = r
  <2>1. \A n \in Nights : r \in rows'[<<First(r), n>>]
                            <=> (n = day[r] \/ r \in rows[<<First(r), n>>])
    BY <1>2, <1>3, <1>4, <1>5, <1>7
  <2> QED
    BY <1>1, <1>3, <1>7, <2>1 DEF Filed
<1> QED
  BY <1>6, <1>7

\* Rows of a request are added by its own handler only, one night at a time.
LEMMA FiledEffect ==
  ASSUME TypeInv, [Next]_vars, NEW r \in Requests, Make(r)
  PROVE  \/ Filed(r)' = Filed(r)
         \/ /\ Insert(r) \/ InsertFails(r)
            /\ Filed(r)' = Filed(r) \cup {day[r]}
<1>1. /\ Typed /\ req' = req /\ First(r)' = First(r) /\ First(r) \in Hotels
      /\ rows \in [Keys -> SUBSET Row]
  BY ReqConstant, ReqFrame, CallFacts DEF TypeInv, Typed, First, Row
<1>2. \A n \in Nights : <<First(r), n>> \in Keys
  BY <1>1 DEF Keys
<1>3. CASE rows' = rows
  BY <1>1, <1>3 DEF Filed
<1>4. CASE rows' = Seeded
  <2>1. \A k \in Keys : r \in rows'[k] <=> r \in rows[k]
    <3>1. r # Seed
      BY ConstantsAssumption
    <3>2. CASE \A n \in Nights : rows[<<SeedHotel, n>>] = {}
      <4>1. rows' = [rows EXCEPT ![<<SeedHotel, SeedNight>>] = {Seed}]
        BY <1>4, <3>2 DEF Seeded
      <4>2. rows[<<SeedHotel, SeedNight>>] = {}
        BY <3>2, ConstantsAssumption DEF Keys
      <4>3. \A k \in Keys : \/ rows'[k] = rows[k]
                            \/ rows'[k] = {Seed} /\ rows[k] = {}
        BY <1>1, <4>1, <4>2
      <4> QED
        BY <3>1, <4>3
    <3>3. CASE ~\A n \in Nights : rows[<<SeedHotel, n>>] = {}
      BY <1>4, <3>3 DEF Seeded
    <3> QED
      BY <3>2, <3>3
  <2> QED
    BY <1>1, <1>2, <2>1 DEF Filed
<1>5. ASSUME NEW q \in Requests, pc[q] = "insert", Insert(q) \/ InsertFails(q),
             rows' = [rows EXCEPT ![Key(q)] = @ \cup {q}]
      PROVE  \/ Filed(r)' = Filed(r)
             \/ /\ Insert(r) \/ InsertFails(r)
                /\ Filed(r)' = Filed(r) \cup {day[r]}
  BY <1>1, <1>5, RowFiled
<1> QED
  BY <1>3, <1>4, <1>5, RowsEffect

LEMMA FirstNightStep ==
  ASSUME TypeInv, FirstNight, [Next]_vars
  PROVE  FirstNight'
<1>1. Typed /\ req' = req
  BY ReqConstant DEF TypeInv
<1> SUFFICES ASSUME NEW r \in Requests, pc'[r] = "publish"
             PROVE  day'[r] = In(r) + 1
  BY <1>1, ReqFrame DEF FirstNight
<1>2. CASE GetCap(r) \/ FindCap(r) \/ FillCap(r)
  <2>1. PICK c \in Nat : Judge(r, c)
    BY <1>2, CapEffect
  <2>2. CASE Promise(r)
    BY <1>1, <2>2 DEF Promise, Typed
  <2>3. CASE ~Promise(r)
    BY <1>1, <2>1, <2>3
    DEF Judge, Decide, NextNight, NextHotel, Reply, Goto, Typed
  <2> QED
    BY <2>2, <2>3
<1>3. CASE Publish(r)
  BY <1>3 DEF Publish, FirstNight
<1>4. CASE Insert(r) \/ Arrive(r)
  BY <1>1, <1>4 DEF Insert, InsertNight, Arrive, Reply, Goto, Typed
<1>5. CASE GetCount(r) \/ FindForBooking(r) \/ FindForCheck(r) \/ FillCount(r)
  BY <1>1, <1>5 DEF GetCount, FindForBooking, FindForCheck, FillCount, Goto, Typed
<1>6. CASE day'[r] = day[r] /\ pc'[r] = pc[r]
  BY <1>6 DEF FirstNight
<1> QED
  BY <1>2, <1>3, <1>4, <1>5, <1>6, OwnSteps DEF Handle

\* How far the filing of a booking has come, phase by phase.
Progress(r) ==
  \/ r \notin promised /\ Filed(r) = {} /\ result[r] = <<>>
  \/ r \in promised /\ pc[r] = "publish" /\ Filed(r) = {}
  \/ r \in promised /\ pc[r] = "insert" /\ Filed(r) = (In(r) + 1)..(day[r] - 1)
  \/ /\ r \in promised /\ pc[r] = "lost"
     /\ \E d \in In(r)..Out(r) : Filed(r) = (In(r) + 1)..d
  \/ /\ r \in promised /\ pc[r] = "replied"
     /\ Filed(r) = Stay(r) /\ result[r] = <<First(r)>>

LEMMA ProgressStep ==
  ASSUME TypeInv, FirstNight, [Next]_vars, NEW r \in Requests, Make(r), Progress(r)
  PROVE  Progress(r)'
<1>1. /\ Typed /\ Control /\ req' = req
      /\ In(r)' = In(r) /\ Out(r)' = Out(r) /\ Stay(r)' = Stay(r)
      /\ First(r)' = First(r)
  BY ReqConstant, ReqFrame DEF TypeInv
<1>2. /\ In(r) \in Nat /\ Out(r) \in Nat /\ Stay(r) = (In(r) + 1)..Out(r)
      /\ hi[r] = 1 /\ Hotel(r) = First(r)
  BY <1>1, CallFacts, ConstantsAssumption DEF Typed, Control, Stay, Hotel, First
<1>3. pc[r] \in Running => /\ day[r] \in Nat /\ In(r) < day[r] /\ day[r] <= Out(r)
  BY KeyFacts, ConstantsAssumption DEF Nights
<1>4. r \in promised' <=> \/ r \in promised
                          \/ r \in promised' /\ Arrive(r)
                          \/ r \in promised' /\ (GetCap(r) \/ FindCap(r) \/ FillCap(r))
  BY PromisedStep
<1>5. ~(Insert(r) \/ InsertFails(r)) => Filed(r)' = Filed(r)
  BY FiledEffect
<1>6. CASE Insert(r)
  <2>1. /\ pc[r] = "insert" /\ r \in promised /\ promised' = promised
        /\ Filed(r) = (In(r) + 1)..(day[r] - 1)
    BY <1>1, <1>6 DEF Insert, InsertNight, Control, Progress
  <2>2. /\ Filed(r)' = (In(r) + 1)..day[r]
        /\ day[r] \in Nat /\ In(r) < day[r] /\ day[r] <= Out(r)
    <3>1. Filed(r)' = Filed(r) \cup {day[r]}
      BY <1>1, <1>6, <2>1, RowFiled DEF Insert, InsertNight
    <3> QED
      BY <1>2, <1>3, <2>1, <3>1 DEF Running
  <2>3. CASE day' = [day EXCEPT ![r] = @ + 1] /\ UNCHANGED pc
    <3>1. day'[r] = day[r] + 1 /\ day'[r] - 1 = day[r]
      BY <1>1, <2>2, <2>3 DEF Typed
    <3> QED
      BY <1>1, <2>1, <2>2, <2>3, <3>1 DEF Progress
  <2>4. CASE ~(day[r] < Out(r)) /\ Reply(r, <<Hotel(r)>>)
    <3>1. pc'[r] = "replied" /\ result'[r] = <<First(r)>>
      BY <1>1, <1>2, <2>4 DEF Reply, Goto, Typed
    <3>2. day[r] = Out(r)
      BY <1>2, <2>2, <2>4
    <3> QED
      BY <1>1, <1>2, <2>1, <2>2, <3>1, <3>2 DEF Progress
  <2> QED
    BY <1>6, <2>3, <2>4 DEF Insert, InsertNight
<1>7. CASE InsertFails(r)
  <2>1. /\ pc[r] = "insert" /\ r \in promised /\ promised' = promised
        /\ pc'[r] = "lost" /\ Filed(r) = (In(r) + 1)..(day[r] - 1)
    BY <1>1, <1>7 DEF InsertFails, Die, Control, Progress, Running
  <2>2. day[r] \in Nat /\ In(r) < day[r] /\ day[r] <= Out(r)
    BY <1>3, <2>1 DEF Running
  <2>3. \/ Filed(r)' = (In(r) + 1)..(day[r] - 1)
        \/ Filed(r)' = (In(r) + 1)..day[r]
    <3>1. Filed(r)' = Filed(r) \/ Filed(r)' = Filed(r) \cup {day[r]}
      BY FiledEffect
    <3>2. ((In(r) + 1)..(day[r] - 1)) \cup {day[r]} = (In(r) + 1)..day[r]
      BY <1>2, <2>2
    <3> QED
      BY <2>1, <3>1, <3>2
  <2>4. day[r] \in In(r)..Out(r) /\ day[r] - 1 \in In(r)..Out(r)
    BY <1>2, <2>2
  <2>5. \E d \in In(r)..Out(r) : Filed(r)' = (In(r) + 1)..d
    BY <2>3, <2>4
  <2> QED
    BY <1>1, <2>1, <2>5 DEF Progress
<1>8. CASE Arrive(r)
  <2>1. /\ pc[r] = "new" /\ r \notin promised /\ Filed(r)' = {}
        /\ result[r] = <<>>
    BY <1>1, <1>5, <1>8 DEF Arrive, Control, Progress, Insert, InsertNight, InsertFails
  <2>2. CASE UNCHANGED <<memo, result, promised>>
    BY <2>1, <2>2 DEF Progress
  <2>3. CASE /\ Stay(r) = {} /\ promised' = promised \cup {r}
             /\ Reply(r, <<Hotel(r)>>)
    <3>1. pc'[r] = "replied" /\ result'[r] = <<First(r)>>
      BY <1>1, <1>2, <2>3 DEF Reply, Goto, Typed
    <3> QED
      BY <1>1, <2>1, <2>3, <3>1 DEF Progress
  <2>4. req[r].hotels # <<>>
    BY <1>1, CallFacts DEF Typed
  <2> QED
    BY <1>8, <2>2, <2>3, <2>4 DEF Arrive
<1>9. CASE GetCap(r) \/ FindCap(r) \/ FillCap(r)
  <2>1. pc[r] \in {"getCap", "findCap", "fillCap"}
    BY <1>9, CapEffect
  <2>2. /\ r \notin promised /\ Filed(r) = {} /\ Filed(r)' = {}
        /\ result[r] = <<>>
    BY <1>1, <1>5, <2>1 DEF Control, Progress, Insert, InsertNight, InsertFails
  <2>3. CASE UNCHANGED <<promised, result>>
    BY <2>2, <2>3 DEF Progress
  <2>4. CASE Reply(r, <<>>) /\ UNCHANGED promised
    BY <1>1, <2>2, <2>4 DEF Reply, Progress, Typed
  <2>5. CASE Promise(r)
    <3>1. /\ r \in promised' /\ pc'[r] \in {"publish", "insert"}
          /\ day'[r] = In(r) + 1
      BY <1>1, <2>5 DEF Promise, Goto, Typed
    <3>2. (In(r) + 1)..(day'[r] - 1) = {}
      BY <1>2, <3>1
    <3> QED
      BY <1>1, <2>2, <3>1, <3>2 DEF Progress
  <2> QED
    BY <1>9, <2>3, <2>4, <2>5, CapEffect DEF Judge, Decide, NextNight
<1>10. CASE Publish(r)
  <2>1. /\ pc[r] = "publish" /\ pc'[r] \in {"publish", "insert"}
        /\ day'[r] = day[r] /\ promised' = promised
    BY <1>1, <1>10 DEF Publish, Goto, Typed
  <2>2. /\ r \in promised /\ Filed(r)' = {} /\ day'[r] = In(r) + 1
    BY <1>1, <1>5, <2>1
    DEF Control, Progress, FirstNight, Insert, InsertNight, InsertFails
  <2>3. (In(r) + 1)..(day'[r] - 1) = {}
    BY <1>2, <2>2
  <2> QED
    BY <1>1, <2>1, <2>2, <2>3 DEF Progress
<1>11. CASE GetCount(r) \/ FindForBooking(r) \/ FindForCheck(r) \/ FillCount(r)
  <2>1. /\ pc[r] \in {"getCount", "find", "fill"}
        /\ UNCHANGED <<result, promised>>
    BY <1>11 DEF GetCount, FindForBooking, FindForCheck, FillCount, locals
  <2>2. r \notin promised /\ Filed(r)' = {} /\ result[r] = <<>>
    BY <1>1, <1>5, <2>1 DEF Control, Progress, Insert, InsertNight, InsertFails
  <2> QED
    BY <2>1, <2>2 DEF Progress
<1>12. ASSUME ~Arrive(r), ~Handle(r), ~InsertFails(r), day'[r] = day[r],
              result'[r] = result[r],
              pc'[r] = pc[r] \/ (pc'[r] = "lost" /\ pc[r] \in Running)
       PROVE  Progress(r)'
  <2>1. /\ Filed(r)' = Filed(r) /\ (r \in promised' <=> r \in promised)
    BY <1>4, <1>5, <1>12 DEF Handle
  <2>2. CASE pc'[r] = pc[r] \/ r \notin promised
    BY <1>1, <1>12, <2>1, <2>2 DEF Progress
  <2>3. CASE r \in promised /\ pc'[r] = "lost" /\ pc[r] \in Running
    <3>1. day[r] \in Nat /\ In(r) < day[r] /\ day[r] <= Out(r)
      BY <1>3, <2>3
    <3>2. \/ Filed(r) = {}
          \/ Filed(r) = (In(r) + 1)..(day[r] - 1)
      BY <2>3 DEF Progress, Running
    <3>3. /\ In(r) \in In(r)..Out(r) /\ day[r] - 1 \in In(r)..Out(r)
          /\ (In(r) + 1)..In(r) = {}
      BY <1>2, <3>1
    <3>4. \E d \in In(r)..Out(r) : Filed(r) = (In(r) + 1)..d
      BY <3>2, <3>3
    <3> QED
      BY <1>1, <2>1, <2>3, <3>4 DEF Progress
  <2> QED
    BY <1>12, <2>2, <2>3
<1> QED
  BY <1>6, <1>7, <1>8, <1>9, <1>10, <1>11, <1>12, OwnSteps DEF Handle

LEMMA NextWholeInv ==
  ASSUME WholeInv, [Next]_vars
  PROVE  WholeInv'
<1>1. /\ BoundInv /\ TypeInv /\ RowsClaimed /\ FirstNight /\ StaysWhole
      /\ BoundInv' /\ TypeInv' /\ RowsClaimed' /\ FirstNight'
  BY NextBoundInv, FirstNightStep DEF WholeInv, BoundInv
<1>2. req' = req
  BY <1>1, ReqConstant
<1>3. \A r \in Requests : Make(r) => Progress(r)
  BY <1>1 DEF StaysWhole, Progress
<1>4. (\A r \in Requests : Make(r) => Progress(r))'
  BY <1>1, <1>2, <1>3, ReqFrame, ProgressStep
<1>5. ASSUME NEW r \in Requests, NEW k \in Keys, r \in rows'[k]
      PROVE  Make(r)' /\ k[1] = First(r)'
  <2>1. r \in ClaimsOf(k[1], k[2])' /\ r # Seed
    BY <1>1, <1>5, ConstantsAssumption DEF RowsClaimed
  <2>2. r \in promised' /\ First(r)' = k[1]
    BY <2>1 DEF ClaimsOf
  <2> QED
    BY <1>1, <2>2 DEF TypeInv, Control
<1>6. StaysWhole'
  BY <1>4, <1>5 DEF StaysWhole, Progress
<1> QED
  BY <1>1, <1>6 DEF WholeInv

\* A booking is filed for all its nights or for none, in the order of the
\* nights, and a confirmed one is never partly filed; a crash leaves the first
\* nights of a stay.
THEOREM BookingsStayWhole == Spec => []StaysWhole
<1>1. Init => WholeInv
  BY InitWholeInv
<1>2. WholeInv /\ [Next]_vars => WholeInv'
  BY NextWholeInv
<1>3. WholeInv => StaysWhole
  BY DEF WholeInv
<1> QED
  BY <1>1, <1>2, <1>3, PTL DEF Spec

-----------------------------------------------------------------------------
(* One request at a time *)

\* The faults that leave the cache equal to the rows: a handler may be ended, but
\* not between the update of the cache and the last insertion.
Exact == Faults \subseteq {"evict", "memcError", "numberError"}

SerialCase == Serial /\ "lostset" \notin Faults /\ (NoNegativeRooms \/ Exact)

\* The cached number n is enough for a night with t rooms booked.
Covers(n, t) == n >= t /\ (Exact => n = t)

RoomsIn(k) == Total(rows[k])

\* A handler has read the count of the night, or is still looking for room.
Counted == {"getCap", "findCap", "fillCap"}
Looking == Counted \cup {"getCount", "find", "fill"}

Noted(r, n) == \E m \in memo[r] : m.night = n
Passed(r, n) == n < day[r] \/ (n = day[r] /\ pc[r] \in Counted \cup {"find"})

\* r has updated the cache for hotel and night k, and not yet inserted its row.
Due(r, k) ==
  /\ k[1] = First(r) /\ k[2] \in Stay(r)
  /\ \/ pc[r] = "publish" /\ ~Noted(r, k[2])
     \/ pc[r] = "insert" /\ day[r] <= k[2]

\* The cache is ahead of the rows by the rooms that are due.
CacheCovers(r) ==
  \A k \in Keys : cache[k] # Absent =>
    Covers(cache[k], RoomsIn(k) + (IF Due(r, k) THEN Rooms(r) ELSE 0))

\* What r will write, and the nights it will write nothing for.
NotesCover(r) ==
  /\ pc[r] = "insert" => memo[r] = {}
  /\ \A m \in memo[r] : Covers(m.val, RoomsIn(<<First(r), m.night>>) + Rooms(r))
  /\ Make(r) /\ pc[r] \in Looking =>
       \A n \in Stay(r) :
         Passed(r, n) /\ ~Noted(r, n) => cache[<<First(r), n>>] = Absent

\* What r has read; a booking only when it read it from the cache.
CountCovers(r) ==
  \/ pc[r] = "fill"
  \/ pc[r] \in Counted /\ IF Make(r) THEN r \notin blind ELSE Exact
  => Covers(count[r], RoomsIn(Key(r)))

\* The nights r has found room in, and not booked yet.
Fits(r) ==
  Make(r) /\ r \notin blind =>
    \A n \in Stay(r) :
      /\ pc[r] \in Looking => n < day[r]
      /\ pc[r] = "insert" => day[r] <= n
      => RoomsIn(<<First(r), n>>) + Rooms(r) <= RoomsOf(First(r))

Local(r) == CacheCovers(r) /\ NotesCover(r) /\ CountCovers(r) /\ Fits(r)

\* Nothing is cached before InitializeDatabase has left a row.
SeedStands ==
  (\A n \in Nights : rows[<<SeedHotel, n>>] = {}) =>
    ~up /\ \A k \in Keys : cache[k] = Absent

Alone == \A q, r \in Requests : pc[q] \in Running /\ pc[r] \in Running => q = r

IdleCovers ==
  Idle => \A k \in Keys : cache[k] # Absent => Covers(cache[k], RoomsIn(k))

SerialInv ==
  /\ Alone /\ SeedStands /\ IdleCovers /\ OnlyBlindOversell
  /\ \A r \in Requests : pc[r] \in Running => Local(r)

-----------------------------------------------------------------------------
LEMMA RoomsInFrame ==
  ASSUME req' = req
  PROVE  \A k : rows'[k] = rows[k] => RoomsIn(k)' = RoomsIn(k)
<1> SUFFICES ASSUME NEW k, rows'[k] = rows[k] PROVE RoomsIn(k)' = RoomsIn(k)
  OBVIOUS
<1>1. PICK T : T = rows[k]
  OBVIOUS
<1>2. RoomsIn(k)' = Total(T)'
  BY <1>1 DEF RoomsIn
<1> QED
  BY <1>1, <1>2, ReqFrame DEF RoomsIn

LEMMA RoomsInType ==
  ASSUME TypeInv, NEW k \in Keys
  PROVE  RoomsIn(k) \in Int
BY TotalType DEF RoomsIn, TypeInv, Typed, Row

\* A row adds the rooms of its booking.
LEMMA RoomsInAdd ==
  ASSUME TypeInv, req' = req, NEW k \in Keys, NEW r \in Requests,
         r \notin rows[k], rows'[k] = rows[k] \cup {r}
  PROVE  RoomsIn(k)' = RoomsIn(k) + Rooms(r)
<1>1. PICK T : T = rows[k] \cup {r}
  OBVIOUS
<1>2. RoomsIn(k)' = Total(T)'
  BY <1>1 DEF RoomsIn
<1>3. Total(T) = Total(rows[k]) + Number(r)
  BY <1>1, TotalAdd DEF TypeInv, Typed, Row
<1>4. Number(r) = Rooms(r)
  BY ConstantsAssumption DEF Number
<1> QED
  BY <1>2, <1>3, <1>4, ReqFrame DEF RoomsIn

\* A running handler's requests, keys and numbers.
LEMMA SerialFacts ==
  ASSUME WholeInv, NEW r \in Requests, pc[r] \in Running
  PROVE  /\ Typed /\ Control /\ up
         /\ Rooms(r) \in Int /\ In(r) \in Nat /\ Out(r) \in Nat
         /\ Hotel(r) \in Hotels /\ Key(r) \in Keys /\ RoomsOf(Hotel(r)) \in Nat
         /\ Stay(r) = {n \in Int : In(r) < n /\ n <= Out(r)}
         /\ day[r] \in Stay(r) /\ Stay(r) \subseteq Nights
         /\ Make(r) => /\ hi[r] = 1 /\ Hotel(r) = First(r)
                        /\ Key(r) = <<First(r), day[r]>>
                        /\ \A n \in Nights : <<First(r), n>> \in Keys
         /\ ~Make(r) => memo[r] = {}
         /\ pc[r] \in {"publish", "insert"} => Make(r)
<1>1. TypeInv /\ Typed /\ Control
  BY DEF WholeInv, BoundInv, TypeInv
<1>2. /\ Rooms(r) \in Int /\ In(r) \in Nat /\ Out(r) \in Nat
      /\ Stay(r) = {n \in Int : In(r) < n /\ n <= Out(r)} /\ Stay(r) \subseteq Nights
  BY <1>1, CallFacts, ConstantsAssumption DEF Typed
<1>3. Hotel(r) \in Hotels /\ Key(r) \in Keys /\ RoomsOf(Hotel(r)) \in Nat
  BY <1>1, KeyFacts, RoomsOfType
<1>4. up /\ day[r] \in Stay(r)
  BY <1>1 DEF Control
<1>5. Make(r) => /\ hi[r] = 1 /\ Hotel(r) = First(r)
                 /\ Key(r) = <<First(r), day[r]>>
                 /\ \A n \in Nights : <<First(r), n>> \in Keys
  BY <1>1, <1>3 DEF Control, Hotel, First, Key, Keys
<1>6. /\ ~Make(r) => memo[r] = {}
      /\ pc[r] \in {"publish", "insert"} => Make(r)
  BY <1>1 DEF Control
<1> QED
  BY <1>1, <1>2, <1>3, <1>4, <1>5, <1>6

\* While a handler runs, and after its step, the other requests do not run.
LEMMA OthersIdle ==
  ASSUME WholeInv, SerialCase, SerialInv, NEW r \in Requests, Arrive(r) \/ Handle(r)
  PROVE  /\ \A q \in Requests \ {r} : pc[q] \notin Running /\ pc'[q] \notin Running
         /\ Arrive(r) => Idle
         /\ Handle(r) => pc[r] \in Running
<1>1. Handle(r) => pc[r] \in Running
  BY CapEffect
  DEF Handle, GetCount, FindForBooking, FindForCheck, FillCount, Publish, Insert,
      InsertNight, Running, WholeInv, BoundInv
<1>2. Arrive(r) => Idle
  BY DEF Arrive, SerialCase, Idle
<1>3. \A q \in Requests \ {r} : pc[q] \notin Running
  BY <1>1, <1>2 DEF SerialInv, Alone, Idle
<1>4. \A q \in Requests \ {r} : pc'[q] = pc[q]
  BY OthersKept DEF WholeInv, BoundInv
<1> QED
  BY <1>1, <1>2, <1>3, <1>4

\* What is left to show of a step of the only handler.
LEMMA OnlyMine ==
  ASSUME NEW r \in Requests, \A q \in Requests \ {r} : pc'[q] \notin Running,
         SeedStands', OnlyBlindOversell',
         pc'[r] \in Running => Local(r)',
         pc'[r] \notin Running =>
           \A k \in Keys : cache'[k] # Absent => Covers(cache'[k], RoomsIn(k)')
  PROVE  SerialInv'
<1>1. Alone'
  BY DEF Alone
<1>2. IdleCovers'
  BY DEF IdleCovers, Idle, Covers
<1> QED
  BY <1>1, <1>2 DEF SerialInv

\* A step that leaves the rows alone, and the cache unless the server is up.
LEMMA RowsKept ==
  ASSUME TypeInv, SerialInv, req' = req, rows' = rows, blind \subseteq blind',
         up \/ (up' = up /\ cache' = cache)
  PROVE  /\ SeedStands' /\ OnlyBlindOversell'
         /\ \A k : RoomsIn(k)' = RoomsIn(k)
<1>1. \A k : RoomsIn(k)' = RoomsIn(k)
  BY RoomsInFrame
<1>2. SeedStands'
  BY DEF SerialInv, SeedStands
<1>3. OnlyBlindOversell'
  BY <1>1 DEF SerialInv, OnlyBlindOversell, Oversold, RoomsIn, RoomsOf
<1> QED
  BY <1>1, <1>2, <1>3

LEMMA SerialArrive ==
  ASSUME WholeInv, SerialCase, SerialInv, NEW r \in Requests, Arrive(r), TypeInv'
  PROVE  SerialInv'
<1>1. /\ TypeInv /\ Typed /\ Control
      /\ UNCHANGED <<up, rows, cache, req, blind>>
  BY DEF WholeInv, BoundInv, TypeInv, Arrive, server
<1>2. /\ \A q \in Requests \ {r} : pc'[q] \notin Running
      /\ Idle
  BY OthersIdle
<1>3. SeedStands' /\ OnlyBlindOversell' /\ \A k : RoomsIn(k)' = RoomsIn(k)
  BY <1>1, RowsKept
<1>4. \A k \in Keys : cache'[k] # Absent => Covers(cache'[k], RoomsIn(k)')
  BY <1>1, <1>2, <1>3 DEF SerialInv, IdleCovers
<1>5. ASSUME pc'[r] \in Running PROVE Local(r)'
  <2>1. /\ pc'[r] = "getCount" /\ day'[r] = In(r) + 1
        /\ memo'[r] = {}
    BY <1>1, <1>5 DEF Arrive, Goto, Reply, Typed, Control, Running
  <2>2. In(r)' = In(r) /\ Stay(r)' = Stay(r) /\ In(r) \in Nat
        /\ Stay(r) = {n \in Int : In(r) < n /\ n <= Out(r)}
    BY <1>1, ReqFrame, CallFacts, ConstantsAssumption DEF Typed
  <2>3. CacheCovers(r)'
    <3>1. \A k \in Keys : ~Due(r, k)' /\ RoomsIn(k) \in Int
      BY <1>1, <2>1, RoomsInType DEF Due
    <3> QED
      BY <1>3, <1>4, <3>1 DEF CacheCovers
  <2>4. NotesCover(r)'
    BY <2>1, <2>2 DEF NotesCover, Passed, Counted
  <2>5. CountCovers(r)'
    BY <2>1 DEF CountCovers, Counted
  <2>6. Fits(r)'
    BY <2>1, <2>2 DEF Fits, Looking
  <2> QED
    BY <2>3, <2>4, <2>5, <2>6 DEF Local
<1> QED
  BY <1>2, <1>3, <1>4, <1>5, OnlyMine

\* A handler that has not found room in every night owes the cache nothing.
LEMMA NothingDue ==
  ASSUME WholeInv, SerialInv, NEW r \in Requests, pc[r] \in Running,
         pc[r] \notin {"publish", "insert"}
  PROVE  \A k \in Keys : /\ RoomsIn(k) \in Int
                         /\ cache[k] # Absent => Covers(cache[k], RoomsIn(k))
<1>1. Local(r) /\ TypeInv
  BY DEF SerialInv, WholeInv, BoundInv
<1>2. \A k \in Keys : ~Due(r, k) /\ RoomsIn(k) \in Int
  BY <1>1, RoomsInType DEF Due
<1> QED
  BY <1>1, <1>2 DEF Local, CacheCovers

LEMMA SerialGetCount ==
  ASSUME WholeInv, SerialCase, SerialInv, NEW r \in Requests, GetCount(r)
  PROVE  SerialInv'
<1>1. /\ pc[r] = "getCount" /\ pc[r] \in Running /\ Local(r)
      /\ UNCHANGED <<up, rows, cache, req, hi, day, blind>>
  BY DEF GetCount, Note, server, Running, SerialInv
<1>2. /\ Typed /\ Control /\ TypeInv /\ up /\ Rooms(r) \in Int
      /\ Key(r) \in Keys /\ Stay(r) \subseteq Nights /\ day[r] \in Int
      /\ ~Make(r) => memo[r] = {}
      /\ Make(r) => /\ Key(r) = <<First(r), day[r]>>
                     /\ \A n \in Nights : <<First(r), n>> \in Keys
  BY <1>1, SerialFacts DEF WholeInv, BoundInv
<1>3. \A q \in Requests \ {r} : pc'[q] \notin Running
  BY OthersIdle DEF Handle
<1>4. SeedStands' /\ OnlyBlindOversell' /\ \A k : RoomsIn(k)' = RoomsIn(k)
  BY <1>1, <1>2, RowsKept
<1>5. \A k \in Keys : /\ RoomsIn(k) \in Int
                      /\ cache[k] # Absent => Covers(cache[k], RoomsIn(k))
  BY <1>1, NothingDue
<1>6. /\ Make(r)' = Make(r) /\ First(r)' = First(r) /\ Rooms(r)' = Rooms(r)
      /\ Stay(r)' = Stay(r) /\ Key(r)' = Key(r)
  BY <1>1, ReqFrame DEF Key, Hotel
<1>7. PICK n : n = cache[Key(r)]
  OBVIOUS
<1>8. n \in Int \cup {Absent}
  BY <1>2, <1>7 DEF Typed
<1>9. \/ /\ n # Absent /\ pc'[r] = "getCap" /\ count'[r] = n
         /\ memo'[r] = IF Make(r)
                         THEN memo[r] \cup {[night |-> day[r], val |-> n + Rooms(r)]}
                         ELSE memo[r]
      \/ n = Absent /\ pc'[r] = "find" /\ memo'[r] = memo[r]
  BY <1>2, <1>7 DEF GetCount, Note, Goto, Typed
<1>10. n # Absent => Covers(n, RoomsIn(Key(r)))
  BY <1>2, <1>5, <1>7 DEF Covers
<1>11. CacheCovers(r)'
  <2>1. pc'[r] \notin {"publish", "insert"}
    BY <1>9
  <2>2. \A k \in Keys : ~Due(r, k)'
    BY <2>1 DEF Due
  <2> QED
    BY <1>1, <1>4, <1>5, <2>2 DEF CacheCovers
<1>12. NotesCover(r)'
  <2>1. \A m \in memo[r] : Covers(m.val, RoomsIn(<<First(r), m.night>>) + Rooms(r))
    BY <1>1 DEF Local, NotesCover
  <2>2. ASSUME NEW m \in memo'[r]
        PROVE  Covers(m.val, RoomsIn(<<First(r), m.night>>) + Rooms(r))
    <3>1. CASE m \in memo[r]
      BY <2>1, <3>1
    <3>2. CASE m \notin memo[r]
      <4>1. /\ Make(r) /\ n # Absent
            /\ m = [night |-> day[r], val |-> n + Rooms(r)]
        BY <1>9, <3>2
      <4>2. m.night = day[r] /\ m.val = n + Rooms(r)
        BY <4>1
      <4>3. <<First(r), m.night>> = Key(r)
        BY <1>2, <4>1, <4>2
      <4>4. RoomsIn(<<First(r), m.night>>) = RoomsIn(Key(r))
        BY <4>3
      <4>5. RoomsIn(Key(r)) \in Int
        BY <1>2, <1>5
      <4> QED
        BY <1>2, <1>8, <1>10, <4>1, <4>2, <4>4, <4>5 DEF Covers
    <3> QED
      BY <3>1, <3>2
  <2>3. ASSUME Make(r), NEW i \in Stay(r), Passed(r, i)', ~Noted(r, i)'
        PROVE  cache[<<First(r), i>>] = Absent
    <3>1. ~Noted(r, i)
      BY <1>9, <2>3 DEF Noted
    <3>2. CASE i = day[r]
      <4>1. n = Absent
        <5> SUFFICES ASSUME n # Absent PROVE Noted(r, i)'
          BY <2>3
        <5>1. /\ [night |-> day[r], val |-> n + Rooms(r)] \in memo'[r]
              /\ [night |-> day[r], val |-> n + Rooms(r)].night = i
          BY <1>9, <2>3, <3>2
        <5> QED
          BY <5>1 DEF Noted
      <4> QED
        BY <1>2, <1>7, <2>3, <3>2, <4>1
    <3>3. CASE i # day[r]
      <4>1. Passed(r, i)
        BY <1>1, <2>3, <3>3 DEF Passed
      <4> QED
        BY <1>1, <2>3, <3>1, <4>1 DEF Local, NotesCover, Looking
    <3> QED
      BY <3>2, <3>3
  <2> QED
    BY <1>1, <1>4, <1>6, <1>9, <2>2, <2>3 DEF NotesCover, Looking
<1>13. CountCovers(r)'
  BY <1>4, <1>6, <1>9, <1>10 DEF CountCovers, Counted
<1>14. Fits(r)'
  BY <1>1, <1>4, <1>6, <1>9 DEF Local, Fits, Looking, Counted
<1> QED
  BY <1>3, <1>4, <1>9, <1>11, <1>12, <1>13, <1>14, OnlyMine DEF Local, Running

LEMMA SerialFindForBooking ==
  ASSUME WholeInv, SerialCase, SerialInv, NEW r \in Requests, FindForBooking(r)
  PROVE  SerialInv'
<1>1. /\ pc[r] = "find" /\ pc[r] \in Running /\ Local(r) /\ Make(r)
      /\ UNCHANGED <<up, rows, cache, req, hi, day, count>>
      /\ blind' = blind \cup {r}
  BY DEF FindForBooking, Note, server, Running, SerialInv
<1>2. /\ Typed /\ Control /\ TypeInv /\ up /\ Rooms(r) \in Int
      /\ Key(r) \in Keys /\ Key(r) = <<First(r), day[r]>>
      /\ Stay(r) \subseteq Nights
  BY <1>1, SerialFacts DEF WholeInv, BoundInv
<1>3. \A q \in Requests \ {r} : pc'[q] \notin Running
  BY OthersIdle DEF Handle
<1>4. SeedStands' /\ OnlyBlindOversell' /\ \A k : RoomsIn(k)' = RoomsIn(k)
  BY <1>1, <1>2, RowsKept
<1>5. \A k \in Keys : /\ RoomsIn(k) \in Int
                      /\ cache[k] # Absent => Covers(cache[k], RoomsIn(k))
  BY <1>1, NothingDue
<1>6. /\ Make(r)' = Make(r) /\ First(r)' = First(r) /\ Rooms(r)' = Rooms(r)
      /\ Stay(r)' = Stay(r)
  BY <1>1, ReqFrame
<1>7. pc'[r] = "getCap" /\ r \in blind'
  BY <1>1, <1>2 DEF FindForBooking, Goto, Typed
<1>8. \/ memo'[r] = memo[r]
      \/ /\ rows[Key(r)] = {}
         /\ memo'[r] = memo[r] \cup {[night |-> day[r], val |-> 0 + Rooms(r)]}
  BY <1>2 DEF FindForBooking, Note, Typed
<1>9. CacheCovers(r)'
  <2>1. \A k \in Keys : ~Due(r, k)'
    BY <1>7 DEF Due
  <2> QED
    BY <1>1, <1>4, <1>5, <2>1 DEF CacheCovers
<1>10. NotesCover(r)'
  <2>1. ASSUME NEW m \in memo'[r]
        PROVE  Covers(m.val, RoomsIn(<<First(r), m.night>>) + Rooms(r))
    <3>1. CASE m \in memo[r]
      BY <1>1, <3>1 DEF Local, NotesCover
    <3>2. CASE m \notin memo[r]
      <4>1. rows[Key(r)] = {} /\ m = [night |-> day[r], val |-> 0 + Rooms(r)]
        BY <1>8, <3>2
      <4>2. m.night = day[r] /\ m.val = Rooms(r)
        BY <1>2, <4>1
      <4>3. <<First(r), m.night>> = Key(r)
        BY <1>2, <4>2
      <4>4. RoomsIn(<<First(r), m.night>>) = 0
        BY <4>1, <4>3, TotalEmpty DEF RoomsIn
      <4> QED
        BY <1>2, <4>2, <4>4 DEF Covers
    <3> QED
      BY <3>1, <3>2
  <2>2. ASSUME NEW i \in Stay(r), Passed(r, i)', ~Noted(r, i)'
        PROVE  cache[<<First(r), i>>] = Absent
    <3>1. ~Noted(r, i)
      BY <1>8, <2>2 DEF Noted
    <3>2. Passed(r, i)
      BY <1>1, <1>7, <2>2 DEF Passed
    <3> QED
      BY <1>1, <3>1, <3>2 DEF Local, NotesCover, Looking
  <2> QED
    BY <1>1, <1>4, <1>6, <1>7, <2>1, <2>2 DEF NotesCover, Looking
<1>11. CountCovers(r)'
  BY <1>1, <1>6, <1>7 DEF CountCovers, Counted
<1>12. Fits(r)'
  BY <1>7 DEF Fits
<1> QED
  BY <1>3, <1>4, <1>7, <1>9, <1>10, <1>11, <1>12, OnlyMine DEF Local, Running

\* A step of a check: it has no notes and no row to come.
LEMMA CheckLocal ==
  ASSUME NEW r \in Requests, (~Make(r))', memo'[r] = {},
         pc'[r] \notin {"publish", "insert"},
         \A k \in Keys : /\ RoomsIn(k)' \in Int
                         /\ cache'[k] # Absent => Covers(cache'[k], RoomsIn(k)'),
         CountCovers(r)'
  PROVE  Local(r)'
<1>1. \A k \in Keys : ~Due(r, k)'
  BY DEF Due
<1>2. CacheCovers(r)'
  BY <1>1 DEF CacheCovers
<1>3. NotesCover(r)' /\ Fits(r)'
  BY DEF NotesCover, Fits
<1> QED
  BY <1>2, <1>3 DEF Local

LEMMA SerialFindForCheck ==
  ASSUME WholeInv, SerialCase, SerialInv, NEW r \in Requests, FindForCheck(r)
  PROVE  SerialInv'
<1>1. /\ pc[r] = "find" /\ pc[r] \in Running /\ ~Make(r)
      /\ UNCHANGED <<up, rows, cache, req, hi, day, memo, blind>>
  BY DEF FindForCheck, server, Running
<1>2. /\ Typed /\ Control /\ TypeInv /\ up /\ Key(r) \in Keys
      /\ memo[r] = {} /\ count[r] = 0
  BY <1>1, SerialFacts DEF WholeInv, BoundInv, Control
<1>3. \A q \in Requests \ {r} : pc'[q] \notin Running
  BY OthersIdle DEF Handle
<1>4. SeedStands' /\ OnlyBlindOversell' /\ \A k : RoomsIn(k)' = RoomsIn(k)
  BY <1>1, <1>2, RowsKept
<1>5. \A k \in Keys : /\ RoomsIn(k) \in Int
                      /\ cache[k] # Absent => Covers(cache[k], RoomsIn(k))
  BY <1>1, NothingDue
<1>6. (~Make(r))' /\ Key(r)' = Key(r)
  BY <1>1, ReqFrame DEF Key, Hotel
<1>7. \/ pc'[r] = "fill" /\ count'[r] = Total(rows[Key(r)])
      \/ /\ pc'[r] = "getCap" /\ count'[r] = 0
         /\ rows[Key(r)] = {} \/ "mongoError" \in Faults
  BY <1>2 DEF FindForCheck, Goto, Typed
<1>8. CountCovers(r)'
  <2>1. RoomsIn(Key(r))' = RoomsIn(Key(r)) /\ RoomsIn(Key(r)) \in Int
    BY <1>2, <1>4, <1>5, <1>6
  <2>2. CASE pc'[r] = "fill" /\ count'[r] = Total(rows[Key(r)])
    BY <2>1, <2>2 DEF CountCovers, Covers, RoomsIn
  <2>3. CASE pc'[r] = "getCap" /\ count'[r] = 0 /\ rows[Key(r)] = {}
    <3>1. RoomsIn(Key(r)) = 0
      BY <2>3, TotalEmpty DEF RoomsIn
    <3> QED
      BY <2>1, <2>3, <3>1 DEF CountCovers, Covers
  <2>4. CASE pc'[r] = "getCap" /\ "mongoError" \in Faults
    <3>1. ~Exact
      BY <2>4 DEF Exact
    <3> QED
      BY <1>6, <2>4, <3>1 DEF CountCovers
  <2> QED
    BY <1>7, <2>2, <2>3, <2>4
<1>9. Local(r)'
  BY <1>1, <1>2, <1>4, <1>5, <1>6, <1>7, <1>8, CheckLocal
<1> QED
  BY <1>3, <1>4, <1>7, <1>9, OnlyMine DEF Running

LEMMA SerialFillCount ==
  ASSUME WholeInv, SerialCase, SerialInv, NEW r \in Requests, FillCount(r)
  PROVE  SerialInv'
<1>1. /\ pc[r] = "fill" /\ pc[r] \in Running /\ Local(r)
      /\ UNCHANGED <<up, rows, req, hi, day, count, memo, blind>>
  BY DEF FillCount, locals, Running, SerialInv
<1>2. /\ Typed /\ Control /\ TypeInv /\ up /\ Key(r) \in Keys
      /\ ~Make(r) /\ memo[r] = {}
  BY <1>1, SerialFacts DEF WholeInv, BoundInv, Control
<1>3. \A q \in Requests \ {r} : pc'[q] \notin Running
  BY OthersIdle DEF Handle
<1>4. SeedStands' /\ OnlyBlindOversell' /\ \A k : RoomsIn(k)' = RoomsIn(k)
  BY <1>1, <1>2, RowsKept
<1>5. \A k \in Keys : /\ RoomsIn(k) \in Int
                      /\ cache[k] # Absent => Covers(cache[k], RoomsIn(k))
  BY <1>1, NothingDue
<1>6. (~Make(r))' /\ Key(r)' = Key(r)
  BY <1>1, <1>2, ReqFrame DEF Key, Hotel
<1>7. Covers(count[r], RoomsIn(Key(r)))
  BY <1>1 DEF Local, CountCovers
<1>8. pc'[r] = "getCap" /\ cache' = [cache EXCEPT ![Key(r)] = count[r]]
  BY <1>2 DEF FillCount, SetCount, Goto, Typed, SerialCase
<1>9. CountCovers(r)'
  BY <1>1, <1>2, <1>4, <1>5, <1>6, <1>7 DEF CountCovers, Covers
<1>10. ASSUME NEW k \in Keys, cache'[k] # Absent
       PROVE  Covers(cache'[k], RoomsIn(k)')
  <2>1. CASE k = Key(r)
    <3>1. cache'[k] = count[r]
      BY <1>2, <1>8, <2>1 DEF Typed
    <3>2. RoomsIn(k)' = RoomsIn(Key(r))
      BY <1>4, <2>1
    <3> QED
      BY <1>7, <3>1, <3>2 DEF Covers
  <2>2. CASE k # Key(r)
    BY <1>2, <1>4, <1>5, <1>8, <1>10, <2>2 DEF Typed, Covers
  <2> QED
    BY <2>1, <2>2
<1>11. \A k \in Keys : RoomsIn(k)' \in Int
  BY <1>4, <1>5
<1>12. Local(r)'
  BY <1>1, <1>2, <1>6, <1>8, <1>9, <1>10, <1>11, CheckLocal
<1> QED
  BY <1>3, <1>4, <1>8, <1>12, OnlyMine DEF Running

\* A handler never works with more rooms than the hotel has.
LEMMA JudgedAtMost ==
  ASSUME TypeInv, CapsRight, NEW r \in Requests, GetCap(r) \/ FindCap(r) \/ FillCap(r)
  PROVE  \/ /\ pc'[r] \in {"findCap", "fillCap"}
            /\ UNCHANGED <<hi, day, memo, result, promised>>
         \/ \E c \in Nat : c <= RoomsOf(Hotel(r)) /\ Judge(r, c)
<1>1. Typed /\ pc[r] \in Running
  BY CapEffect DEF TypeInv, Running
<1>2. Hotel(r) \in Hotels /\ RoomsOf(Hotel(r)) \in Nat
  BY <1>1, KeyFacts, RoomsOfType
<1>3. CASE GetCap(r)
  BY <1>1, <1>2, <1>3 DEF GetCap, CapsRight, Goto, Typed
<1>4. CASE FindCap(r)
  BY <1>1, <1>2, <1>4 DEF FindCap, Goto, Typed
<1>5. CASE FillCap(r)
  BY <1>2, <1>5 DEF FillCap, CapsRight
<1> QED
  BY <1>3, <1>4, <1>5

\* The judgement of a booking: another night, a refusal, or the promise.
LEMMA JudgeBooking ==
  ASSUME WholeInv, SerialInv, NEW r \in Requests, Make(r), pc[r] \in Counted,
         NEW c \in Nat, c <= RoomsOf(Hotel(r)), Judge(r, c), req' = req, rows' = rows,
         cache' = cache, blind' = blind, count' = count, pc'[r] \in Running
  PROVE  Local(r)'
<1>1. pc[r] \in Running /\ pc[r] \in Looking /\ Local(r)
  BY DEF Counted, Running, Looking, SerialInv
<1>2. /\ Typed /\ Rooms(r) \in Int /\ RoomsOf(Hotel(r)) \in Nat
      /\ Key(r) \in Keys /\ Key(r) = <<First(r), day[r]>>
      /\ Hotel(r) = First(r) /\ In(r) \in Nat /\ Out(r) \in Nat
      /\ Stay(r) = {n \in Int : In(r) < n /\ n <= Out(r)}
      /\ day[r] \in Stay(r) /\ Stay(r) \subseteq Nights
      /\ \A n \in Nights : <<First(r), n>> \in Keys
  BY <1>1, SerialFacts
<1>3. \A k : RoomsIn(k)' = RoomsIn(k)
  BY RoomsInFrame
<1>4. \A k \in Keys : /\ RoomsIn(k) \in Int
                      /\ cache[k] # Absent => Covers(cache[k], RoomsIn(k))
  BY <1>1, NothingDue DEF Counted
<1>5. /\ Make(r)' = Make(r) /\ First(r)' = First(r) /\ Rooms(r)' = Rooms(r)
      /\ Stay(r)' = Stay(r)
  BY ReqFrame
<1>6. /\ \A m \in memo[r] : Covers(m.val, RoomsIn(<<First(r), m.night>>) + Rooms(r))
      /\ \A n \in Stay(r) :
           n <= day[r] /\ ~Noted(r, n) => cache[<<First(r), n>>] = Absent
  BY <1>1, <1>2 DEF Local, NotesCover, Passed
<1>7. ~(count[r] + Rooms(r) > c) /\ r \notin blind =>
        \A n \in Stay(r) : n <= day[r] =>
          RoomsIn(<<First(r), n>>) + Rooms(r) <= RoomsOf(First(r))
  <2> SUFFICES ASSUME ~(count[r] + Rooms(r) > c), r \notin blind,
                      NEW n \in Stay(r), n <= day[r]
               PROVE  RoomsIn(<<First(r), n>>) + Rooms(r) <= RoomsOf(First(r))
    OBVIOUS
  <2>1. CASE n = day[r]
    <3>1. Covers(count[r], RoomsIn(Key(r)))
      BY <1>1 DEF Local, CountCovers
    <3>2. RoomsIn(Key(r)) \in Int /\ count[r] \in Int
      BY <1>2, <1>4 DEF Typed
    <3>3. RoomsIn(Key(r)) + Rooms(r) <= RoomsOf(First(r))
      BY <1>2, <3>1, <3>2 DEF Covers
    <3> QED
      BY <1>2, <2>1, <3>3
  <2>2. CASE n # day[r]
    <3>1. n < day[r] /\ pc[r] # "insert"
      BY <1>2, <2>2 DEF Counted
    <3> QED
      BY <1>1, <3>1 DEF Local, Fits
  <2> QED
    BY <2>1, <2>2
<1>8. CASE ~(count[r] + Rooms(r) > c) /\ NextNight(r)
  <2>1. /\ pc'[r] = "getCount" /\ day'[r] = day[r] + 1 /\ memo' = memo
    BY <1>2, <1>8 DEF NextNight, Goto, Typed
  <2>2. CacheCovers(r)'
    <3>1. \A k \in Keys : ~Due(r, k)'
      BY <2>1 DEF Due
    <3> QED
      BY <1>3, <1>4, <3>1 DEF CacheCovers
  <2>3. NotesCover(r)'
    <3>1. \A n \in Stay(r) : Passed(r, n)' => n <= day[r]
      BY <1>2, <2>1 DEF Passed, Counted
    <3> QED
      BY <1>3, <1>5, <1>6, <2>1, <3>1 DEF NotesCover, Noted
  <2>4. CountCovers(r)'
    BY <2>1 DEF CountCovers, Counted
  <2>5. Fits(r)'
    <3>1. \A n \in Stay(r) : n < day'[r] => n <= day[r]
      BY <1>2, <2>1
    <3> QED
      BY <1>3, <1>5, <1>7, <1>8, <2>1, <3>1 DEF Fits, Looking
  <2> QED
    BY <2>2, <2>3, <2>4, <2>5 DEF Local
<1>9. CASE ~(count[r] + Rooms(r) > c) /\ day[r] = Out(r) /\ Promise(r)
  <2>1. /\ pc'[r] = (IF memo[r] = {} THEN "insert" ELSE "publish")
        /\ day'[r] = In(r) + 1 /\ memo' = memo
    BY <1>2, <1>9 DEF Promise, Goto, Typed
  <2>2. \A n \in Stay(r) : n <= day[r] /\ day'[r] <= n
    BY <1>2, <1>9, <2>1
  <2>3. CacheCovers(r)'
    <3> SUFFICES ASSUME NEW k \in Keys, cache[k] # Absent
                 PROVE  Covers(cache[k], RoomsIn(k)' +
                                           (IF Due(r, k)' THEN Rooms(r)' ELSE 0))
      BY DEF CacheCovers
    <3>1. ~Due(r, k)'
      <4> SUFFICES ASSUME Due(r, k)' PROVE FALSE
        OBVIOUS
      <4>1. /\ k[1] = First(r) /\ k[2] \in Stay(r) /\ ~Noted(r, k[2])
        BY <1>5, <2>1 DEF Due, Noted
      <4>2. k = <<First(r), k[2]>>
        BY <4>1 DEF Keys
      <4> QED
        BY <1>6, <2>2, <4>1, <4>2
    <3> QED
      BY <1>3, <1>4, <3>1
  <2>4. NotesCover(r)'
    <3>1. pc'[r] \notin Looking /\ (pc'[r] = "insert" => memo'[r] = {})
      BY <2>1 DEF Looking, Counted
    <3> QED
      BY <1>3, <1>5, <1>6, <2>1, <3>1 DEF NotesCover
  <2>5. CountCovers(r)'
    BY <2>1 DEF CountCovers, Counted
  <2>6. Fits(r)'
    BY <1>3, <1>5, <1>7, <1>9, <2>1, <2>2 DEF Fits
  <2> QED
    BY <2>3, <2>4, <2>5, <2>6 DEF Local
<1>10. CASE Reply(r, <<>>)
  BY <1>2, <1>10 DEF Reply, Goto, Typed, Running
<1> QED
  BY <1>8, <1>9, <1>10 DEF Judge, Decide

LEMMA SerialCaps ==
  ASSUME WholeInv, CapsRight, SerialCase, SerialInv, NEW r \in Requests,
         GetCap(r) \/ FindCap(r) \/ FillCap(r)
  PROVE  SerialInv'
<1>1. /\ pc[r] \in Counted /\ pc[r] \in Running /\ Local(r) /\ TypeInv
      /\ UNCHANGED <<up, rows, cache, req, count, blind>>
  BY CapEffect DEF Counted, Running, SerialInv, WholeInv, BoundInv
<1>2. /\ Typed /\ Control /\ up /\ Key(r) \in Keys
      /\ ~Make(r) => memo[r] = {}
  BY <1>1, SerialFacts
<1>3. \A q \in Requests \ {r} : pc'[q] \notin Running
  BY OthersIdle DEF Handle
<1>4. SeedStands' /\ OnlyBlindOversell' /\ \A k : RoomsIn(k)' = RoomsIn(k)
  BY <1>1, <1>2, RowsKept
<1>5. \A k \in Keys : /\ RoomsIn(k) \in Int
                      /\ cache[k] # Absent => Covers(cache[k], RoomsIn(k))
  BY <1>1, NothingDue DEF Counted
<1>6. /\ Make(r)' = Make(r) /\ First(r)' = First(r) /\ Rooms(r)' = Rooms(r)
      /\ Stay(r)' = Stay(r)
  BY <1>1, ReqFrame
<1>7. CASE pc'[r] \in {"findCap", "fillCap"} /\ UNCHANGED <<hi, day, memo, result, promised>>
  <2>1. Key(r)' = Key(r)
    BY <1>1, <1>7 DEF Key, Hotel
  <2>2. CacheCovers(r)'
    <3>1. \A k \in Keys : ~Due(r, k)'
      BY <1>7 DEF Due
    <3> QED
      BY <1>1, <1>4, <1>5, <3>1 DEF CacheCovers
  <2>3. NotesCover(r)'
    <3>1. \A n \in Stay(r) : /\ Passed(r, n)' => Passed(r, n)
                             /\ Noted(r, n)' <=> Noted(r, n)
      BY <1>1, <1>7 DEF Passed, Noted, Counted
    <3> QED
      BY <1>1, <1>4, <1>6, <1>7, <3>1 DEF Local, NotesCover, Looking, Counted
  <2>4. CountCovers(r)'
    <3>1. RoomsIn(Key(r))' = RoomsIn(Key(r))
      BY <1>4, <2>1
    <3> QED
      BY <1>1, <1>6, <1>7, <3>1 DEF Local, CountCovers, Counted
  <2>5. Fits(r)'
    BY <1>1, <1>4, <1>6, <1>7 DEF Local, Fits, Looking, Counted
  <2> QED
    BY <1>3, <1>4, <1>7, <2>2, <2>3, <2>4, <2>5, OnlyMine DEF Local, Running
<1>8. ASSUME NEW c \in Nat, c <= RoomsOf(Hotel(r)), Judge(r, c)
      PROVE  SerialInv'
  <2>1. ASSUME ~Make(r) PROVE Local(r)'
    <3>1. pc'[r] \in {"getCount", "replied"} /\ memo'[r] = {}
      BY <1>1, <1>2, <1>8, <2>1, JudgeEffect DEF Counted, Control
    <3>2. CountCovers(r)'
      BY <3>1 DEF CountCovers, Counted
    <3> QED
      BY <1>1, <1>4, <1>5, <1>6, <2>1, <3>1, <3>2, CheckLocal
  <2>2. ASSUME Make(r), pc'[r] \in Running PROVE Local(r)'
    BY <1>1, <1>8, <2>2, JudgeBooking
  <2> QED
    BY <1>1, <1>3, <1>4, <1>5, <2>1, <2>2, OnlyMine
<1> QED
  BY <1>1, <1>7, <1>8, JudgedAtMost

LEMMA SerialPublish ==
  ASSUME WholeInv, SerialCase, SerialInv, NEW r \in Requests, Publish(r)
  PROVE  SerialInv'
<1>1. /\ pc[r] = "publish" /\ pc[r] \in Running /\ Local(r)
      /\ UNCHANGED <<up, rows, req, hi, day, count, blind>>
  BY DEF Publish, Running, SerialInv
<1>2. /\ Typed /\ TypeInv /\ up /\ Make(r) /\ Rooms(r) \in Int /\ Hotel(r) = First(r)
      /\ In(r) \in Nat /\ day[r] = In(r) + 1
      /\ Stay(r) = {n \in Int : In(r) < n /\ n <= Out(r)} /\ Stay(r) \subseteq Nights
      /\ \A n \in Nights : <<First(r), n>> \in Keys
      /\ \A m \in memo[r] : m.night \in Stay(r) /\ m \in [night : Nights, val : Int]
  BY <1>1, SerialFacts DEF WholeInv, BoundInv, FirstNight, Control, Typed
<1>3. \A q \in Requests \ {r} : pc'[q] \notin Running
  BY OthersIdle DEF Handle
<1>4. SeedStands' /\ OnlyBlindOversell' /\ \A k : RoomsIn(k)' = RoomsIn(k)
  BY <1>1, <1>2, RowsKept
<1>5. /\ Make(r)' = Make(r) /\ First(r)' = First(r) /\ Rooms(r)' = Rooms(r)
      /\ Stay(r)' = Stay(r)
  BY <1>1, ReqFrame
<1>6. PICK m \in memo[r] :
        /\ SetCount(<<Hotel(r), m.night>>, m.val)
        /\ memo' = [memo EXCEPT ![r] = @ \ {m}]
        /\ Goto(r, IF memo[r] = {m} THEN "insert" ELSE "publish")
  BY DEF Publish
<1>7. PICK key : key = <<First(r), m.night>>
  OBVIOUS
<1>8. /\ key \in Keys /\ key[1] = First(r) /\ key[2] = m.night
      /\ cache' = [cache EXCEPT ![key] = m.val]
      /\ memo'[r] = memo[r] \ {m} /\ m.val \in Int
      /\ \/ pc'[r] = "insert" /\ memo[r] = {m} /\ memo'[r] = {}
         \/ pc'[r] = "publish" /\ memo[r] # {m}
  BY <1>2, <1>6, <1>7 DEF SetCount, SerialCase, Goto, Typed
<1>9. \A i \in memo[r] : Covers(i.val, RoomsIn(<<First(r), i.night>>) + Rooms(r))
  BY <1>1 DEF Local, NotesCover
<1>10. RoomsIn(key) \in Int /\ Covers(m.val, RoomsIn(key) + Rooms(r))
  BY <1>2, <1>7, <1>8, <1>9, RoomsInType
<1>11. CacheCovers(r)'
  <2> SUFFICES ASSUME NEW k \in Keys, cache'[k] # Absent
               PROVE  Covers(cache'[k],
                             RoomsIn(k) + (IF Due(r, k)' THEN Rooms(r) ELSE 0))
    BY <1>4, <1>5 DEF CacheCovers
  <2>1. CASE k = key
    <3>1. cache'[k] = m.val
      BY <1>2, <1>8, <2>1 DEF Typed
    <3>2. CASE Due(r, k)'
      BY <1>10, <2>1, <3>1, <3>2
    <3>3. CASE ~Due(r, k)'
      <4>1. pc'[r] = "publish" /\ \E i \in memo[r] : i # m /\ i.night = m.night
        <5>1. m.night \in Stay(r)' /\ day'[r] <= m.night
          BY <1>1, <1>2, <1>5
        <5>2. Noted(r, k[2])' /\ pc'[r] = "publish"
          BY <1>5, <1>8, <2>1, <3>3, <5>1 DEF Due, Noted
        <5> QED
          BY <1>8, <2>1, <5>2 DEF Noted
      <4>2. PICK i \in memo[r] : i # m /\ i.night = m.night
        BY <4>1
      <4>3. ~Exact
        <5>1. /\ i.val \in Int /\ i \in [night : Nights, val : Int]
              /\ m \in [night : Nights, val : Int]
          BY <1>2
        <5>2. i.val # m.val
          BY <4>2, <5>1
        <5>3. Covers(i.val, RoomsIn(key) + Rooms(r))
          BY <1>7, <1>9, <4>2
        <5> QED
          BY <1>10, <5>2, <5>3 DEF Covers
      <4>4. Rooms(r) >= 0
        BY <4>3 DEF SerialCase, NoNegativeRooms
      <4> QED
        BY <1>2, <1>8, <1>10, <2>1, <3>1, <3>3, <4>3, <4>4 DEF Covers
    <3> QED
      BY <3>2, <3>3
  <2>2. CASE k # key
    <3>1. cache'[k] = cache[k]
      BY <1>2, <1>8, <2>2 DEF Typed
    <3>2. Due(r, k)' <=> Due(r, k)
      <4>1. CASE k[1] = First(r) /\ k[2] \in Stay(r)
        <5>1. k[2] # m.night
          <6>1. k = <<k[1], k[2]>>
            BY DEF Keys
          <6> QED
            BY <1>7, <2>2, <4>1, <6>1
        <5>2. Noted(r, k[2])' <=> Noted(r, k[2])
          BY <1>8, <5>1 DEF Noted
        <5>3. day'[r] <= k[2]
          BY <1>1, <1>2, <4>1
        <5> QED
          BY <1>1, <1>5, <1>8, <4>1, <5>2, <5>3 DEF Due, Noted
      <4>2. CASE ~(k[1] = First(r) /\ k[2] \in Stay(r))
        BY <1>5, <4>2 DEF Due
      <4> QED
        BY <4>1, <4>2
    <3> QED
      BY <1>1, <3>1, <3>2 DEF Local, CacheCovers
  <2> QED
    BY <2>1, <2>2
<1>12. NotesCover(r)'
  <2>1. pc'[r] \notin Looking
    BY <1>8 DEF Looking, Counted
  <2> QED
    BY <1>4, <1>5, <1>8, <1>9, <2>1 DEF NotesCover
<1>13. CountCovers(r)'
  BY <1>8 DEF CountCovers, Counted
<1>14. Fits(r)'
  <2>1. pc'[r] \notin Looking /\ pc[r] \notin Looking
    BY <1>1, <1>8 DEF Looking, Counted
  <2> QED
    BY <1>1, <1>4, <1>5, <2>1 DEF Local, Fits
<1> QED
  BY <1>3, <1>4, <1>8, <1>11, <1>12, <1>13, <1>14, OnlyMine DEF Local, Running

\* A row is inserted where it was not, and where there was room for it unless the
\* booking missed the cache.
LEMMA InsertEffect ==
  ASSUME WholeInv, SerialInv, NEW r \in Requests, pc[r] = "insert", req' = req,
         rows' = [rows EXCEPT ![Key(r)] = @ \cup {r}], blind' = blind
  PROVE  /\ \A k \in Keys : k = Key(r) => RoomsIn(k)' = RoomsIn(k) + Rooms(r)
         /\ \A k \in Keys : k # Key(r) => RoomsIn(k)' = RoomsIn(k)
         /\ OnlyBlindOversell' /\ SeedStands'
<1>1. pc[r] \in Running /\ Local(r)
  BY DEF Running, SerialInv
<1>2. /\ Typed /\ TypeInv /\ up /\ Make(r) /\ Rooms(r) \in Int
      /\ Key(r) \in Keys /\ Key(r) = <<First(r), day[r]>> /\ Hotel(r) = First(r)
      /\ RoomsOf(Hotel(r)) \in Nat
      /\ day[r] \in Stay(r) /\ Stay(r) \subseteq Nights
  BY <1>1, SerialFacts DEF WholeInv, BoundInv
<1>3. PICK key : key = Key(r)
  OBVIOUS
<1>4. /\ rows'[key] = rows[key] \cup {r}
      /\ \A k \in Keys : k # key => rows'[k] = rows[k]
  BY <1>2, <1>3 DEF Typed
<1>5. r \notin rows[key]
  <2>1. Filed(r) = (In(r) + 1)..(day[r] - 1)
    <3>1. r \in promised
      BY <1>2 DEF TypeInv, Control
    <3> QED
      BY <1>2, <3>1 DEF WholeInv, StaysWhole
  <2>2. day[r] \in Int /\ day[r] \in Nights
    BY <1>2 DEF Nights
  <2>3. day[r] \notin Filed(r)
    BY <2>1, <2>2
  <2> QED
    BY <1>2, <1>3, <2>2, <2>3 DEF Filed
<1>6. RoomsIn(key)' = RoomsIn(key) + Rooms(r) /\ RoomsIn(key) \in Int
  BY <1>2, <1>3, <1>4, <1>5, RoomsInAdd, RoomsInType
<1>7. \A k \in Keys : k # key => RoomsIn(k)' = RoomsIn(k)
  BY <1>4, RoomsInFrame
<1>8. OnlyBlindOversell'
  <2> SUFFICES ASSUME NEW k \in Keys, RoomsIn(k)' > RoomsOf(k[1])
               PROVE  rows'[k] \cap blind # {}
    BY DEF OnlyBlindOversell, Oversold, RoomsIn, RoomsOf
  <2>1. CASE k # key
    BY <1>4, <1>7, <2>1 DEF SerialInv, OnlyBlindOversell, Oversold, RoomsIn
  <2>2. CASE k = key /\ r \in blind
    BY <1>4, <2>2
  <2>3. CASE k = key /\ r \notin blind
    <3>1. RoomsIn(<<First(r), day[r]>>) + Rooms(r) <= RoomsOf(First(r))
      BY <1>1, <1>2, <2>3 DEF Local, Fits, Looking, Counted, Nights
    <3>2. RoomsIn(key) + Rooms(r) <= RoomsOf(k[1])
      BY <1>2, <1>3, <2>3, <3>1
    <3>3. RoomsOf(k[1]) \in Nat
      BY <1>2, <1>3, <2>3
    <3> QED
      BY <1>2, <1>6, <2>3, <3>2, <3>3
  <2> QED
    BY <2>1, <2>2, <2>3
<1>9. SeedStands'
  <2>1. \A n \in Nights : <<SeedHotel, n>> \in Keys
    BY ConstantsAssumption DEF Keys
  <2>2. PICK n \in Nights : rows[<<SeedHotel, n>>] # {}
    BY <1>2 DEF SerialInv, SeedStands
  <2>3. rows[<<SeedHotel, n>>] \subseteq rows'[<<SeedHotel, n>>]
    BY <1>4, <2>1
  <2> QED
    BY <2>2, <2>3 DEF SeedStands
<1> QED
  BY <1>3, <1>6, <1>7, <1>8, <1>9

LEMMA SerialInsert ==
  ASSUME WholeInv, SerialCase, SerialInv, NEW r \in Requests, Insert(r)
  PROVE  SerialInv'
<1>1. /\ pc[r] = "insert" /\ pc[r] \in Running /\ Local(r)
      /\ rows' = [rows EXCEPT ![Key(r)] = @ \cup {r}]
      /\ UNCHANGED <<cache, req, hi, count, blind>>
  BY DEF Insert, InsertNight, Running, SerialInv
<1>2. /\ Typed /\ TypeInv /\ Make(r) /\ Rooms(r) \in Int
      /\ Key(r) \in Keys /\ Key(r) = <<First(r), day[r]>>
      /\ In(r) \in Nat /\ Out(r) \in Nat
      /\ Stay(r) = {n \in Int : In(r) < n /\ n <= Out(r)} /\ Stay(r) \subseteq Nights
      /\ day[r] \in Stay(r)
      /\ \A n \in Nights : <<First(r), n>> \in Keys
  BY <1>1, SerialFacts DEF WholeInv, BoundInv
<1>3. \A q \in Requests \ {r} : pc'[q] \notin Running
  BY OthersIdle DEF Handle
<1>4. /\ \A k \in Keys : k = Key(r) => RoomsIn(k)' = RoomsIn(k) + Rooms(r)
      /\ \A k \in Keys : k # Key(r) => RoomsIn(k)' = RoomsIn(k)
      /\ OnlyBlindOversell' /\ SeedStands'
  BY <1>1, InsertEffect
<1>5. /\ Make(r)' = Make(r) /\ First(r)' = First(r) /\ Rooms(r)' = Rooms(r)
      /\ Stay(r)' = Stay(r)
  BY <1>1, ReqFrame
<1>6. \A k \in Keys : RoomsIn(k) \in Int
  BY <1>2, RoomsInType
<1>7. \A k \in Keys : cache[k] # Absent =>
        Covers(cache[k], RoomsIn(k) + (IF Due(r, k) THEN Rooms(r) ELSE 0))
  BY <1>1 DEF Local, CacheCovers
<1>8. Due(r, Key(r))
  BY <1>1, <1>2 DEF Due
<1>9. CASE day[r] < Out(r)
  <2>1. pc'[r] = "insert" /\ day'[r] = day[r] + 1 /\ memo' = memo /\ memo[r] = {}
    BY <1>1, <1>2, <1>9 DEF Insert, InsertNight, Typed, Local, NotesCover
  <2>2. \A k \in Keys : Due(r, k)' <=> Due(r, k) /\ k # Key(r)
    <3> SUFFICES ASSUME NEW k \in Keys, k[1] = First(r), k[2] \in Stay(r)
                 PROVE  day'[r] <= k[2] <=> day[r] <= k[2] /\ k # Key(r)
      BY <1>1, <1>5, <2>1 DEF Due
    <3>1. k = <<k[1], k[2]>>
      BY DEF Keys
    <3>2. k = Key(r) <=> k[2] = day[r]
      BY <1>2, <3>1
    <3>3. k[2] \in Int /\ day[r] \in Int
      BY <1>2
    <3> QED
      BY <2>1, <3>2, <3>3
  <2>3. CacheCovers(r)'
    <3> SUFFICES ASSUME NEW k \in Keys, cache[k] # Absent
                 PROVE  Covers(cache[k], RoomsIn(k)' +
                                           (IF Due(r, k)' THEN Rooms(r) ELSE 0))
      BY <1>1, <1>5 DEF CacheCovers
    <3>1. CASE k = Key(r)
      <4>1. Due(r, k) /\ ~Due(r, k)'
        BY <1>8, <2>2, <3>1
      <4> QED
        BY <1>2, <1>4, <1>6, <1>7, <3>1, <4>1 DEF Covers
    <3>2. CASE k # Key(r)
      BY <1>4, <1>6, <1>7, <2>2, <3>2
    <3> QED
      BY <3>1, <3>2
  <2>4. NotesCover(r)'
    BY <2>1 DEF NotesCover, Looking, Counted
  <2>5. CountCovers(r)'
    BY <2>1 DEF CountCovers, Counted
  <2>6. Fits(r)'
    <3>1. \A n \in Stay(r) : day'[r] <= n =>
             /\ day[r] <= n /\ RoomsIn(<<First(r), n>>)' = RoomsIn(<<First(r), n>>)
      <4> TAKE n \in Stay(r)
      <4> HAVE day'[r] <= n
      <4>1. day[r] <= n /\ n # day[r]
        BY <1>2, <2>1
      <4>2. PICK k \in Keys : k = <<First(r), n>>
        BY <1>2
      <4>3. k # Key(r)
        BY <1>2, <4>1, <4>2
      <4>4. RoomsIn(<<First(r), n>>)' = RoomsIn(k)'
        BY <1>5, <4>2
      <4> QED
        BY <1>4, <4>1, <4>2, <4>3, <4>4
    <3> QED
      BY <1>1, <1>5, <2>1, <3>1 DEF Local, Fits, Looking, Counted
  <2> QED
    BY <1>3, <1>4, <2>1, <2>3, <2>4, <2>5, <2>6, OnlyMine DEF Local, Running
<1>10. CASE ~(day[r] < Out(r))
  <2>1. pc'[r] = "replied"
    BY <1>2, <1>10 DEF Insert, InsertNight, Reply, Goto, Typed
  <2>2. ASSUME NEW k \in Keys, cache'[k] # Absent
        PROVE  Covers(cache'[k], RoomsIn(k)')
    <3>1. Due(r, k) => k = Key(r)
      <4>1. k = <<k[1], k[2]>>
        BY DEF Keys
      <4> QED
        BY <1>1, <1>2, <1>10, <4>1 DEF Due
    <3>2. CASE k = Key(r)
      BY <1>1, <1>2, <1>4, <1>6, <1>7, <1>8, <2>2, <3>2 DEF Covers
    <3>3. CASE k # Key(r)
      BY <1>1, <1>4, <1>6, <1>7, <2>2, <3>1, <3>3 DEF Covers
    <3> QED
      BY <3>2, <3>3
  <2> QED
    BY <1>3, <1>4, <2>1, <2>2, OnlyMine DEF Running
<1> QED
  BY <1>9, <1>10

\* A handler that ends by an error leaves the cache at or above the rows.
LEMMA SerialFail ==
  ASSUME WholeInv, SerialCase, SerialInv, NEW r \in Requests, Fail(r)
  PROVE  SerialInv'
<1>1. /\ pc[r] \in Running /\ Local(r)
      /\ UNCHANGED <<cache, req, blind>>
      /\ up' = FALSE /\ \A q \in Requests : pc'[q] \notin Running
      /\ \/ /\ pc[r] \notin {"publish", "insert"} /\ rows' = rows
         \/ /\ pc[r] = "insert" /\ "mongoError" \in Faults
            /\ rows' \in {rows, [rows EXCEPT ![Key(r)] = @ \cup {r}]}
  BY DEF Fail, Crash, InsertFails, Die, Running, SerialInv
<1>2. /\ Typed /\ TypeInv /\ up /\ Rooms(r) \in Int
  BY <1>1, SerialFacts DEF WholeInv, BoundInv
<1>3. \A k \in Keys : RoomsIn(k) \in Int
  BY <1>2, RoomsInType
<1>4. \A k \in Keys : cache[k] # Absent =>
        Covers(cache[k], RoomsIn(k) + (IF Due(r, k) THEN Rooms(r) ELSE 0))
  BY <1>1 DEF Local, CacheCovers
<1>5. \A k \in Keys : cache[k] # Absent => cache[k] \in Int
  BY <1>2 DEF Typed
<1>6. CASE pc[r] \notin {"publish", "insert"} /\ rows' = rows
  <2>1. SeedStands' /\ OnlyBlindOversell' /\ \A k : RoomsIn(k)' = RoomsIn(k)
    BY <1>1, <1>2, <1>6, RowsKept
  <2>2. \A k \in Keys : cache[k] # Absent => Covers(cache[k], RoomsIn(k))
    BY <1>1, <1>6, NothingDue
  <2> QED
    BY <1>1, <2>1, <2>2, OnlyMine
<1>7. CASE /\ pc[r] = "insert" /\ "mongoError" \in Faults
           /\ rows' \in {rows, [rows EXCEPT ![Key(r)] = @ \cup {r}]}
  <2>1. ~Exact /\ Rooms(r) >= 0
    BY <1>7 DEF Exact, SerialCase, NoNegativeRooms
  <2>2. Make(r) /\ Key(r) \in Keys /\ Due(r, Key(r))
    BY <1>1, <1>2, <1>7, SerialFacts DEF Due, Nights
  <2>3. /\ SeedStands' /\ OnlyBlindOversell'
        /\ \A k \in Keys : \/ RoomsIn(k)' = RoomsIn(k)
                           \/ k = Key(r) /\ RoomsIn(k)' = RoomsIn(k) + Rooms(r)
    <3>1. CASE rows' = rows
      BY <1>1, <1>2, <3>1, RowsKept
    <3>2. CASE rows' = [rows EXCEPT ![Key(r)] = @ \cup {r}]
      BY <1>1, <1>7, <3>2, InsertEffect
    <3> QED
      BY <1>7, <3>1, <3>2
  <2>4. ASSUME NEW k \in Keys, cache'[k] # Absent
        PROVE  Covers(cache'[k], RoomsIn(k)')
    <3>1. k = Key(r) => Due(r, k)
      BY <2>2
    <3> QED
      BY <1>1, <1>2, <1>3, <1>4, <1>5, <2>1, <2>3, <2>4, <3>1 DEF Covers
  <2> QED
    BY <1>1, <2>3, <2>4, OnlyMine
<1> QED
  BY <1>1, <1>6, <1>7

\* InitializeDatabase adds its row, of one room, only when nothing is cached.
LEMMA SerialBoot ==
  ASSUME WholeInv, SerialInv, Boot \/ BootFails
  PROVE  SerialInv'
<1>1. /\ ~up /\ rows' \in {rows, Seeded} /\ (up' => rows' = Seeded)
      /\ UNCHANGED <<cache, req, pc, blind>>
  BY DEF Boot, BootFails
<1>2. Typed /\ TypeInv /\ Control /\ \A q \in Requests : pc[q] \notin Running
  BY <1>1 DEF WholeInv, BoundInv, TypeInv, Control
<1>3. PICK key : key = <<SeedHotel, SeedNight>>
  OBVIOUS
<1>4. /\ key \in Keys /\ key[1] = SeedHotel
      /\ \A n \in Nights : <<SeedHotel, n>> \in Keys
  BY <1>3, ConstantsAssumption DEF Keys
<1>5. CASE rows' = rows
  <2>1. \A k : RoomsIn(k)' = RoomsIn(k)
    BY <1>1, <1>5, RoomsInFrame
  <2>2. SeedStands'
    <3>1. CASE up'
      <4>1. rows' = Seeded /\ rows' = rows
        BY <1>1, <1>5, <3>1
      <4>2. ~\A n \in Nights : rows[<<SeedHotel, n>>] = {}
        <5> SUFFICES ASSUME \A n \in Nights : rows[<<SeedHotel, n>>] = {} PROVE FALSE
          OBVIOUS
        <5>1. rows' = [rows EXCEPT ![key] = {Seed}]
          BY <1>3, <4>1 DEF Seeded
        <5>2. rows'[key] = {Seed} /\ rows[key] = {}
          BY <1>2, <1>3, <1>4, <5>1, ConstantsAssumption DEF Typed
        <5> QED
          BY <4>1, <5>2
      <4> QED
        BY <1>5, <4>2 DEF SeedStands
    <3>2. CASE ~up'
      BY <1>1, <1>5, <3>2 DEF SerialInv, SeedStands
    <3> QED
      BY <3>1, <3>2
  <2>3. OnlyBlindOversell'
    BY <1>1, <1>5, <2>1 DEF SerialInv, OnlyBlindOversell, Oversold, RoomsIn, RoomsOf
  <2>4. IdleCovers' /\ Alone'
    BY <1>1, <1>2, <2>1 DEF SerialInv, IdleCovers, Idle, Alone
  <2> QED
    BY <1>1, <1>2, <2>2, <2>3, <2>4 DEF SerialInv
<1>6. CASE rows' = Seeded /\ rows' # rows
  <2>1. /\ \A n \in Nights : rows[<<SeedHotel, n>>] = {}
        /\ rows' = [rows EXCEPT ![key] = {Seed}]
    BY <1>3, <1>6 DEF Seeded
  <2>2. \A k \in Keys : cache'[k] = Absent
    BY <1>1, <2>1 DEF SerialInv, SeedStands
  <2>3. rows'[key] = {Seed} /\ \A k \in Keys : k # key => rows'[k] = rows[k]
    BY <1>2, <1>4, <2>1 DEF Typed
  <2>4. SeedStands'
    BY <1>3, <2>3, ConstantsAssumption DEF SeedStands
  <2>5. \A k \in Keys : k # key => RoomsIn(k)' = RoomsIn(k)
    BY <1>1, <2>3, RoomsInFrame
  <2>6. RoomsIn(key)' = 1 /\ RoomsOf(SeedHotel) \in Nat /\ RoomsOf(SeedHotel) >= 1
    <3>1. PICK T : T = {Seed}
      OBVIOUS
    <3>2. Total({} \cup {Seed}) = Total({}) + Number(Seed)
      BY <1>2, TotalAdd DEF Typed, Row
    <3>3. Total(T) = 1
      BY <3>1, <3>2, TotalEmpty DEF Number
    <3>4. RoomsIn(key)' = Total(T)'
      BY <2>3, <3>1 DEF RoomsIn
    <3>5. RoomsIn(key)' = 1
      BY <1>1, <3>3, <3>4, ReqFrame
    <3> QED
      BY <3>5, ConstantsAssumption DEF RoomsOf
  <2>7. OnlyBlindOversell'
    <3> SUFFICES ASSUME NEW k \in Keys, RoomsIn(k)' > RoomsOf(k[1])
                 PROVE  rows'[k] \cap blind' # {}
      BY DEF OnlyBlindOversell, Oversold, RoomsIn, RoomsOf
    <3>1. k # key
      <4> SUFFICES ASSUME k = key PROVE FALSE
        OBVIOUS
      <4>1. RoomsIn(key)' > RoomsOf(SeedHotel)
        BY <1>4
      <4> QED
        BY <2>6, <4>1
    <3> QED
      BY <1>1, <2>3, <2>5, <3>1 DEF SerialInv, OnlyBlindOversell, Oversold, RoomsIn
  <2>8. IdleCovers' /\ Alone'
    BY <1>1, <1>2, <2>2 DEF IdleCovers, Alone
  <2> QED
    BY <1>1, <1>2, <2>4, <2>7, <2>8 DEF SerialInv
<1> QED
  BY <1>1, <1>5, <1>6

\* A step that drops cached entries at most.
LEMMA SerialDrop ==
  ASSUME WholeInv, SerialInv, UNCHANGED <<up, rows, req, pc, locals, promised, blind>>,
         \A k \in Keys : cache'[k] \in {cache[k], Absent}
  PROVE  SerialInv'
<1>1. \A k : RoomsIn(k)' = RoomsIn(k)
  BY RoomsInFrame
<1>2. SeedStands'
  BY DEF SerialInv, SeedStands
<1>3. OnlyBlindOversell'
  BY <1>1 DEF SerialInv, OnlyBlindOversell, Oversold, RoomsIn, RoomsOf
<1>4. Alone'
  BY DEF SerialInv, Alone
<1>5. IdleCovers'
  BY <1>1 DEF SerialInv, IdleCovers, Idle
<1>6. ASSUME NEW r \in Requests, pc'[r] \in Running PROVE Local(r)'
  <2>1. Local(r)
    BY <1>6 DEF SerialInv
  <2>2. /\ UNCHANGED <<pc, hi, day, count, memo>>
        /\ Make(r)' = Make(r) /\ First(r)' = First(r) /\ Rooms(r)' = Rooms(r)
        /\ Stay(r)' = Stay(r) /\ Key(r)' = Key(r)
    BY ReqFrame DEF locals, Key, Hotel
  <2>3. CacheCovers(r)'
    <3>1. \A k \in Keys : Due(r, k)' <=> Due(r, k)
      BY <2>2 DEF Due, Noted
    <3> QED
      BY <1>1, <2>1, <2>2, <3>1 DEF Local, CacheCovers
  <2>4. NotesCover(r)'
    <3>1. \A n \in Stay(r) : <<First(r), n>> \in Keys \/ ~Make(r)
      BY <1>6, <2>2, SerialFacts
    <3>2. \A n \in Stay(r) : Passed(r, n)' = Passed(r, n) /\ Noted(r, n)' = Noted(r, n)
      BY <2>2 DEF Passed, Noted
    <3> QED
      BY <1>1, <2>1, <2>2, <3>1, <3>2 DEF Local, NotesCover
  <2>5. CountCovers(r)'
    BY <1>1, <2>1, <2>2 DEF Local, CountCovers
  <2>6. Fits(r)'
    BY <1>1, <2>1, <2>2 DEF Local, Fits, RoomsOf
  <2> QED
    BY <2>3, <2>4, <2>5, <2>6 DEF Local
<1> QED
  BY <1>2, <1>3, <1>4, <1>5, <1>6 DEF SerialInv

SerialStep == WholeInv /\ CapsRight /\ (SerialCase => SerialInv)

LEMMA InitSerialInv == Init => SerialInv
<1> SUFFICES ASSUME Init PROVE SerialInv
  OBVIOUS
<1>1. \A q \in Requests : pc[q] \notin Running
  BY DEF Init, Running
<1>2. \A k \in Keys : cache[k] = Absent /\ rows[k] = {}
  BY DEF Init
<1>3. Alone /\ SeedStands /\ IdleCovers
  BY <1>1, <1>2 DEF Alone, SeedStands, IdleCovers, Init
<1>4. \A k \in Keys : Total(rows[k]) = 0 /\ RoomsOf(k[1]) \in Nat
  <2> TAKE k \in Keys
  <2>1. k[1] \in Hotels
    BY DEF Keys
  <2> QED
    BY <1>2, <2>1, TotalEmpty, RoomsOfType
<1>5. OnlyBlindOversell
  BY <1>4 DEF OnlyBlindOversell, Oversold
<1> QED
  BY <1>1, <1>3, <1>5 DEF SerialInv

LEMMA NextSerialInv ==
  ASSUME WholeInv, CapsRight, SerialCase, SerialInv, [Next]_vars
  PROVE  SerialInv'
<1>1. TypeInv'
  BY NextTypeInv DEF WholeInv, BoundInv
<1>2. CASE Boot \/ BootFails
  BY <1>2, SerialBoot
<1>3. CASE Evict
  <2>1. \A k \in Keys : cache'[k] \in {cache[k], Absent}
    BY <1>3 DEF Evict, WholeInv, BoundInv, TypeInv, Typed
  <2> QED
    BY <1>3, <2>1, SerialDrop DEF Evict
<1>4. CASE UNCHANGED vars
  BY <1>4, SerialDrop DEF vars, server
<1>5. CASE Quiet
  BY <1>4, <1>5 DEF Quiet
<1>6. ASSUME NEW r \in Requests, Arrive(r) PROVE SerialInv'
  BY <1>1, <1>6, SerialArrive
<1>7. ASSUME NEW r \in Requests, Fail(r) PROVE SerialInv'
  BY <1>7, SerialFail
<1>8. ASSUME NEW r \in Requests, Handle(r) PROVE SerialInv'
  BY <1>1, <1>8, SerialGetCount, SerialFindForBooking, SerialFindForCheck,
     SerialFillCount, SerialCaps, SerialPublish, SerialInsert DEF Handle
<1> QED
  BY <1>2, <1>3, <1>4, <1>5, <1>6, <1>7, <1>8 DEF Next

LEMMA InitSerialStep == Init => SerialStep
<1>1. Init => CapsRight
  BY InitRefusalInv DEF RefusalInv
<1> QED
  BY <1>1, InitWholeInv, InitSerialInv DEF SerialStep

LEMMA NextSerialStep ==
  ASSUME SerialStep, [Next]_vars
  PROVE  SerialStep'
<1>1. /\ WholeInv /\ CapsRight /\ TypeInv
      /\ WholeInv' /\ CapsRight' /\ req' = req
  BY NextWholeInv, CapsRightStep, ReqConstant DEF SerialStep, WholeInv, BoundInv
<1>2. SerialCase' => SerialCase
  BY <1>1, ReqFrame DEF SerialCase, NoNegativeRooms
<1> QED
  BY <1>1, <1>2, NextSerialInv DEF SerialStep

LEMMA SerialStepAlways == Spec => []SerialStep
<1>1. SerialStep /\ [Next]_vars => SerialStep'
  BY NextSerialStep
<1> QED
  BY <1>1, InitSerialStep, PTL DEF Spec

\* When clients send one request at a time, a cached number of rooms booked is
\* the number in the rows whenever no handler runs, although memcached drops
\* entries and a handler may be ended by a failed Get.
THEOREM CacheCoherentWhenSerial == Spec => []SerialCoherence
<1>1. ASSUME SerialStep PROVE SerialCoherence
  <2> SUFFICES ASSUME Serial, Faults \subseteq {"evict", "memcError", "numberError"}
               PROVE  CacheAgrees
    BY DEF SerialCoherence
  <2>1. Exact /\ SerialInv
    BY <1>1 DEF SerialStep, SerialCase, Exact
  <2> QED
    BY <2>1 DEF SerialInv, IdleCovers, Covers, CacheAgrees, RoomsIn
<1> QED
  BY <1>1, SerialStepAlways, PTL

\* When clients send one request at a time, a hotel is oversold for a night only
\* if a booking that skipped the count of its rows, because the cache had no
\* entry, is among those of the night; also with crashes and a failing MongoDB,
\* so long as memcached does not lose an update.
THEOREM OnlyBlindOversellWhenSerial == Spec => []SerialOversell
<1>1. ASSUME SerialStep PROVE SerialOversell
  BY <1>1 DEF SerialStep, SerialOversell, SerialCase, SerialInv
<1> QED
  BY <1>1, SerialStepAlways, PTL

-----------------------------------------------------------------------------
(* What an availability check answers when nothing runs beside it *)

ExactCase == Serial /\ Faults \subseteq {"evict", "memcError"}

VacantUpTo(r, n) == {i \in 1..n : Vacant(r, req[r].hotels[i])}

\* The reply so far is right about the hotels left behind, and every night left
\* behind has room in the present one.
Searched(r) ==
  /\ KeptOf(result[r], req[r].hotels, VacantUpTo(r, hi[r] - 1))
  /\ \A n \in Stay(r) :
       n < day[r] => RoomsIn(<<Hotel(r), n>>) + Rooms(r) <= RoomsOf(Hotel(r))

ExactInv ==
  /\ SerialStep
  /\ ExactCase =>
       \A r \in Requests :
         /\ pc[r] = "new" => result[r] = <<>>
         /\ ~Make(r) /\ pc[r] \in Running => Searched(r)

LEMMA KeptNothing ==
  ASSUME NEW t
  PROVE  KeptOf(<<>>, t, {})
<1>1. <<>> \in [DOMAIN <<>> -> {}]
  OBVIOUS
<1> QED
  BY <1>1 DEF KeptOf

\* Keeping one more index, which is greater than those before it.
LEMMA KeptOneMore ==
  ASSUME NEW S, NEW s \in Seq(S), NEW t, NEW I \in SUBSET Nat, NEW n \in Nat,
         KeptOf(s, t, I), \A i \in I : i < n, NEW x \in S, x = t[n]
  PROVE  KeptOf(Append(s, x), t, I \cup {n})
<1>1. PICK f \in [DOMAIN s -> I] :
        /\ \A i \in I : \E j \in DOMAIN s : f[j] = i
        /\ \A j, k \in DOMAIN s : j < k => f[j] < f[k]
        /\ \A j \in DOMAIN s : s[j] = t[f[j]]
  BY DEF KeptOf
<1> DEFINE e == Len(s) + 1
           g == [j \in 1..e |-> IF j = e THEN n ELSE f[j]]
<1>2. /\ Len(s) \in Nat /\ DOMAIN s = 1..Len(s)
      /\ DOMAIN Append(s, x) = 1..e
      /\ Append(s, x)[e] = x
      /\ \A j \in 1..Len(s) : Append(s, x)[j] = s[j]
  OBVIOUS
<1>3. 1..e = (1..Len(s)) \cup {e} /\ e \notin 1..Len(s)
  BY <1>2
<1>4. g[e] = n /\ \A j \in 1..Len(s) : g[j] = f[j]
  BY <1>3
<1>5. g \in [1..e -> I \cup {n}]
  BY <1>1, <1>2, <1>3
<1> HIDE DEF g
<1>6. \A i \in I \cup {n} : \E j \in 1..e : g[j] = i
  BY <1>1, <1>2, <1>3, <1>4
<1>7. ASSUME NEW j \in 1..e, NEW k \in 1..e, j < k PROVE g[j] < g[k]
  <2>1. j \in 1..Len(s)
    BY <1>2, <1>7
  <2>2. f[j] \in I /\ g[j] = f[j]
    BY <1>1, <1>2, <1>4, <2>1
  <2>3. CASE k = e
    BY <1>4, <2>2, <2>3
  <2>4. CASE k # e
    <3>1. k \in 1..Len(s)
      BY <1>3, <2>4
    <3> QED
      BY <1>1, <1>2, <1>4, <1>7, <2>1, <3>1
  <2> QED
    BY <2>3, <2>4
<1>8. \A j \in 1..e : Append(s, x)[j] = t[g[j]]
  BY <1>1, <1>2, <1>3, <1>4
<1>9. \E h \in [1..e -> I \cup {n}] :
        /\ \A i \in I \cup {n} : \E j \in 1..e : h[j] = i
        /\ \A j, k \in 1..e : j < k => h[j] < h[k]
        /\ \A j \in 1..e : Append(s, x)[j] = t[h[j]]
  BY <1>5, <1>6, <1>7, <1>8
<1>10. PICK a, D : a = Append(s, x) /\ D = 1..e
  OBVIOUS
<1>11. DOMAIN a = D
  BY <1>2, <1>10
<1>12. \E h \in [D -> I \cup {n}] :
         /\ \A i \in I \cup {n} : \E j \in D : h[j] = i
         /\ \A j, k \in D : j < k => h[j] < h[k]
         /\ \A j \in D : a[j] = t[h[j]]
  BY <1>9, <1>10
<1>13. KeptOf(a, t, I \cup {n})
  BY <1>11, <1>12 DEF KeptOf
<1> QED
  BY <1>10, <1>13

\* While a check runs, alone, the rows stay.
LEMMA RowsStill ==
  ASSUME SerialStep, SerialCase, [Next]_vars, NEW q \in Requests, ~Make(q),
         pc[q] \in Running
  PROVE  rows' = rows
<1>1. WholeInv /\ SerialInv /\ TypeInv /\ up
  BY SerialFacts DEF SerialStep, WholeInv, BoundInv
<1>2. CASE Boot \/ BootFails
  BY <1>1, <1>2 DEF Boot, BootFails
<1>3. CASE Evict \/ Quiet \/ UNCHANGED vars
  BY <1>3 DEF Evict, Quiet, vars, server
<1>4. ASSUME NEW r \in Requests, Arrive(r) PROVE rows' = rows
  BY <1>4 DEF Arrive, server
<1>5. ASSUME NEW r \in Requests, Handle(r) PROVE rows' = rows
  <2>1. r = q
    BY <1>1, <1>5, OthersIdle
  <2>2. ~Insert(r)
    BY <1>1, <2>1, SerialFacts DEF Insert, InsertNight
  <2> QED
    BY <1>1, <1>5, <2>2, CapEffect
    DEF Handle, GetCount, FindForBooking, FindForCheck, FillCount, Publish, server
<1>6. ASSUME NEW r \in Requests, Fail(r) PROVE rows' = rows
  <2>1. pc[r] \in Running
    BY <1>6 DEF Fail, Crash, InsertFails, Running
  <2>2. r = q
    BY <1>1, <2>1 DEF SerialInv, Alone
  <2>3. pc[r] # "insert"
    BY <1>1, <2>2, SerialFacts
  <2> QED
    BY <1>6, <2>3 DEF Fail, Crash, InsertFails
<1> QED
  BY <1>2, <1>3, <1>4, <1>5, <1>6 DEF Next

\* The judgement of an exact count.
LEMMA JudgeSearch ==
  ASSUME WholeInv, NEW q \in Requests, ~Make(q), pc[q] \in Counted, Searched(q),
         count[q] = RoomsIn(Key(q)), Judge(q, RoomsOf(Hotel(q))),
         rows' = rows, req' = req
  PROVE  \/ pc'[q] = "getCount" /\ Searched(q)'
         \/ /\ pc'[q] = "replied"
            /\ KeptOf(result'[q], req[q].hotels, VacantUpTo(q, Len(req[q].hotels)))
<1>1. /\ Typed /\ Rooms(q) \in Int /\ Hotel(q) \in Hotels
      /\ RoomsOf(Hotel(q)) \in Nat /\ TypeInv
      /\ In(q) \in Nat /\ Out(q) \in Nat /\ day[q] \in Stay(q)
      /\ Stay(q) = {n \in Int : In(q) < n /\ n <= Out(q)} /\ Stay(q) \subseteq Nights
      /\ hi[q] \in 1..Len(req[q].hotels) /\ req[q].hotels \in Seq(Hotels)
  BY SerialFacts, CallFacts
  DEF Counted, Running, WholeInv, BoundInv, TypeInv, Typed, Control
<1>2. PICK h, n : h = Hotel(q) /\ n = hi[q]
  OBVIOUS
<1>3. /\ \A k : RoomsIn(k)' = RoomsIn(k)
      /\ Rooms(q)' = Rooms(q) /\ Stay(q)' = Stay(q) /\ In(q)' = In(q)
      /\ \A g : Vacant(q, g)' <=> Vacant(q, g)
  <2>1. /\ Rooms(q)' = Rooms(q) /\ Stay(q)' = Stay(q) /\ In(q)' = In(q)
        /\ \A S : Total(S)' = Total(S)
    BY ReqFrame
  <2>2. \A k : RoomsIn(k)' = RoomsIn(k)
    BY RoomsInFrame
  <2>3. \A g : Vacant(q, g)' <=> Vacant(q, g)
    BY <2>1, <2>2 DEF Vacant, RoomsIn, RoomsOf
  <2> QED
    BY <2>1, <2>2, <2>3
<1>4. \A i : VacantUpTo(q, i)' = VacantUpTo(q, i)
  BY <1>3 DEF VacantUpTo
<1>5. RoomsIn(<<h, day[q]>>) = count[q] /\ h = req[q].hotels[n]
  BY <1>2 DEF Key, Hotel
<1>6. \A i \in Stay(q) : i < day[q] => RoomsIn(<<h, i>>) + Rooms(q) <= RoomsOf(h)
  BY <1>2 DEF Searched
<1> DEFINE full == count[q] + Rooms(q) > RoomsOf(Hotel(q))
           found == IF ~full THEN Append(result[q], Hotel(q)) ELSE result[q]
<1>7. count[q] \in Int
  BY <1>1 DEF Typed
<1>8. CASE ~full /\ day[q] # Out(q) /\ NextNight(q)
  <2>1. pc'[q] = "getCount" /\ day'[q] = day[q] + 1 /\ hi' = hi /\ result' = result
    BY <1>1, <1>8 DEF NextNight, Goto, Typed
  <2>2. \A i \in Stay(q) : i < day'[q] => RoomsIn(<<h, i>>) + Rooms(q) <= RoomsOf(h)
    <3> TAKE i \in Stay(q)
    <3> HAVE i < day'[q]
    <3>1. CASE i = day[q]
      BY <1>1, <1>2, <1>5, <1>7, <1>8, <3>1
    <3>2. CASE i # day[q]
      BY <1>1, <1>6, <2>1, <3>2
    <3> QED
      BY <3>1, <3>2
  <2>3. Hotel(q)' = h
    BY <1>2, <2>1 DEF Hotel
  <2>4. \A i \in Stay(q)' : i < day'[q] =>
          RoomsIn(<<h, i>>)' + Rooms(q)' <= RoomsOf(h)
    BY <1>3, <2>2
  <2>5. KeptOf(result'[q], req'[q].hotels, VacantUpTo(q, hi[q] - 1)')
    <3>1. VacantUpTo(q, hi[q] - 1)' = VacantUpTo(q, hi[q] - 1)
      BY <1>4, <2>1
    <3> QED
      BY <2>1, <3>1 DEF Searched
  <2> QED
    BY <2>1, <2>3, <2>4, <2>5 DEF Searched, RoomsOf
<1>9. CASE (full \/ day[q] = Out(q)) /\ NextHotel(q, ~full)
  <2>1. KeptOf(found, req[q].hotels, VacantUpTo(q, n))
    <3>1. n \in Nat /\ 1..n = (1..(n - 1)) \cup {n} /\ n >= 1
      BY <1>1, <1>2
    <3>2. KeptOf(result[q], req[q].hotels, VacantUpTo(q, n - 1))
      BY <1>2 DEF Searched
    <3>3. CASE full
      <4>1. ~Vacant(q, h)
        BY <1>1, <1>2, <1>5, <1>7, <3>3 DEF Vacant, RoomsIn
      <4>2. VacantUpTo(q, n) = VacantUpTo(q, n - 1)
        BY <1>5, <3>1, <4>1 DEF VacantUpTo
      <4> QED
        BY <3>2, <3>3, <4>2
    <3>4. CASE ~full
      <4>1. \A i \in Stay(q) : RoomsIn(<<h, i>>) + Rooms(q) <= RoomsOf(h)
        BY <1>1, <1>2, <1>5, <1>6, <1>7, <1>9, <3>4
      <4>2. Vacant(q, h)
        BY <1>1, <4>1 DEF Vacant, RoomsIn
      <4>3. VacantUpTo(q, n) = VacantUpTo(q, n - 1) \cup {n}
        BY <1>5, <3>1, <4>2 DEF VacantUpTo
      <4>4. /\ VacantUpTo(q, n - 1) \in SUBSET Nat
            /\ \A i \in VacantUpTo(q, n - 1) : i < n
        BY <3>1 DEF VacantUpTo
      <4>5. result[q] \in Seq(Hotels) /\ h \in Hotels
        BY <1>1, <1>2 DEF Typed
      <4>6. KeptOf(Append(result[q], h), req[q].hotels, VacantUpTo(q, n - 1) \cup {n})
        BY <1>5, <3>1, <3>2, <4>4, <4>5, KeptOneMore
      <4> QED
        BY <1>2, <3>4, <4>3, <4>6
    <3> QED
      BY <3>3, <3>4
  <2>2. \/ /\ hi'[q] = n + 1 /\ day'[q] = In(q) + 1
           /\ result'[q] = found /\ pc'[q] = "getCount"
        \/ /\ n = Len(req[q].hotels)
           /\ result'[q] = found /\ pc'[q] = "replied"
    BY <1>1, <1>2, <1>9 DEF NextHotel, Reply, Goto, Typed
  <2> HIDE DEF found
  <2>3. CASE /\ hi'[q] = n + 1 /\ day'[q] = In(q) + 1
             /\ result'[q] = found /\ pc'[q] = "getCount"
    <3>1. KeptOf(result'[q], req'[q].hotels, VacantUpTo(q, hi[q] - 1)')
      <4>1. hi'[q] - 1 = n
        BY <1>1, <1>2, <2>3
      <4>2. VacantUpTo(q, hi[q] - 1)' = VacantUpTo(q, n)
        BY <1>4, <4>1
      <4> QED
        BY <2>1, <2>3, <4>2
    <3>2. \A i \in Stay(q)' : ~(i < day'[q])
      BY <1>1, <1>3, <2>3
    <3> QED
      BY <2>3, <3>1, <3>2 DEF Searched
  <2> QED
    BY <2>1, <2>2, <2>3
<1> QED
  BY <1>8, <1>9 DEF Judge, Decide

\* What a step does to a running check: it is right about the hotels it has left,
\* and right about all of them when it replies.
LEMMA SearchStep ==
  ASSUME SerialStep, ExactCase, [Next]_vars, NEW q \in Requests, ~Make(q),
         pc[q] \in Running, Searched(q)
  PROVE  /\ pc'[q] \in Running => Searched(q)'
         /\ pc'[q] = "replied" =>
              KeptOf(result'[q], req[q].hotels, VacantUpTo(q, Len(req[q].hotels)))
         /\ pc'[q] # "new"
<1>1. /\ SerialCase /\ WholeInv /\ CapsRight /\ SerialInv /\ TypeInv /\ Exact
      /\ "numberError" \notin Faults
  BY DEF SerialStep, SerialCase, ExactCase, Exact, WholeInv, BoundInv
<1>2. Typed /\ Control /\ Local(q) /\ RoomsIn(Key(q)) \in Int
  BY <1>1, SerialFacts, RoomsInType DEF SerialInv
<1>3. rows' = rows /\ req' = req
  BY <1>1, RowsStill, ReqConstant
<1>4. ASSUME hi'[q] = hi[q], day'[q] = day[q], result'[q] = result[q]
      PROVE  Searched(q)'
  <2>1. /\ \A k : RoomsIn(k)' = RoomsIn(k)
        /\ Rooms(q)' = Rooms(q) /\ Stay(q)' = Stay(q) /\ Hotel(q)' = Hotel(q)
        /\ \A S : Total(S)' = Total(S)
    BY <1>3, <1>4, RoomsInFrame, ReqFrame DEF Hotel
  <2>2. VacantUpTo(q, hi[q] - 1)' = VacantUpTo(q, hi[q] - 1)
    <3>1. \A h : Vacant(q, h)' <=> Vacant(q, h)
      BY <1>3, <2>1 DEF Vacant, RoomsOf
    <3> QED
      BY <1>3, <1>4, <3>1 DEF VacantUpTo
  <2>3. PICK h : h = Hotel(q)
    OBVIOUS
  <2>4. \A i : RoomsIn(<<h, i>>)' = RoomsIn(<<h, i>>)
    BY <2>1
  <2>5. \A i \in Stay(q)' : i < day'[q] =>
          RoomsIn(<<h, i>>)' + Rooms(q)' <= RoomsOf(h)
    BY <1>4, <2>1, <2>3, <2>4 DEF Searched
  <2>6. KeptOf(result'[q], req'[q].hotels, VacantUpTo(q, hi[q] - 1)')
    BY <1>3, <1>4, <2>2 DEF Searched
  <2>7. Hotel(q)' = h
    BY <2>1, <2>3
  <2> QED
    BY <2>5, <2>6, <2>7 DEF Searched, RoomsOf
<1>5. CASE GetCount(q) \/ FindForCheck(q) \/ FillCount(q)
  <2>1. /\ hi' = hi /\ day' = day /\ result' = result
        /\ pc'[q] \in {"getCap", "find", "fill"}
    BY <1>2, <1>5 DEF GetCount, FindForCheck, FillCount, Goto, Typed, locals
  <2> QED
    BY <1>4, <2>1
<1>6. CASE GetCap(q) \/ FindCap(q) \/ FillCap(q)
  <2>1. pc[q] \in Counted
    BY <1>1, <1>6, CapEffect DEF Counted
  <2>2. count[q] = RoomsIn(Key(q))
    BY <1>1, <1>2, <2>1 DEF Local, CountCovers, Covers, Counted
  <2>3. CASE /\ pc'[q] \in {"findCap", "fillCap"}
             /\ UNCHANGED <<hi, day, memo, result, promised>>
    BY <1>4, <2>3
  <2>4. CASE Judge(q, RoomsOf(Hotel(q)))
    BY <1>1, <1>3, <2>1, <2>2, <2>4, JudgeSearch DEF Running
  <2> QED
    BY <1>1, <1>6, <2>3, <2>4, JudgedByRooms
<1>7. CASE /\ hi'[q] = hi[q] /\ day'[q] = day[q] /\ result'[q] = result[q]
           /\ pc'[q] = pc[q] \/ pc'[q] = "lost"
  BY <1>4, <1>7 DEF Running
<1>8. ~Arrive(q)
  BY DEF Arrive, Running
<1>9. ~FindForBooking(q) /\ ~Publish(q) /\ ~Insert(q)
  BY <1>1, SerialFacts DEF FindForBooking, Publish, Insert, InsertNight
<1> QED
  BY <1>1, <1>5, <1>6, <1>7, <1>8, <1>9, OwnSteps DEF Handle

\* A check that arrives, and is answered at once when it asks for nothing.
LEMMA SearchStarts ==
  ASSUME TypeInv, NEW q \in Requests, ~Make(q), Arrive(q), result[q] = <<>>
  PROVE  /\ pc'[q] \in Running => Searched(q)'
         /\ pc'[q] = "replied" =>
              KeptOf(result'[q], req[q].hotels, VacantUpTo(q, Len(req[q].hotels)))
         /\ pc'[q] # "new"
<1>1. /\ Typed /\ Control /\ pc[q] = "new" /\ hi[q] = 1 /\ hi' = hi /\ req' = req
      /\ day'[q] = In(q) + 1 /\ In(q) \in Nat
      /\ Stay(q) = {n \in Int : In(q) < n /\ n <= Out(q)}
  BY CallFacts DEF TypeInv, Typed, Control, Arrive
<1>2. CASE Stay(q) # {} /\ req[q].hotels # <<>> /\ Goto(q, "getCount") /\ result' = result
  <2>1. pc'[q] = "getCount" /\ result'[q] = <<>> /\ hi'[q] = 1
    BY <1>1, <1>2 DEF Goto, Typed
  <2>2. VacantUpTo(q, hi[q] - 1)' = {}
    BY <2>1 DEF VacantUpTo
  <2>3. \A n \in Stay(q)' : ~(n < day'[q])
    BY <1>1, ReqFrame
  <2>4. KeptOf(result'[q], req'[q].hotels, VacantUpTo(q, hi[q] - 1)')
    BY <2>1, <2>2, KeptNothing
  <2> QED
    BY <2>1, <2>3, <2>4 DEF Searched
<1>3. CASE (Stay(q) = {} \/ req[q].hotels = <<>>) /\ Reply(q, <<>>)
  <2>1. pc'[q] = "replied" /\ result'[q] = <<>>
    BY <1>1, <1>3 DEF Reply, Goto, Typed
  <2>2. VacantUpTo(q, Len(req[q].hotels)) = {}
    BY <1>3 DEF VacantUpTo, Vacant
  <2> QED
    BY <2>1, <2>2, KeptNothing DEF Running
<1> QED
  BY <1>2, <1>3 DEF Arrive

LEMMA ExactStep ==
  ASSUME ExactInv, ExactCase, [Next]_vars, NEW q \in Requests
  PROVE  /\ pc'[q] = "new" => result'[q] = <<>>
         /\ ~Make(q) => /\ pc'[q] \in Running => Searched(q)'
                        /\ pc'[q] = "replied" /\ pc[q] # "replied" =>
                             KeptOf(result'[q], req[q].hotels,
                                    VacantUpTo(q, Len(req[q].hotels)))
<1>1. SerialStep /\ WholeInv /\ TypeInv /\ Typed
  BY DEF ExactInv, SerialStep, WholeInv, BoundInv, TypeInv
<1>2. CASE ~Make(q) /\ pc[q] \in Running
  BY <1>1, <1>2, SearchStep DEF ExactInv
<1>3. CASE ~Make(q) /\ Arrive(q)
  BY <1>1, <1>3, SearchStarts DEF ExactInv, Arrive
<1>4. CASE ~Arrive(q) /\ pc[q] \notin Running
  <2>1. ~Handle(q)
    BY <1>1, <1>4, CapEffect
    DEF Handle, GetCount, FindForBooking, FindForCheck, FillCount, Publish, Insert,
        InsertNight, Running
  <2>2. result'[q] = result[q] /\ pc'[q] = pc[q]
    BY <1>1, <1>4, <2>1, OwnSteps
  <2> QED
    BY <1>4, <2>2 DEF ExactInv
<1>5. CASE Make(q) /\ (Arrive(q) \/ pc[q] \in Running)
  <2>1. pc'[q] # "new"
    <3>1. CASE Arrive(q)
      BY <1>1, <3>1 DEF Arrive, Reply, Goto, Typed
    <3>2. CASE pc[q] \in Running
      <4>1. CASE GetCap(q) \/ FindCap(q) \/ FillCap(q)
        BY <1>1, <4>1, CapEffect, JudgeEffect
      <4>2. CASE Handle(q) /\ ~(GetCap(q) \/ FindCap(q) \/ FillCap(q))
        BY <1>1, <3>2, <4>2
        DEF Handle, GetCount, FindForBooking, FindForCheck, FillCount, Publish, Insert,
            InsertNight, Goto, Reply, Typed
      <4>3. CASE ~Handle(q)
        BY <1>1, <3>2, <4>3, OwnSteps DEF Arrive, Running
      <4> QED
        BY <4>1, <4>2, <4>3
    <3> QED
      BY <1>5, <3>1, <3>2
  <2> QED
    BY <1>5, <2>1
<1> QED
  BY <1>2, <1>3, <1>4, <1>5

\* When clients send one request at a time, a check is answered with exactly the
\* hotels of its list that have room in every night, in the order of the list,
\* although memcached drops entries and handlers are ended by a failed Get.
THEOREM ChecksAreExactWhenSerial == Spec => ExactAvailability
<1>1. Init => ExactInv
  BY InitSerialStep DEF Init, ExactInv, Running
<1>2. ASSUME ExactInv, [Next]_vars PROVE ExactInv'
  <2>1. SerialStep' /\ req' = req
    BY <1>2, NextSerialStep, ReqConstant DEF ExactInv
  <2>2. ASSUME ExactCase, NEW q \in Requests
        PROVE  /\ pc'[q] = "new" => result'[q] = <<>>
               /\ (~Make(q))' /\ pc'[q] \in Running => Searched(q)'
    BY <1>2, <2>1, <2>2, ExactStep, ReqFrame
  <2> QED
    BY <2>1, <2>2 DEF ExactInv, ExactCase
<1>3. ASSUME ExactInv, [Next]_vars, ExactCase, NEW r \in Requests, ~Make(r),
             pc[r] # "replied", pc'[r] = "replied"
      PROVE  KeptOf(result'[r], req[r].hotels,
                    {i \in DOMAIN req[r].hotels : Vacant(r, req[r].hotels[i])})
  <2>1. KeptOf(result'[r], req[r].hotels, VacantUpTo(r, Len(req[r].hotels)))
    BY <1>3, ExactStep
  <2>2. req[r].hotels \in Seq(Hotels)
    BY <1>3, CallFacts DEF ExactInv, SerialStep, WholeInv, BoundInv, TypeInv, Typed
  <2>3. DOMAIN req[r].hotels = 1..Len(req[r].hotels)
    BY <2>2
  <2> QED
    BY <2>1, <2>3 DEF VacantUpTo
<1> DEFINE Answers ==
      ExactCase => \A r \in Requests :
         ~Make(r) /\ pc[r] # "replied" /\ pc'[r] = "replied" =>
           KeptOf(result'[r], req[r].hotels,
                  {i \in DOMAIN req[r].hotels : Vacant(r, req[r].hotels[i])})
<1>4. ExactInv /\ [Next]_vars => [Answers]_vars
  BY <1>3
<1>5. ExactAvailability <=> [][Answers]_vars
  BY DEF ExactAvailability, ExactCase
<1> QED
  BY <1>1, <1>2, <1>4, <1>5, PTL DEF Spec

-----------------------------------------------------------------------------
(* The service implements BookingDesk *)

\* A reply names hotels that were asked about.
Named ==
  \A r \in Requests : result[r] \in Seq(Desk!Names(req[r].hotels))

\* A handler can only have failed to read the hotels it was asked about.
MisreadNamed ==
  \A r \in Requests :
    /\ misread[r] \subseteq Desk!Names(req[r].hotels)
    /\ Make(r) => misread[r] \subseteq {First(r)}
    /\ pc[r] = "new" => misread[r] = {}

DeskInv == RefusalInv /\ WholeInv /\ NoNegativeRooms /\ Named /\ MisreadNamed

LEMMA DeskStatusFacts ==
  /\ DeskStatus("new") = "new" /\ DeskStatus("replied") = "done"
  /\ DeskStatus("lost") = "lost"
  /\ \A p \in {"publish", "insert"} : DeskStatus(p) = "held"
  /\ \A p \in Looking : DeskStatus(p) = "open"
BY DEF DeskStatus, Looking, Counted

LEMMA DeskCallFacts ==
  ASSUME NEW r \in Requests
  PROVE  /\ Desk!Booking(r) <=> Make(r)
         /\ DeskCalls[r].nights = Stay(r) /\ DeskCalls[r].rooms = Rooms(r)
         /\ DeskCalls[r].hotels = req[r].hotels
BY DEF Desk!Booking, DeskCalls, DeskCall, Make, Stay, In, Out, Rooms

\* Without a new promise the claims stay.
LEMMA ClaimsFrame ==
  ASSUME req' = req, promised' = promised
  PROVE  DeskClaims' = DeskClaims /\ DeskCalls' = DeskCalls
<1>1. \A h, n : ClaimsOf(h, n)' = ClaimsOf(h, n)
  BY ReqFrame DEF ClaimsOf
<1>2. \A h, n : Claimed(h, n)' = Claimed(h, n)
  <2> TAKE h, n
  <2>1. PICK T : T = ClaimsOf(h, n)
    OBVIOUS
  <2> QED
    BY <1>1, <2>1, ReqFrame DEF Claimed
<1> QED
  BY <1>2 DEF DeskClaims, DeskCalls

\* The hotels missing in the reply of r because their rooms could not be read.
UnreadBy(r) ==
  IF pc[r] = "replied" THEN misread[r] \ Desk!Names(result[r]) ELSE {}

LEMMA DeskUnreadOf ==
  ASSUME NEW r \in Requests
  PROVE  DeskUnread[r] = UnreadBy(r)
BY DEF DeskUnread, UnreadBy, Desk!Names

\* A step of one handler, as the desk sees it.
LEMMA DeskStep ==
  ASSUME TypeInv, NEW r \in Requests, Arrive(r) \/ Handle(r)
  PROVE  /\ DeskState' = [DeskState EXCEPT ![r] = DeskStatus(pc'[r])]
         /\ DeskAnswers' = [DeskAnswers EXCEPT
                              ![r] = IF pc'[r] = "replied" THEN result'[r] ELSE <<>>]
         /\ DeskUnread' = [DeskUnread EXCEPT ![r] = UnreadBy(r)']
<1>1. \A q \in Requests \ {r} : pc'[q] = pc[q] /\ result'[q] = result[q]
  BY OthersKept
<1>2. \A q \in Requests \ {r} : misread'[q] = misread[q]
  <2>1. Typed
    BY DEF TypeInv
  <2>2. \/ misread' = misread
        \/ misread' = [misread EXCEPT ![r] = @ \cup ({Hotel(r)} \cap SeededHotels)]
    BY <2>1, HandleMisread
  <2> QED
    BY <2>1, <2>2 DEF Typed
<1>3. \A q \in Requests \ {r} : UnreadBy(q)' = UnreadBy(q)
  BY <1>1, <1>2 DEF UnreadBy
<1>4. DeskUnread' = [q \in Requests |-> UnreadBy(q)']
  BY DEF DeskUnread, UnreadBy, Desk!Names
<1>5. DeskUnread = [q \in Requests |-> UnreadBy(q)]
  BY DEF DeskUnread, UnreadBy, Desk!Names
<1> QED
  BY <1>1, <1>3, <1>4, <1>5 DEF DeskState, DeskAnswers

\* A step that the desk does not see.
LEMMA DeskUnseen ==
  ASSUME TypeInv, NEW r \in Requests, Handle(r), req' = req, promised' = promised,
         DeskStatus(pc'[r]) = DeskStatus(pc[r]), pc[r] # "replied", pc'[r] # "replied"
  PROVE  UNCHANGED Desk!deskVars
<1>1. DeskState' = DeskState
  BY DeskStep DEF DeskState
<1>2. DeskAnswers' = DeskAnswers
  BY DeskStep DEF DeskAnswers
<1>3. DeskUnread' = DeskUnread
  BY DeskStep, DeskUnreadOf DEF DeskUnread, UnreadBy
<1> QED
  BY <1>1, <1>2, <1>3, ClaimsFrame DEF Desk!deskVars

LEMMA InitDesk == Init => Desk!Init
<1> SUFFICES ASSUME Init PROVE Desk!Init
  OBVIOUS
<1>1. DeskCalls \in [Requests -> {DeskCall(c) : c \in Calls}]
  BY DEF Init, DeskCalls
<1>2. DeskState = [r \in Requests |-> "new"]
  BY DeskStatusFacts DEF Init, DeskState
<1>3. DeskAnswers = [r \in Requests |-> <<>>]
  BY DEF Init, DeskAnswers
<1>4. DeskClaims = [k \in Keys |-> IF k = <<SeedHotel, SeedNight>> THEN 1 ELSE 0]
  <2> SUFFICES ASSUME NEW k \in Keys
               PROVE  Claimed(k[1], k[2]) = IF k = <<SeedHotel, SeedNight>> THEN 1 ELSE 0
    BY DEF DeskClaims
  <2>1. k = <<k[1], k[2]>>
    BY DEF Keys
  <2>2. ClaimsOf(k[1], k[2]) = IF k = <<SeedHotel, SeedNight>> THEN {Seed} ELSE {}
    BY <2>1 DEF Init, ClaimsOf
  <2>3. Total({} \cup {Seed}) = Total({}) + Number(Seed)
    BY InitTypeInv, TotalAdd DEF TypeInv, Typed, Row
  <2>4. PICK T : T = {} \cup {Seed}
    OBVIOUS
  <2>5. T = {Seed} /\ Total(T) = 1
    BY <2>3, <2>4, TotalEmpty DEF Number
  <2>6. CASE k = <<SeedHotel, SeedNight>>
    BY <2>2, <2>5, <2>6 DEF Claimed
  <2>7. CASE k # <<SeedHotel, SeedNight>>
    BY <2>2, <2>7, TotalEmpty DEF Claimed
  <2> QED
    BY <2>6, <2>7
<1>5. DeskUnread = [r \in Requests |-> {}]
  BY DEF Init, DeskUnread
<1> QED
  BY <1>1, <1>2, <1>3, <1>4, <1>5 DEF Desk!Init

LEMMA ArriveDesk ==
  ASSUME DeskInv, NEW r \in Requests, Arrive(r)
  PROVE  [Desk!Next]_(Desk!deskVars)
<1>1. /\ TypeInv /\ Typed /\ pc[r] = "new" /\ req' = req
      /\ hi[r] = 1 /\ Hotel(r) = First(r)
      /\ misread[r] = {} /\ misread' = misread
  BY DEF DeskInv, RefusalInv, BoundInv, TypeInv, Typed, Control, Arrive, Hotel, First,
         MisreadNamed
<1>2. /\ DeskState[r] = "new" /\ DeskAnswers[r] = <<>>
      /\ DeskState' = [DeskState EXCEPT ![r] = DeskStatus(pc'[r])]
      /\ DeskAnswers' = [DeskAnswers EXCEPT
                              ![r] = IF pc'[r] = "replied" THEN result'[r] ELSE <<>>]
  BY <1>1, DeskStep, DeskStatusFacts DEF DeskState, DeskAnswers
<1>0. DeskUnread' = DeskUnread
  <2>1. UnreadBy(r)' = {} /\ UnreadBy(r) = {}
    BY <1>1 DEF UnreadBy
  <2> QED
    BY <1>1, <2>1, DeskStep, DeskUnreadOf DEF DeskUnread
<1>3. CASE Goto(r, "getCount") /\ promised' = promised
  <2>1. pc'[r] = "getCount"
    BY <1>1, <1>3 DEF Goto, Typed
  <2>2. DeskState' = [DeskState EXCEPT ![r] = "open"]
    BY <1>2, <2>1, DeskStatusFacts DEF Looking
  <2>3. DeskAnswers' = DeskAnswers
    BY <1>2, <2>1 DEF DeskAnswers
  <2>4. Desk!Open(r)
    BY <1>0, <1>1, <1>2, <1>3, <2>2, <2>3, ClaimsFrame DEF Desk!Open, Desk!Move
  <2> QED
    BY <2>4 DEF Desk!Next
<1>4. CASE /\ Stay(r) = {} \/ req[r].hotels = <<>>
           /\ Reply(r, IF Make(r) THEN <<Hotel(r)>> ELSE <<>>)
           /\ promised' = IF Make(r) THEN promised \cup {r} ELSE promised
  <2>1. pc'[r] = "replied" /\ result'[r] = IF Make(r) THEN <<First(r)>> ELSE <<>>
    BY <1>1, <1>4 DEF Reply, Goto, Typed
  <2>2. Make(r) => Stay(r) = {}
    BY <1>1, <1>4, CallFacts DEF Typed
  <2>3. DeskClaims' = DeskClaims /\ DeskCalls' = DeskCalls
    <3>1. CASE Make(r)
      <4>1. \A h, n : ClaimsOf(h, n)' = ClaimsOf(h, n)
        BY <1>1, <1>4, <2>2, <3>1, ReqFrame DEF ClaimsOf
      <4>2. \A h, n : Claimed(h, n)' = Claimed(h, n)
        <5> TAKE h, n
        <5>1. PICK T : T = ClaimsOf(h, n)
          OBVIOUS
        <5> QED
          BY <1>1, <4>1, <5>1, ReqFrame DEF Claimed
      <4> QED
        BY <1>1, <4>2 DEF DeskClaims, DeskCalls
    <3>2. CASE ~Make(r)
      BY <1>1, <1>4, <3>2, ClaimsFrame
    <3> QED
      BY <3>1, <3>2
  <2>4. Desk!Move(r, "new", "done")
    BY <1>2, <2>1, DeskStatusFacts DEF Desk!Move
  <2>5. DeskAnswers' = [DeskAnswers EXCEPT ![r] =
                          IF Desk!Booking(r) THEN <<DeskCalls[r].hotels[1]>> ELSE <<>>]
    BY <1>2, <2>1, DeskCallFacts DEF First
  <2>6. Desk!Trivial(r)
    BY <1>0, <1>4, <2>3, <2>4, <2>5, DeskCallFacts DEF Desk!Trivial
  <2> QED
    BY <2>6 DEF Desk!Next
<1> QED
  BY <1>3, <1>4 DEF Arrive

LEMMA InsertDesk ==
  ASSUME DeskInv, NEW r \in Requests, Insert(r)
  PROVE  [Desk!Next]_(Desk!deskVars)
<1>1. /\ TypeInv /\ Typed /\ pc[r] = "insert" /\ req' = req /\ promised' = promised
      /\ Handle(r) /\ Hotel(r) = First(r)
  BY DEF DeskInv, RefusalInv, BoundInv, TypeInv, Typed, Control, Insert, InsertNight,
         Handle, Hotel, First
<1>2. CASE pc' = pc
  BY <1>1, <1>2, DeskUnseen
<1>3. CASE Reply(r, <<Hotel(r)>>)
  <2>1. pc'[r] = "replied" /\ result'[r] = <<First(r)>>
    BY <1>1, <1>3 DEF Reply, Goto, Typed
  <2>2. DeskState[r] = "held" /\ DeskState' = [DeskState EXCEPT ![r] = "done"]
    BY <1>1, <2>1, DeskStep, DeskStatusFacts DEF DeskState
  <2>3. DeskAnswers' = [DeskAnswers EXCEPT ![r] = <<DeskCalls[r].hotels[1]>>]
    BY <1>1, <2>1, DeskStep, DeskCallFacts DEF First
  <2>4. DeskUnread' = DeskUnread
    <3>1. Make(r) /\ misread' = misread
      BY <1>1 DEF TypeInv, Control, Insert, InsertNight
    <3>2. misread'[r] \subseteq {First(r)}
      BY <3>1 DEF DeskInv, MisreadNamed
    <3>3. UnreadBy(r)' = {}
      BY <2>1, <3>2 DEF UnreadBy, Desk!Names
    <3>4. UnreadBy(r) = {}
      BY <1>1 DEF UnreadBy
    <3> QED
      BY <1>1, <3>3, <3>4, DeskStep, DeskUnreadOf DEF DeskUnread
  <2>5. Desk!Confirm(r)
    BY <1>1, <2>2, <2>3, <2>4, ClaimsFrame DEF Desk!Confirm, Desk!Move
  <2> QED
    BY <2>5 DEF Desk!Next
<1> QED
  BY <1>2, <1>3 DEF Insert, InsertNight

\* An error ends every handler.
LEMMA FailDesk ==
  ASSUME DeskInv, NEW r \in Requests, Fail(r)
  PROVE  [Desk!Next]_(Desk!deskVars)
<1>1. /\ Typed /\ UNCHANGED <<req, result, promised, misread>>
      /\ pc' = [q \in Requests |-> IF pc[q] \in Running THEN "lost" ELSE pc[q]]
  BY DEF DeskInv, RefusalInv, BoundInv, TypeInv, Fail, Crash, InsertFails, Die
<1>2. \A q \in Requests :
        pc[q] \in Running <=> DeskStatus(pc[q]) \in {"open", "held"}
  BY <1>1, DeskStatusFacts DEF Typed, Phases, Running, Looking, Counted
<1>3. DeskState' = [q \in Requests |->
                      IF DeskState[q] \in {"open", "held"} THEN "lost" ELSE DeskState[q]]
  BY <1>1, <1>2, DeskStatusFacts DEF DeskState
<1>4. DeskAnswers' = DeskAnswers
  BY <1>1 DEF DeskAnswers, Running
<1>5. DeskUnread' = DeskUnread
  BY <1>1 DEF DeskUnread, Running
<1>6. Desk!Lose
  BY <1>1, <1>3, <1>4, <1>5, ClaimsFrame DEF Desk!Lose
<1> QED
  BY <1>6 DEF Desk!Next

\* Why a hotel is not in the reply.
LEMMA RefusalReason ==
  ASSUME RefusalInv', NoNegativeRooms', TypeInv, req' = req,
         promised' = promised, NEW r \in Requests, pc'[r] = "replied", Stay(r) # {},
         NEW i \in DOMAIN req[r].hotels, Make(r) => i = 1,
         NEW h, h = req[r].hotels[i],
         \A j \in DOMAIN result'[r] : result'[r][j] # h
  PROVE  Desk!NoRoom(r, h) \/ h \in misread'[r]
<1>1. \A g : Full(r, g)' <=> Full(r, g)
  <2>1. \A g, n : Claimed(g, n)' = Claimed(g, n)
    <3>1. \A g, n : ClaimsOf(g, n)' = ClaimsOf(g, n)
      BY ReqFrame DEF ClaimsOf
    <3> TAKE g, n
    <3>2. PICK T : T = ClaimsOf(g, n)
      OBVIOUS
    <3> QED
      BY <3>1, <3>2, ReqFrame DEF Claimed
  <2> QED
    BY <2>1, ReqFrame DEF Full, RoomsOf
<1>2. Stay(r)' # {} /\ (Make(r)' => i = 1)
  BY ReqFrame
<1>3. Settled(r, i)'
  BY <1>2 DEF RefusalInv, AllSettled
<1>4. Full(r, h)' \/ h \in misread'[r]
  BY <1>3 DEF Settled
<1> SUFFICES ASSUME Full(r, h)' PROVE Desk!NoRoom(r, h)
  BY <1>4
<1>5. PICK n \in Stay(r) : Claimed(h, n) + Rooms(r) > RoomsOf(h)
  BY <1>1 DEF Full
<1>6. req[r].hotels \in Seq(Hotels) /\ Stay(r) \subseteq Nights
  BY CallFacts, ConstantsAssumption DEF TypeInv, Typed
<1>7. h \in Hotels /\ <<h, n>> \in Keys
  BY <1>6 DEF Keys
<1>8. DeskClaims[<<h, n>>] = Claimed(h, n)
  BY <1>7 DEF DeskClaims
<1> QED
  BY <1>5, <1>7, <1>8, DeskCallFacts DEF Desk!NoRoom

\* The judgement: another night or hotel, a refusal, a claim, or an answer.
LEMMA JudgeDesk ==
  ASSUME DeskInv, DeskInv', NEW r \in Requests,
         GetCap(r) \/ FindCap(r) \/ FillCap(r), NEW c \in Nat, Judge(r, c)
  PROVE  [Desk!Next]_(Desk!deskVars)
<1>1. /\ TypeInv /\ Typed /\ pc[r] \in Counted /\ req' = req /\ Handle(r)
      /\ pc[r] \in {"getCap", "findCap", "fillCap"} /\ pc[r] \in Running
      /\ RefusalInv' /\ NoNegativeRooms'
  BY CapEffect DEF DeskInv, RefusalInv, BoundInv, TypeInv, Counted, Handle, Running
<1>2. /\ DeskState[r] = "open" /\ DeskAnswers[r] = <<>>
      /\ DeskState' = [DeskState EXCEPT ![r] = DeskStatus(pc'[r])]
      /\ DeskAnswers' = [DeskAnswers EXCEPT
                              ![r] = IF pc'[r] = "replied" THEN result'[r] ELSE <<>>]
  BY <1>1, DeskStep, DeskStatusFacts DEF DeskState, DeskAnswers, Looking, Counted
<1>0. /\ DeskUnread' = [DeskUnread EXCEPT ![r] = UnreadBy(r)']
      /\ DeskUnread[r] = {} /\ DeskUnread'[r] = UnreadBy(r)'
      /\ pc'[r] # "replied" => DeskUnread' = DeskUnread
      /\ pc'[r] = "replied" => UnreadBy(r)' = misread'[r] \ Desk!Names(result'[r])
      /\ misread'[r] \subseteq Desk!Names(DeskCalls[r].hotels)
  <2>1. DeskUnread' = [DeskUnread EXCEPT ![r] = UnreadBy(r)'] /\ DeskUnread[r] = {}
    BY <1>1, DeskStep, DeskUnreadOf DEF UnreadBy
  <2>2. DeskUnread'[r] = UnreadBy(r)' /\ (pc'[r] # "replied" => DeskUnread' = DeskUnread)
    BY <2>1 DEF DeskUnread, UnreadBy
  <2>3. pc'[r] = "replied" => UnreadBy(r)' = misread'[r] \ Desk!Names(result'[r])
    BY DEF UnreadBy, Desk!Names
  <2>4. misread'[r] \subseteq Desk!Names(DeskCalls[r].hotels)
    <3>1. misread'[r] \subseteq Desk!Names(req'[r].hotels)
      BY DEF DeskInv, MisreadNamed, Desk!Names
    <3> QED
      BY <1>1, <3>1, DeskCallFacts
  <2> QED
    BY <2>1, <2>2, <2>3, <2>4
<1>3. /\ Stay(r) # {} /\ (Make(r) => hi[r] = 1) /\ hi[r] \in DOMAIN req[r].hotels
      /\ req[r].hotels \in Seq(Hotels)
  BY <1>1, CallFacts DEF TypeInv, Typed, Control
<1>4. CASE promised' = promised /\ pc'[r] = "getCount"
  BY <1>1, <1>4, DeskUnseen, DeskStatusFacts DEF Looking, Counted
<1>5. CASE Make(r) /\ Reply(r, <<>>) /\ promised' = promised
  <2>1. pc'[r] = "replied" /\ result'[r] = <<>>
    BY <1>1, <1>5 DEF Reply, Goto, Typed
  <2>2. DeskState' = [DeskState EXCEPT ![r] = "done"] /\ DeskAnswers' = DeskAnswers
    BY <1>2, <2>1, DeskStatusFacts DEF DeskAnswers
  <2>3. PICK h : h = req[r].hotels[1]
    OBVIOUS
  <2>4. 1 \in DOMAIN req[r].hotels
    BY <1>3, <1>5
  <2>5. \A j \in DOMAIN result'[r] : result'[r][j] # h
    BY <2>1
  <2>6. Desk!NoRoom(r, h) \/ h \in DeskUnread'[r]
    <3>1. Desk!NoRoom(r, h) \/ h \in misread'[r]
      BY <1>1, <1>3, <1>5, <2>1, <2>3, <2>4, <2>5, RefusalReason
    <3>2. Desk!Names(result'[r]) = {}
      BY <2>1 DEF Desk!Names
    <3> QED
      BY <1>0, <2>1, <3>1, <3>2
  <2>7. Desk!Misses(r, DeskUnread'[r]) /\ DeskUnread'[r] \in SUBSET Desk!Names(DeskCalls[r].hotels)
    BY <1>0, <2>1 DEF Desk!Misses
  <2>8. Desk!Refuse(r, DeskUnread'[r])
    BY <1>2, <1>5, <2>2, <2>3, <2>6, <2>7, ClaimsFrame, <1>1, DeskCallFacts
    DEF Desk!Refuse, Desk!Move
  <2> QED
    BY <2>7, <2>8 DEF Desk!Next
<1>6. CASE Make(r) /\ Promise(r)
  <2>1. pc'[r] \in {"publish", "insert"} /\ promised' = promised \cup {r}
    BY <1>1, <1>6 DEF Promise, Goto, Typed
  <2>2. r \notin promised
    BY <1>1 DEF TypeInv, Control
  <2>3. DeskState' = [DeskState EXCEPT ![r] = "held"] /\ DeskAnswers' = DeskAnswers
    BY <1>2, <2>1, DeskStatusFacts DEF DeskAnswers
  <2>4. \A k \in Keys :
          Claimed(k[1], k[2])' = IF k[1] = First(r) /\ k[2] \in Stay(r)
                                   THEN Claimed(k[1], k[2]) + Rooms(r)
                                   ELSE Claimed(k[1], k[2])
    BY <1>1, <2>1, <2>2, ClaimAdds
  <2>5. DeskClaims' = [k \in Keys |->
                         IF k[1] = DeskCalls[r].hotels[1] /\ k[2] \in DeskCalls[r].nights
                           THEN DeskClaims[k] + DeskCalls[r].rooms
                           ELSE DeskClaims[k]]
    BY <2>4, DeskCallFacts DEF DeskClaims, First
  <2>6. Desk!Claim(r)
    BY <1>0, <1>1, <1>2, <1>6, <2>1, <2>3, <2>5, DeskCallFacts
    DEF Desk!Claim, Desk!Move, Keys, DeskCalls
  <2> QED
    BY <2>6 DEF Desk!Next
<1>7. CASE ~Make(r) /\ promised' = promised /\ pc'[r] = "replied"
  <2>1. DeskState' = [DeskState EXCEPT ![r] = "done"]
    BY <1>2, <1>7, DeskStatusFacts
  <2>2. DeskAnswers' = [DeskAnswers EXCEPT ![r] = result'[r]]
    BY <1>2, <1>7
  <2>3. DeskAnswers'[r] = result'[r]
    BY <2>2 DEF DeskAnswers
  <2>4. result'[r] \in Seq(Desk!Names(DeskCalls[r].hotels))
    <3>1. result'[r] \in Seq(Desk!Names(req'[r].hotels))
      BY DEF DeskInv, Named, Desk!Names
    <3> QED
      BY <1>1, <3>1, DeskCallFacts
  <2>5. \A h \in Desk!Names(DeskCalls[r].hotels) \ Desk!Names(result'[r]) :
          Desk!NoRoom(r, h) \/ h \in DeskUnread'[r]
    <3> TAKE h \in Desk!Names(DeskCalls[r].hotels) \ Desk!Names(result'[r])
    <3>1. PICK i \in DOMAIN req[r].hotels : h = req[r].hotels[i]
      BY DeskCallFacts DEF Desk!Names
    <3>2. \A j \in DOMAIN result'[r] : result'[r][j] # h
      BY DEF Desk!Names
    <3>3. Desk!NoRoom(r, h) \/ h \in misread'[r]
      BY <1>1, <1>3, <1>7, <3>1, <3>2, RefusalReason
    <3> QED
      BY <1>0, <1>7, <3>3
  <2>6. Desk!Misses(r, DeskUnread'[r]) /\ DeskUnread'[r] \in SUBSET Desk!Names(DeskCalls[r].hotels)
    BY <1>0, <1>7 DEF Desk!Misses
  <2>7. Desk!Answer(r, DeskUnread'[r])
    BY <1>1, <1>2, <1>7, <2>1, <2>2, <2>3, <2>4, <2>5, <2>6, ClaimsFrame, DeskCallFacts
    DEF Desk!Answer, Desk!Move
  <2> QED
    BY <2>6, <2>7 DEF Desk!Next
<1> QED
  <2>1. CASE NextNight(r)
    BY <1>1, <1>4, <2>1 DEF NextNight, Goto, Typed
  <2>2. ASSUME NEW free \in BOOLEAN, ~Make(r), NextHotel(r, free)
        PROVE  [Desk!Next]_(Desk!deskVars)
    BY <1>1, <1>4, <1>7, <2>2 DEF NextHotel, Reply, Goto, Typed
  <2> QED
    BY <1>5, <1>6, <2>1, <2>2 DEF Judge, Decide

LEMMA NamedStep ==
  ASSUME TypeInv, Named, [Next]_vars
  PROVE  Named'
<1>1. req' = req /\ Typed
  BY ReqConstant DEF TypeInv
<1>2. ASSUME NEW q \in Requests
      PROVE  result'[q] \in Seq(Desk!Names(req[q].hotels))
  <2>1. /\ result[q] \in Seq(Desk!Names(req[q].hotels))
        /\ req[q].hotels \in Seq(Hotels) /\ <<>> \in Seq(Desk!Names(req[q].hotels))
    BY <1>1, CallFacts DEF Named, Typed
  <2>2. ASSUME pc[q] \in Running \/ (pc[q] = "new" /\ req[q].hotels # <<>>)
        PROVE  /\ <<Hotel(q)>> \in Seq(Desk!Names(req[q].hotels))
               /\ Append(result[q], Hotel(q)) \in Seq(Desk!Names(req[q].hotels))
    <3>1. hi[q] \in DOMAIN req[q].hotels
      BY <2>1, <2>2 DEF TypeInv, Control
    <3>2. Hotel(q) \in Desk!Names(req[q].hotels)
      BY <3>1 DEF Hotel, Desk!Names
    <3> QED
      BY <2>1, <3>2
  <2>3. CASE Arrive(q)
    <3>1. pc[q] = "new" /\ (Make(q) => req[q].hotels # <<>>)
      BY <1>1, <2>3, CallFacts DEF Arrive, Typed
    <3>2. result'[q] \in {result[q], <<>>} \/ (Make(q) /\ result'[q] = <<Hotel(q)>>)
      BY <1>1, <2>3 DEF Arrive, Reply, Typed
    <3> QED
      BY <2>1, <2>2, <3>1, <3>2
  <2>4. CASE GetCap(q) \/ FindCap(q) \/ FillCap(q)
    <3>1. pc[q] \in Running
      BY <2>4, CapEffect DEF Running
    <3>2. ASSUME NEW c \in Nat, Judge(q, c)
          PROVE  result'[q] \in {result[q], <<>>, Append(result[q], Hotel(q))}
      BY <1>1, <3>2 DEF Judge, Decide, NextNight, NextHotel, Promise, Reply, Typed
    <3>3. result'[q] \in {result[q], <<>>, Append(result[q], Hotel(q))}
      BY <2>4, <3>2, CapEffect
    <3> QED
      BY <2>1, <2>2, <3>1, <3>3
  <2>5. CASE \/ GetCount(q) \/ FindForBooking(q) \/ FindForCheck(q) \/ FillCount(q)
             \/ Publish(q) \/ result'[q] = result[q]
    BY <2>1, <2>5 DEF GetCount, FindForBooking, FindForCheck, FillCount, Publish, locals
  <2>6. CASE Insert(q)
    <3>1. pc[q] \in Running /\ result'[q] \in {result[q], <<Hotel(q)>>}
      BY <1>1, <2>6 DEF Insert, InsertNight, Reply, Running, Typed
    <3> QED
      BY <2>1, <2>2, <3>1
  <2> QED
    BY <2>3, <2>4, <2>5, <2>6, OwnSteps DEF Handle
<1> QED
  BY <1>1, <1>2 DEF Named, Desk!Names

LEMMA MisreadNamedStep ==
  ASSUME TypeInv, MisreadNamed, [Next]_vars
  PROVE  MisreadNamed'
<1>1. req' = req /\ Typed
  BY ReqConstant DEF TypeInv
<1>2. \A q : Make(q)' = Make(q) /\ First(q)' = First(q)
  BY <1>1, ReqFrame
<1>3. \A q \in Requests : pc'[q] = "new" => pc[q] = "new"
  <2>1. ASSUME NEW q \in Requests, NEW r \in Requests, r # q, Arrive(r) \/ Handle(r)
        PROVE  pc'[q] = pc[q]
    BY <2>1, OthersKept
  <2>2. ASSUME NEW q \in Requests, Arrive(q) \/ Handle(q)
        PROVE  pc'[q] # "new"
    <3>1. CASE GetCap(q) \/ FindCap(q) \/ FillCap(q)
      <4>1. /\ pc[q] \in {"getCap", "findCap", "fillCap"}
            /\ pc'[q] \in {"findCap", "fillCap"} \/ \E c \in Nat : Judge(q, c)
        BY <3>1, CapEffect
      <4> QED
        BY <4>1, JudgeEffect
    <3>2. CASE Insert(q)
      BY <1>1, <3>2 DEF Insert, InsertNight, Reply, Goto, Typed
    <3> QED
      BY <1>1, <2>2, <3>1, <3>2
      DEF Arrive, Handle, GetCount, FindForBooking, FindForCheck, FillCount, Publish,
          Goto, Reply, Typed
  <2>3. ASSUME NEW q \in Requests, Die
        PROVE  pc'[q] \in {pc[q], "lost"}
    BY <2>3 DEF Die
  <2> QED
    BY <2>1, <2>2, <2>3
    DEF Next, vars, Boot, BootFails, Evict, Quiet, Fail, Crash, InsertFails
<1>4. ASSUME NEW q \in Requests
      PROVE  /\ misread'[q] \subseteq Desk!Names(req[q].hotels)
             /\ Make(q) => misread'[q] \subseteq {First(q)}
             /\ pc'[q] = "new" => misread'[q] = {}
  <2>1. \/ misread'[q] = misread[q]
        \/ pc[q] = "findCap" /\ misread'[q] \subseteq misread[q] \cup {Hotel(q)}
    <3>1. ASSUME NEW r \in Requests, Arrive(r) \/ Handle(r)
          PROVE  \/ misread'[q] = misread[q]
                 \/ pc[q] = "findCap" /\ misread'[q] \subseteq misread[q] \cup {Hotel(q)}
      <4>1. \/ misread' = misread
            \/ /\ pc[r] = "findCap"
               /\ misread' = [misread EXCEPT ![r] = @ \cup ({Hotel(r)} \cap SeededHotels)]
        BY <1>1, <3>1, HandleMisread
      <4> QED
        BY <1>1, <4>1 DEF Typed
    <3> QED
      BY <3>1 DEF Next, vars, Boot, BootFails, Evict, Quiet, Fail, Crash, InsertFails, Die
  <2>2. CASE misread'[q] = misread[q]
    BY <1>3, <2>2 DEF MisreadNamed, Desk!Names
  <2>3. CASE pc[q] = "findCap" /\ misread'[q] \subseteq misread[q] \cup {Hotel(q)}
    <3>1. /\ hi[q] \in 1..Len(req[q].hotels) /\ req[q].hotels \in Seq(Hotels)
          /\ Make(q) => hi[q] = 1
      BY <1>1, <2>3, CallFacts DEF TypeInv, Control, Running, Typed
    <3>2. /\ Hotel(q) \in Desk!Names(req[q].hotels)
          /\ Make(q) => Hotel(q) = First(q)
      BY <3>1 DEF Hotel, First, Desk!Names
    <3>3. pc'[q] # "new"
      BY <1>3, <2>3
    <3>4. /\ misread[q] \subseteq Desk!Names(req[q].hotels)
          /\ Make(q) => misread[q] \subseteq {First(q)}
      BY DEF MisreadNamed
    <3> QED
      BY <2>3, <3>2, <3>3, <3>4
  <2> QED
    BY <2>1, <2>2, <2>3
<1> QED
  BY <1>1, <1>2, <1>4 DEF MisreadNamed, Desk!Names

LEMMA NextDeskInv ==
  ASSUME DeskInv, [Next]_vars
  PROVE  DeskInv'
<1>1. RefusalInv'
  BY NextBoundInv, CapsRightStep, AllSettledStep DEF DeskInv, RefusalInv, BoundInv
<1>2. WholeInv' /\ Named' /\ MisreadNamed' /\ req' = req
  BY NextWholeInv, NamedStep, MisreadNamedStep, ReqConstant
  DEF DeskInv, WholeInv, BoundInv
<1>3. NoNegativeRooms'
  BY <1>2, ReqFrame DEF DeskInv, NoNegativeRooms
<1> QED
  BY <1>1, <1>2, <1>3 DEF DeskInv

\* Every step of the service is a step of the desk, or one it does not see.
LEMMA NextDesk ==
  ASSUME DeskInv, DeskInv', [Next]_vars
  PROVE  [Desk!Next]_(Desk!deskVars)
<1>1. TypeInv /\ Typed
  BY DEF DeskInv, RefusalInv, BoundInv, TypeInv
<1>2. CASE Boot \/ BootFails \/ Evict \/ Quiet \/ UNCHANGED vars
  <2>1. UNCHANGED <<req, pc, result, promised, misread>>
    BY <1>2 DEF Boot, BootFails, Evict, Quiet, vars, locals
  <2> QED
    BY <2>1, ClaimsFrame DEF DeskState, DeskAnswers, DeskUnread, Desk!deskVars
<1>3. ASSUME NEW r \in Requests, Arrive(r) PROVE [Desk!Next]_(Desk!deskVars)
  BY <1>3, ArriveDesk
<1>4. ASSUME NEW r \in Requests, Fail(r) PROVE [Desk!Next]_(Desk!deskVars)
  BY <1>4, FailDesk
<1>5. ASSUME NEW r \in Requests, Handle(r) PROVE [Desk!Next]_(Desk!deskVars)
  <2>1. CASE \/ GetCount(r) \/ FindForBooking(r) \/ FindForCheck(r) \/ FillCount(r)
             \/ Publish(r)
    <3>1. \/ pc[r] \in Looking /\ pc'[r] \in Looking
          \/ pc[r] = "publish" /\ pc'[r] \in {"publish", "insert"}
      BY <1>1, <2>1 DEF GetCount, FindForBooking, FindForCheck, FillCount, Publish, Goto,
         Typed, Looking, Counted
    <3>2. UNCHANGED <<req, promised>>
      BY <2>1 DEF GetCount, FindForBooking, FindForCheck, FillCount, Publish
    <3>3. DeskStatus(pc'[r]) = DeskStatus(pc[r])
      BY <3>1, DeskStatusFacts
    <3>4. pc[r] # "replied" /\ pc'[r] # "replied"
      BY <3>1 DEF Looking, Counted
    <3> QED
      BY <1>1, <1>5, <3>2, <3>3, <3>4, DeskUnseen
  <2>2. CASE GetCap(r) \/ FindCap(r) \/ FillCap(r)
    <3>1. CASE pc'[r] \in {"findCap", "fillCap"} /\ promised' = promised
      <4>1. pc[r] \in Looking /\ pc'[r] \in Looking /\ req' = req
        BY <1>1, <2>2, <3>1, CapEffect DEF Looking, Counted
      <4>2. DeskStatus(pc'[r]) = DeskStatus(pc[r])
        BY <4>1, DeskStatusFacts
      <4> QED
        BY <1>1, <1>5, <3>1, <4>1, <4>2, DeskUnseen DEF Looking, Counted
    <3> QED
      BY <1>1, <2>2, <3>1, CapEffect, JudgeDesk
  <2>3. CASE Insert(r)
    BY <2>3, InsertDesk
  <2> QED
    BY <1>5, <2>1, <2>2, <2>3 DEF Handle
<1> QED
  BY <1>2, <1>3, <1>4, <1>5 DEF Next

\* The service implements BookingDesk: it answers each request once, never turns
\* a client away while the claims leave room unless it could not read the hotel's
\* capacity for this very client, claims every night of a booking at once, and
\* forgets only what a crash catches under way; through every interleaving, crash,
\* failed call and loss, as long as nobody books a negative number of rooms.
THEOREM ServiceKeepsPromises == Spec /\ NoNegativeRooms => KeepsPromises
<1>1. Init /\ NoNegativeRooms => DeskInv
  <2> SUFFICES ASSUME Init, NoNegativeRooms PROVE DeskInv
    OBVIOUS
  <2>1. Named /\ MisreadNamed
    BY DEF Init, Named, MisreadNamed
  <2> QED
    BY <2>1, InitRefusalInv, InitWholeInv DEF DeskInv
<1>2. DeskInv /\ [Next]_vars => DeskInv'
  BY NextDeskInv
<1>3. DeskInv /\ DeskInv' /\ [Next]_vars => [Desk!Next]_(Desk!deskVars)
  BY NextDesk
<1>4. Init => Desk!Init
  BY InitDesk
<1> QED
  BY <1>1, <1>2, <1>3, <1>4, PTL DEF Spec, KeepsPromises, Desk!Spec

=============================================================================
