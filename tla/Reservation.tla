---------------------------- MODULE Reservation ----------------------------
(***************************************************************************)
(* The reservation service: the gRPC handlers MakeReservation and          *)
(* CheckAvailability, the MongoDB collections "reservation" and "number",  *)
(* the memcached entries they share, and the restarts of the process.      *)
(*                                                                         *)
(* Every call to MongoDB or to memcached is one action, so the handlers of *)
(* concurrent requests interleave between any two of them, as the          *)
(* goroutines that grpc-go starts for them do.                             *)
(***************************************************************************)
EXTENDS Integers, FiniteSets, Sequences

CONSTANTS
  Requests,      \* the requests clients send, each of them at most once
  Calls,         \* what a request may ask for, see Call
  Hotels,        \* hotel ids that occur in requests
  SeededHotels,  \* the hotels InitializeDatabase writes a number document for
  Capacity,      \* the number of rooms in that document
  LastDay,       \* the calendar: day 0, then a night that ends on 1..LastDay
  EmptyIsError,  \* may the driver's cursor.All fail with ErrNoDocuments?
  Serial,        \* TRUE: the clients send one request at a time
  Faults,        \* the faults of the environment, see FaultKinds
  Absent,        \* no memcached entry
  Seed,          \* the row InitializeDatabase inserts: one room ...
  SeedHotel,     \* ... of this hotel ...
  SeedNight      \* ... for this night

Nights == 1..LastDay
Keys == Hotels \X Nights

\* pb.Request.  A date is a natural number; one beyond the calendar stands for
\* a string that time.Parse rejects, such as 2015-02-30.
Call == [op: {"make", "check"}, hotels: Seq(Hotels), in: Nat, out: Nat, rooms: Int]

\* "evict"      memcached drops entries
\* "lostset"    a Set fails; both handlers ignore its error
\* "memcError"  a Get fails with something other than a miss
\* "mongoError" a MongoDB call fails, or the request's context is cancelled
\* "numberError" ... and it was to read or to fill the collection "number"
FaultKinds == {"evict", "lostset", "memcError", "mongoError", "numberError"}

ASSUME ConstantsAssumption ==
  /\ IsFiniteSet(Requests)
  /\ Calls \subseteq Call
  /\ \A c \in Calls : c.op = "make" => c.hotels # <<>>
  /\ SeededHotels \subseteq Hotels /\ SeedHotel \in SeededHotels
  /\ Capacity \in [Hotels -> Nat]
  /\ LastDay \in Nat
  /\ EmptyIsError \in BOOLEAN
  /\ Serial \in BOOLEAN
  /\ Faults \subseteq FaultKinds
  /\ Absent \notin Int
  /\ Seed \notin Requests
  /\ SeedNight \in Nights
  /\ Capacity[SeedHotel] >= 1

VARIABLES
  up,        \* the process runs and has initialised the database
  rows,      \* "reservation" documents of a hotel and night: who booked it
  numbers,   \* the hotels that have a "number" document
  cache,     \* memcached: rooms booked, per hotel and night
  capCache,  \* memcached: rooms of a hotel
  req,       \* the call each request makes; never changes
  pc,        \* what the handler of a request does next
  hi,        \* index in the request's list of hotels
  day,       \* inDate in the loops over the nights
  count,     \* rooms found booked for the night being checked
  cap,       \* capacity read from MongoDB, about to be cached
  memo,      \* memc_date_num_map
  result,    \* the hotels in the reply
  promised,  \* history: the bookings that passed the capacity check
  blind,     \* history: the bookings that missed the cache for some night
  misread    \* history: the seeded hotels for which a request found no capacity

server == <<up, rows, numbers, cache, capCache>>
locals == <<hi, day, count, cap, memo, result>>
vars == <<server, req, pc, locals, promised, blind, misread>>

-----------------------------------------------------------------------------
(* Reading a request *)

\* time.Parse: its error is dropped, which leaves the zero time.
Parse(d) == IF d \in Nights THEN d ELSE 0

In(r) == Parse(req[r].in)
Out(r) == Parse(req[r].out)
Stay(r) == (In(r) + 1)..Out(r)
Make(r) == req[r].op = "make"
Rooms(r) == req[r].rooms
Hotel(r) == req[r].hotels[hi[r]]  \* of a booking, whose hi stays 1: HotelId[0]
First(r) == req[r].hotels[1]
Key(r) == <<Hotel(r), day[r]>>

Number(x) == IF x = Seed THEN 1 ELSE Rooms(x)

\* The sum of Number over a set of rows (a client may ask for -1 rooms).
Units(S) == UNION {{x} \X (1..Number(x)) : x \in S}
Debts(S) == UNION {{x} \X (1..(-Number(x))) : x \in S}
Total(S) == Cardinality(Units(S)) - Cardinality(Debts(S))

Running == {"getCount", "find", "fill", "getCap", "findCap", "fillCap",
            "publish", "insert"}
Phases == Running \cup {"new", "replied", "lost"}

Goto(r, phase) == pc' = [pc EXCEPT ![r] = phase]

-----------------------------------------------------------------------------
(* The process *)

Init ==
  /\ up = FALSE
  /\ rows = [k \in Keys |-> {}]
  /\ numbers = {}
  /\ cache = [k \in Keys |-> Absent]
  /\ capCache = [h \in Hotels |-> Absent]
  /\ req \in [Requests -> Calls]
  /\ pc = [r \in Requests |-> "new"]
  /\ hi = [r \in Requests |-> 1]
  /\ day = [r \in Requests |-> 0]
  /\ count = [r \in Requests |-> 0]
  /\ cap = [r \in Requests |-> 0]
  /\ memo = [r \in Requests |-> {}]
  /\ result = [r \in Requests |-> <<>>]
  /\ promised = {}
  /\ blind = {}
  /\ misread = [r \in Requests |-> {}]

\* The rows after the one that InitializeDatabase adds for SeedHotel, unless
\* that hotel has some.
Seeded ==
  IF \A n \in Nights : rows[<<SeedHotel, n>>] = {}
    THEN [rows EXCEPT ![<<SeedHotel, SeedNight>>] = {Seed}]
    ELSE rows

\* InitializeDatabase, then Run.  A number document that cannot be inserted is
\* logged and left out.
Boot ==
  /\ ~up
  /\ up' = TRUE
  /\ rows' = Seeded
  /\ \E missing \in SUBSET (SeededHotels \ numbers) :
       /\ missing = {} \/ "numberError" \in Faults
       /\ numbers' = numbers \cup (SeededHotels \ missing)
  /\ UNCHANGED <<cache, capCache, req, pc, locals, promised, blind, misread>>

\* InitializeDatabase fails, and main ends the process.  Any of its writes may
\* have taken effect: a failed cursor.All skips the row, not the numbers.
BootFails ==
  /\ ~up
  /\ "mongoError" \in Faults
  /\ rows' \in {rows, Seeded}
  /\ \E written \in SUBSET SeededHotels : numbers' = numbers \cup written
  /\ UNCHANGED <<up, cache, capCache, req, pc, locals, promised, blind, misread>>

\* A panic or log.Fatalf in one handler ends every handler.
Die ==
  /\ up' = FALSE
  /\ pc' = [q \in Requests |-> IF pc[q] \in Running THEN "lost" ELSE pc[q]]
  /\ memo' = [q \in Requests |-> {}]
  /\ UNCHANGED <<numbers, cache, capCache, req, hi, day, count, cap, result,
                 promised, blind, misread>>

\* A failed memcached Get, and a failed Find, are not survived.
Crash(r) ==
  /\ \/ "memcError" \in Faults /\ pc[r] \in {"getCount", "getCap"}
     \/ "mongoError" \in Faults /\ pc[r] = "find"
  /\ Die
  /\ UNCHANGED rows

-----------------------------------------------------------------------------
(* Where the handlers go after a night *)

\* (mutant) Reply that leaves the hotels out.
ReplyNothing(r, hotels) ==
  /\ Goto(r, "replied")
  /\ result' = result
  /\ memo' = [memo EXCEPT ![r] = {}]

\* Both handlers return.
Reply(r, hotels) ==
  /\ Goto(r, "replied")
  /\ result' = [result EXCEPT ![r] = hotels]
  /\ memo' = [memo EXCEPT ![r] = {}]

\* (mutant) NextNight without the AddDate.
NextNightStays(r) ==
  /\ Goto(r, "getCount")
  /\ UNCHANGED <<hi, day, memo, result, promised>>

\* The first statements of the loop body: inDate = inDate.AddDate(0, 0, 1).
NextNight(r) ==
  /\ Goto(r, "getCount")
  /\ day' = [day EXCEPT ![r] = @ + 1]
  /\ UNCHANGED <<hi, memo, result, promised>>

\* CheckAvailability: the next hotel of the list, if there is one; the hotel
\* just left is in the reply when every night had room.
NextHotel(r, free) ==
  LET found == IF free THEN Append(result[r], Hotel(r)) ELSE result[r] IN
  /\ \/ /\ hi[r] < Len(req[r].hotels)
        /\ hi' = [hi EXCEPT ![r] = @ + 1]
        /\ day' = [day EXCEPT ![r] = In(r) + 1]
        /\ result' = [result EXCEPT ![r] = found]
        /\ Goto(r, "getCount")
        /\ UNCHANGED memo
     \/ /\ hi[r] = Len(req[r].hotels)
        /\ Reply(r, found)
        /\ UNCHANGED <<hi, day>>
  /\ UNCHANGED promised

\* MakeReservation has found room for every night: it goes on to update the
\* cache, and from there to insert the rows.
Promise(r) ==
  /\ promised' = promised \cup {r}
  /\ Goto(r, IF memo[r] = {} THEN "insert" ELSE "publish")
  /\ day' = [day EXCEPT ![r] = In(r) + 1]
  /\ UNCHANGED <<hi, memo, result>>

\* The next night, the reply, the booking, or the next hotel.
Decide(r, full) ==
  LET last == day[r] = Out(r) IN
  \/ ~full /\ ~last /\ NextNight(r)
  \/ Make(r) /\ full /\ Reply(r, <<>>) /\ UNCHANGED <<hi, day, promised>>
  \/ Make(r) /\ ~full /\ last /\ Promise(r)
  \/ ~Make(r) /\ (full \/ last) /\ NextHotel(r, ~full)

\* (mutants) Judge with >= for >, and without the rooms of the request.
JudgeStrict(r, c) == Decide(r, count[r] + Rooms(r) >= c)
JudgeLax(r, c) == Decide(r, count[r] > c)

\* "check capacity", when the capacity c of the hotel is known.
Judge(r, c) == Decide(r, count[r] + Rooms(r) > c)

-----------------------------------------------------------------------------
(* The handlers *)

\* A handler starts.  Without a night in the stay no loop runs: a booking
\* succeeds and an availability check finds no hotel.
Arrive(r) ==
  /\ up
  /\ pc[r] = "new"
  /\ Serial => \A q \in Requests : pc[q] \notin Running
  /\ day' = [day EXCEPT ![r] = In(r) + 1]
  /\ \/ /\ Stay(r) # {} /\ req[r].hotels # <<>>
        /\ Goto(r, "getCount")
        /\ UNCHANGED <<memo, result, promised>>
     \/ /\ Stay(r) = {} \/ req[r].hotels = <<>>
        /\ Reply(r, IF Make(r) THEN <<Hotel(r)>> ELSE <<>>)
        /\ promised' = IF Make(r) THEN promised \cup {r} ELSE promised
  /\ UNCHANGED <<server, req, hi, count, cap, blind, misread>>

\* (mutants) Note without the rooms of the booking, and with them twice.
NoteOld(r, n) ==
  [memo EXCEPT ![r] = @ \cup {[night |-> day[r], val |-> n]}]
NoteTwice(r, n) ==
  [memo EXCEPT ![r] = @ \cup {[night |-> day[r], val |-> n + 2 * Rooms(r)]}]

\* memc_date_num_map[memc_key] = count + RoomNumber
Note(r, n) ==
  [memo EXCEPT ![r] = @ \cup {[night |-> day[r], val |-> n + Rooms(r)]}]

\* "first check memc"
GetCount(r) ==
  LET n == cache[Key(r)] IN
  /\ pc[r] = "getCount"
  /\ \/ /\ n # Absent
        /\ Goto(r, "getCap")
        /\ count' = [count EXCEPT ![r] = n]
        /\ memo' = IF Make(r) THEN Note(r, n) ELSE memo
     \/ /\ n = Absent
        /\ Goto(r, "find")
        /\ count' = [count EXCEPT ![r] = 0]
        /\ UNCHANGED memo
  /\ UNCHANGED <<server, req, hi, day, cap, result, promised, blind, misread>>

\* A booking that missed the cache looks at the rows only when cursor.All
\* returns ErrNoDocuments, which then means that there are none; any other
\* result of cursor.All, the rows too, is ignored.
FindForBooking(r) ==
  /\ pc[r] = "find" /\ Make(r)
  /\ \/ EmptyIsError /\ rows[Key(r)] = {} /\ memo' = Note(r, 0)
     \/ UNCHANGED memo
  /\ blind' = blind \cup {r}
  /\ Goto(r, "getCap")
  /\ UNCHANGED <<server, req, hi, day, count, cap, result, promised, misread>>

\* A check ignores the error of cursor.All, which leaves the slice empty.
FindForCheck(r) ==
  /\ pc[r] = "find" /\ ~Make(r)
  /\ \/ /\ rows[Key(r)] # {}
        /\ count' = [count EXCEPT ![r] = Total(rows[Key(r)])]
        /\ Goto(r, "fill")
     \/ /\ rows[Key(r)] = {} \/ "mongoError" \in Faults
        /\ Goto(r, "getCap")
        /\ UNCHANGED count
  /\ UNCHANGED <<server, req, hi, day, cap, memo, result, promised, blind, misread>>

\* memcached Set: the error is ignored.
SetCount(key, n) ==
  \/ cache' = [cache EXCEPT ![key] = n]
  \/ "lostset" \in Faults /\ UNCHANGED cache

FillCount(r) ==
  /\ pc[r] = "fill"
  /\ SetCount(Key(r), count[r])
  /\ Goto(r, "getCap")
  /\ UNCHANGED <<up, rows, numbers, capCache, req, locals, promised, blind, misread>>

\* "check memc capacity"
GetCap(r) ==
  LET c == capCache[Hotel(r)] IN
  /\ pc[r] = "getCap"
  /\ \/ c # Absent /\ Judge(r, c)
     \/ /\ c = Absent
        /\ Goto(r, "findCap")
        /\ UNCHANGED <<hi, day, memo, result, promised>>
  /\ UNCHANGED <<server, req, count, cap, blind, misread>>

\* (mutant) The Set of the capacity also when FindOne has failed.
FindCapAnyway(r) ==
  /\ pc[r] = "findCap"
  /\ \/ /\ Hotel(r) \in numbers
        /\ cap' = [cap EXCEPT ![r] = Capacity[Hotel(r)]]
     \/ /\ Hotel(r) \notin numbers \/ "numberError" \in Faults
        /\ cap' = [cap EXCEPT ![r] = 0]
  /\ Goto(r, "fillCap")
  /\ UNCHANGED <<server, req, count, hi, day, memo, result, promised, blind, misread>>

\* FindOne: any error, also that there is no such document, leaves 0.
FindCap(r) ==
  /\ pc[r] = "findCap"
  /\ \/ /\ Hotel(r) \in numbers
        /\ cap' = [cap EXCEPT ![r] = Capacity[Hotel(r)]]
        /\ Goto(r, "fillCap")
        /\ UNCHANGED <<hi, day, memo, result, promised, misread>>
     \/ /\ Hotel(r) \notin numbers \/ "numberError" \in Faults
        /\ Judge(r, 0)
        /\ misread' = [misread EXCEPT ![r] = @ \cup ({Hotel(r)} \cap SeededHotels)]
        /\ UNCHANGED cap
  /\ UNCHANGED <<server, req, count, blind>>

FillCap(r) ==
  /\ pc[r] = "fillCap"
  /\ \/ capCache' = [capCache EXCEPT ![Hotel(r)] = cap[r]]
     \/ "lostset" \in Faults /\ UNCHANGED capCache
  /\ Judge(r, cap[r])
  /\ UNCHANGED <<up, rows, numbers, cache, req, count, cap, blind, misread>>

\* "only update reservation number cache after check succeeds", in the order
\* of a Go map, which is no order.
Publish(r) ==
  /\ pc[r] = "publish"
  /\ \E m \in memo[r] :
       /\ SetCount(<<Hotel(r), m.night>>, m.val)
       /\ memo' = [memo EXCEPT ![r] = @ \ {m}]
       /\ Goto(r, IF memo[r] = {m} THEN "insert" ELSE "publish")
  /\ UNCHANGED <<up, rows, numbers, capCache, req, hi, day, count, cap, result,
                 promised, blind, misread>>

\* One InsertOne; the reply, when there are no more nights.
InsertNight(r, more) ==
  /\ pc[r] = "insert"
  /\ rows' = [rows EXCEPT ![Key(r)] = @ \cup {r}]
  /\ \/ /\ more
        /\ day' = [day EXCEPT ![r] = @ + 1]
        /\ UNCHANGED <<pc, memo, result>>
     \/ /\ ~more
        /\ Reply(r, <<Hotel(r)>>)
        /\ UNCHANGED day
  /\ UNCHANGED <<up, numbers, cache, capCache, req, hi, count, cap, promised,
                 blind, misread>>

\* (mutants) Insert that stops a night early, and a night late.
InsertShort(r) == InsertNight(r, day[r] + 1 < Out(r))
InsertLong(r) == InsertNight(r, day[r] <= Out(r))

\* One row per night.
Insert(r) == InsertNight(r, day[r] < Out(r))

\* log.Fatalf("insert reserve error: ..."); the row may be in the database.
InsertFails(r) ==
  /\ pc[r] = "insert"
  /\ "mongoError" \in Faults
  /\ rows' \in {rows, [rows EXCEPT ![Key(r)] = @ \cup {r}]}
  /\ Die

-----------------------------------------------------------------------------
(* memcached, which drops what it likes when it is full or restarts *)

Evict ==
  /\ "evict" \in Faults
  /\ \/ \E k \in Keys : cache[k] # Absent /\ cache' = [cache EXCEPT ![k] = Absent]
                        /\ UNCHANGED capCache
     \/ \E h \in Hotels : capCache[h] # Absent
                          /\ capCache' = [capCache EXCEPT ![h] = Absent]
                          /\ UNCHANGED cache
  /\ UNCHANGED <<up, rows, numbers, req, pc, locals, promised, blind, misread>>

-----------------------------------------------------------------------------
Handle(r) ==
  \/ GetCount(r) \/ FindForBooking(r) \/ FindForCheck(r) \/ FillCount(r)
  \/ GetCap(r) \/ FindCap(r) \/ FillCap(r) \/ Publish(r) \/ Insert(r)

Fail(r) == Crash(r) \/ InsertFails(r)

\* Every request has been answered or lost, and the server waits for others.
Quiet ==
  /\ up
  /\ \A r \in Requests : pc[r] \in {"replied", "lost"}
  /\ UNCHANGED vars

Next ==
  \/ Boot \/ BootFails \/ Evict \/ Quiet
  \/ \E r \in Requests : Arrive(r) \/ Handle(r) \/ Fail(r)

Spec == Init /\ [][Next]_vars

\* Goroutines are scheduled, and calls to MongoDB and memcached return.
FairSpec ==
  /\ Spec
  /\ \A r \in Requests : WF_vars(Handle(r))

-----------------------------------------------------------------------------
(* Properties *)

Typed ==
  /\ up \in BOOLEAN
  /\ rows \in [Keys -> SUBSET (Requests \cup {Seed})]
  /\ numbers \subseteq SeededHotels
  /\ cache \in [Keys -> Int \cup {Absent}]
  /\ capCache \in [Hotels -> Nat \cup {Absent}]
  /\ req \in [Requests -> Calls]
  /\ pc \in [Requests -> Phases]
  /\ hi \in [Requests -> Nat \ {0}]
  /\ day \in [Requests -> Nat]
  /\ count \in [Requests -> Int]
  /\ cap \in [Requests -> Nat]
  /\ memo \in [Requests -> SUBSET [night : Nights, val : Int]]
  /\ result \in [Requests -> Seq(Hotels)]
  /\ promised \subseteq Requests
  /\ blind \subseteq Requests
  /\ misread \in [Requests -> SUBSET SeededHotels]

\* A handler stays within the request's list of hotels and within its stay.
InRange ==
  \A r \in Requests : pc[r] \in Running =>
    /\ hi[r] \in 1..Len(req[r].hotels)
    /\ day[r] \in Stay(r)

TypeOK == Typed /\ InRange

\* No client asks for a negative number of rooms.
NoNegativeRooms == \A r \in Requests : Rooms(r) >= 0

\* The claims on a hotel and night: the bookings that were found to fit, filed
\* or not, and the row of InitializeDatabase.
ClaimsOf(h, n) ==
  {r \in promised : n \in Stay(r) /\ First(r) = h}
    \cup (IF <<h, n>> = <<SeedHotel, SeedNight>> THEN {Seed} ELSE {})

Claimed(h, n) == Total(ClaimsOf(h, n))

\* Whatever interleaves, fails or is dropped, memcached never holds more rooms
\* for a night than were claimed, so long as nobody books a negative number.
\* (A Set of a booking that another one overtakes only makes it too small.)
CacheNeverAhead ==
  NoNegativeRooms =>
    \A k \in Keys : cache[k] # Absent => cache[k] <= Claimed(k[1], k[2])

\* The capacity MakeReservation and CheckAvailability should see.
RoomsOf(h) == IF h \in SeededHotels THEN Capacity[h] ELSE 0

\* A failure of the collection "number" turns away the clients it meets and no
\* later one: memcached never keeps a capacity that no document has, whichever calls
\* and starts failed, and however late the Set comes.
CapacityIsTrue ==
  \A h \in Hotels : capCache[h] # Absent => h \in numbers /\ capCache[h] = Capacity[h]

Full(r, h) ==
  \E n \in Stay(r) : Claimed(h, n) + Rooms(r) > RoomsOf(h)

\* A booking is refused, and a hotel left out of an availability reply, only
\* when the claims on one of its nights leave too little room, or this request
\* itself found no capacity for the hotel: its own FindOne failed, or the insert of
\* the document had.  The claims are those of the bookings that were found to fit,
\* and stay when a crash loses the rows: a room that nobody gets may be refused.
NoFalseRefusal ==
  NoNegativeRooms =>
    \A r \in Requests : pc[r] = "replied" /\ Stay(r) # {} =>
      \A i \in DOMAIN req[r].hotels :
        \/ Make(r) /\ i # 1
        \/ \E j \in DOMAIN result[r] : result[r][j] = req[r].hotels[i]
        \/ Full(r, req[r].hotels[i])
        \/ req[r].hotels[i] \in misread[r]

\* The nights of a request that have its row.
Filed(r) == {n \in Nights : r \in rows[<<First(r), n>>]}

\* A booking is filed for every night when it is confirmed, for none when it is
\* refused, and for the first nights of the stay, in order, in between and when
\* the process dies; no row is filed under another hotel.
StaysWhole ==
  \A r \in Requests :
    /\ \A k \in Keys : r \in rows[k] => Make(r) /\ k[1] = First(r)
    /\ Make(r) =>
         \/ r \notin promised /\ Filed(r) = {}
         \/ r \in promised /\ pc[r] = "publish" /\ Filed(r) = {}
         \/ r \in promised /\ pc[r] = "insert" /\ Filed(r) = (In(r) + 1)..(day[r] - 1)
         \/ /\ r \in promised /\ pc[r] = "lost"
            /\ \E d \in In(r)..Out(r) : Filed(r) = (In(r) + 1)..d
         \/ /\ r \in promised /\ pc[r] = "replied"
            /\ Filed(r) = Stay(r) /\ result[r] = <<First(r)>>
    /\ Make(r) /\ r \notin promised => result[r] = <<>>

Idle == \A r \in Requests : pc[r] \notin Running

\* Between requests, a cached number of rooms is the number in the rows.
CacheAgrees ==
  Idle => \A k \in Keys : cache[k] # Absent => cache[k] = Total(rows[k])

\* With one request at a time the cache agrees with the collection between
\* requests, whatever memcached evicts and whichever handlers it ends by an error.
SerialCoherence ==
  Serial /\ Faults \subseteq {"evict", "memcError", "numberError"} => CacheAgrees

\* The answer CheckAvailability owes: the hotels of the list with room in every
\* night.
Vacant(r, h) ==
  /\ Stay(r) # {}
  /\ \A n \in Stay(r) : Total(rows[<<h, n>>]) + Rooms(r) <= RoomsOf(h)

\* The sequence s is what is left of t when only the indices in I are kept.
KeptOf(s, t, I) ==
  \E f \in [DOMAIN s -> I] :
    /\ \A i \in I : \E j \in DOMAIN s : f[j] = i
    /\ \A j, k \in DOMAIN s : j < k => f[j] < f[k]
    /\ \A j \in DOMAIN s : s[j] = t[f[j]]

\* ... which are what it answers, in their order, when nothing runs beside it.
ExactAvailability ==
  [][Serial /\ Faults \subseteq {"evict", "memcError"} =>
       \A r \in Requests :
         ~Make(r) /\ pc[r] # "replied" /\ pc'[r] = "replied" =>
           KeptOf(result'[r], req[r].hotels,
                  {i \in DOMAIN req[r].hotels : Vacant(r, req[r].hotels[i])})]_vars

\* More rooms are booked for a night than the hotel has.
Oversold(k) == Total(rows[k]) > RoomsOf(k[1])

NoOverbooking == \A k \in Keys : ~Oversold(k)

\* A night is oversold only with a booking that missed the cache among its rows.
OnlyBlindOversell ==
  \A k \in Keys : Oversold(k) => rows[k] \cap blind # {}

\* ... which is so with one request at a time, also when the process crashes or
\* memcached drops entries, but not when a Set can fail.
SerialOversell ==
  Serial /\ NoNegativeRooms /\ "lostset" \notin Faults => OnlyBlindOversell

\* Every request that a handler has started on is answered, or lost in a crash.
EveryCallEnds ==
  \A r \in Requests : pc[r] \in Running ~> pc[r] \in {"replied", "lost"}

\* A booking that was found to fit is filed for its whole stay, unless the
\* process crashes on the way.
PromisesAreFiled ==
  \A r \in Requests :
    r \in promised ~> (r \in promised /\ Filed(r) = Stay(r)) \/ pc[r] = "lost"

-----------------------------------------------------------------------------
(* What the service promises its clients: module BookingDesk *)

DeskCall(c) ==
  [op |-> c.op, hotels |-> c.hotels, rooms |-> c.rooms,
   nights |-> (Parse(c.in) + 1)..Parse(c.out)]

DeskStatus(phase) ==
  CASE phase = "new" -> "new"
    [] phase \in {"publish", "insert"} -> "held"
    [] phase = "replied" -> "done"
    [] phase = "lost" -> "lost"
    [] OTHER -> "open"

DeskCalls == [r \in Requests |-> DeskCall(req[r])]
DeskState == [r \in Requests |-> DeskStatus(pc[r])]
DeskClaims == [k \in Keys |-> Claimed(k[1], k[2])]
DeskAnswers == [r \in Requests |-> IF pc[r] = "replied" THEN result[r] ELSE <<>>]
DeskUnread == [r \in Requests |->
  IF pc[r] = "replied" THEN misread[r] \ {result[r][j] : j \in DOMAIN result[r]} ELSE {}]

Desk == INSTANCE BookingDesk WITH
  Calls <- {DeskCall(c) : c \in Calls},
  Stock <- [h \in Hotels |-> RoomsOf(h)],
  Opening <- [k \in Keys |-> IF k = <<SeedHotel, SeedNight>> THEN 1 ELSE 0],
  call <- DeskCalls, status <- DeskState, claimed <- DeskClaims, answer <- DeskAnswers,
  unread <- DeskUnread

\* The service keeps the promises of BookingDesk while nobody books a negative
\* number of rooms, and whatever goes wrong.
KeepsPromises == Desk!Spec

=============================================================================
