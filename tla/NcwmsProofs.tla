---------------------------- MODULE NcwmsProofs ----------------------------
(***************************************************************************)
(* Proofs about Ncwms: days and times are the same for the listings and    *)
(* the portal in any zone of the JVM, and for the queries if that is UTC,  *)
(* whatever the resolution of the index and the calendar; what follows     *)
(* from it for the sessions of clients; and what thredds is asked,         *)
(* whatever the order of the substitutions.                                *)
(***************************************************************************)
EXTENDS Ncwms, OrderedProofs

-----------------------------------------------------------------------------
(* Division *)

(* The quotient is the whole number below the fraction.                    *)
LEMMA DivBounds ==
  ASSUME NEW a \in Int, NEW n \in Nat \ {0}
  PROVE  a \div n \in Int /\ n * (a \div n) <= a /\ a < n * (a \div n) + n
  OBVIOUS

(* The remainder is what the quotient leaves.                              *)
LEMMA ModDef ==
  ASSUME NEW a \in Int, NEW n \in Nat \ {0}
  PROVE  a % n = a - n * (a \div n) /\ a % n \in 0..(n - 1)
  OBVIOUS

(* Multiples of n are at least n apart.                                    *)
LEMMA MulMono ==
  ASSUME NEW n \in Nat \ {0}, NEW p \in Int, NEW q \in Int, p < q
  PROVE  n * p + n <= n * q
<1>1. n * (p + 1) <= n * q
  OBVIOUS
<1> QED BY <1>1

(* Multiplication by a positive number keeps the order.                    *)
LEMMA MulLeq ==
  ASSUME NEW n \in Nat \ {0}, NEW p \in Int, NEW q \in Int, p <= q
  PROVE  n * p <= n * q
  OBVIOUS

(* Division keeps the order.                                               *)
LEMMA DivMono ==
  ASSUME NEW n \in Nat \ {0}, NEW a \in Int, NEW b \in Int, a <= b
  PROVE  a \div n <= b \div n
<1>1. SUFFICES ASSUME b \div n < a \div n PROVE FALSE
  BY DivBounds
<1> QED BY <1>1, DivBounds, MulMono

(* Only the quotient is within its bounds.                                 *)
LEMMA DivUnique ==
  ASSUME NEW n \in Nat \ {0}, NEW a \in Int, NEW q \in Int,
         n * q <= a, a < n * q + n
  PROVE  a \div n = q
<1>1. ~(q < a \div n)
  BY DivBounds, MulMono
<1>2. ~(a \div n < q)
  BY DivBounds, MulMono
<1> QED BY <1>1, <1>2, DivBounds

(* Division by a product is division by one factor after the other.        *)
LEMMA DivTwice ==
  ASSUME NEW a \in Int, NEW n \in Nat \ {0}, NEW m \in Nat \ {0}
  PROVE  a \div (n * m) = (a \div n) \div m
<1> DEFINE q == a \div n
           r == q \div m
<1>1. q \in Int /\ r \in Int /\ n * m \in Nat \ {0}
  BY DivBounds
<1>2. n * q <= a /\ a < n * q + n
  BY DivBounds
<1>3. m * r <= q /\ q + 1 <= m * r + m
  BY <1>1, DivBounds
<1> HIDE DEF q, r
<1>4. n * (m * r) <= n * q /\ n * (q + 1) <= n * (m * r + m)
  BY <1>1, <1>3, MulLeq
<1>5. n * (m * r) = (n * m) * r /\ n * (m * r + m) = (n * m) * r + n * m
  BY <1>1
<1>6. n * (q + 1) = n * q + n
  BY <1>1
<1>7. (n * m) * r <= a /\ a < (n * m) * r + n * m
  BY <1>1, <1>2, <1>4, <1>5, <1>6
<1>8. a \div (n * m) = r
  BY <1>1, <1>7, DivUnique
<1> QED BY <1>8 DEF r, q

-----------------------------------------------------------------------------
(* Days *)

(* The day and the time of an instant in the JVM's zone.                   *)
LEMMA Local ==
  ASSUME NEW t \in Nat, offset \in Int
  PROVE  /\ Ms(t) \in Int /\ LocalDay(t) \in Int
         /\ LocalTime(t) \in 0..(MsPerDay - 1)
         /\ Ms(t) + offset = MsPerDay * LocalDay(t) + LocalTime(t)
<1>1. Ms(t) \in Int
  BY NcwmsAssumption, DivBounds DEF Ms
<1>2. LocalDay(t) \in Int
  BY <1>1, NcwmsAssumption, DivBounds DEF LocalDay
<1>3. LocalTime(t) = (Ms(t) + offset) - MsPerDay * LocalDay(t)
      /\ LocalTime(t) \in 0..(MsPerDay - 1)
  <2>1. Ms(t) + offset \in Int /\ MsPerDay \in Nat \ {0}
    BY <1>1, NcwmsAssumption
  <2> DEFINE x == Ms(t) + offset
  <2> HIDE DEF x
  <2>2. x % MsPerDay = x - MsPerDay * (x \div MsPerDay) /\ x % MsPerDay \in 0..(MsPerDay - 1)
    BY <2>1, ModDef DEF x
  <2>3. LocalTime(t) = x % MsPerDay /\ LocalDay(t) = x \div MsPerDay
    BY DEF LocalDay, LocalTime, x
  <2>4. LocalTime(t) = x - MsPerDay * LocalDay(t) /\ LocalTime(t) \in 0..(MsPerDay - 1)
    BY <2>2, <2>3, Zenon
  <2> QED BY <2>4 DEF x
<1>4. MsPerDay * LocalDay(t) \in Int
  BY <1>2, NcwmsAssumption
<1> QED BY <1>1, <1>2, <1>3, <1>4

(* The portal's day parameter for a date is the day it was made of.        *)
LEMMA DateRoundTrip ==
  ASSUME NEW t \in Nat, offset \in Int
  PROVE  DateOf(t) \in Date /\ DayOf(DateOf(t)) = LocalDay(t)
<1> DEFINE day == LocalDay(t)
           D == DaysPerMonth
           M == MonthsPerYear
           month == day \div D
           year == month \div M
<1>1. day \in Int /\ D \in Nat \ {0} /\ M \in Nat \ {0} /\ M * D = D * M
  BY Local, NcwmsAssumption
<1>2. month \in Int /\ year \in Int
  BY <1>1, DivBounds
<1>3. day \div (D * M) = year
  BY <1>1, DivTwice
<1>4. /\ day % D = day - D * month /\ day % D \in 0..(D - 1)
      /\ month % M = month - M * year /\ month % M \in 0..(M - 1)
  BY <1>1, <1>2, ModDef
<1>5. DateOf(t) = [year |-> year, month |-> month % M, day |-> 1 + (day % D)]
  BY <1>3 DEF DateOf
<1>6. DateOf(t) \in Date
  <2>1. 1 + (day % D) \in 1..D
    BY <1>1, <1>4
  <2> QED BY <1>2, <1>4, <1>5, <2>1 DEF Date
<1>7. DayOf(DateOf(t)) = (year * M + (month % M)) * D + (1 + (day % D)) - 1
  BY <1>5 DEF DayOf
<1> HIDE DEF day, month, year, D, M
<1>8. year * M + (month % M) = month
  BY <1>1, <1>2, <1>4
<1>9. DayOf(DateOf(t)) = month * D + (1 + (day - D * month)) - 1
  BY <1>4, <1>7, <1>8
<1>10. month * D = D * month /\ D * month \in Int
  BY <1>1, <1>2
<1>11. DayOf(DateOf(t)) = day
  BY <1>1, <1>9, <1>10
<1> QED BY <1>6, <1>11 DEF day

(* In UTC the store takes from a literal the instant that was printed, and *)
(* the bounds of a day are a day apart.                                    *)
LEMMA LiteralInUTC ==
  ASSUME NEW ms \in Int, offset = 0
  PROVE  Literal(ms) = ms * TicksPerMs
<1>1. ms - offset = ms
  OBVIOUS
<1> QED BY <1>1 DEF Literal

LEMMA DayInUTC ==
  ASSUME NEW day \in Int, NEW f, offset = 0
  PROVE  LET start == (day * MsPerDay) * TicksPerMs
         IN  FilterForSameDay(day, f) <=>
               f.time # NULL /\ f.time >= start /\ f.time < start + MsPerDay * TicksPerMs
<1> DEFINE first == day * MsPerDay
<1>1. first \in Int /\ (day + 1) * MsPerDay = first + MsPerDay
      /\ MsPerDay \in Int /\ TicksPerMs \in Int
  BY NcwmsAssumption
<1> HIDE DEF first
<1>2. first - offset = first /\ (first + MsPerDay) - offset = first + MsPerDay
  BY <1>1
<1>3. /\ Literal(first) = first * TicksPerMs
      /\ Literal(first + MsPerDay) = (first + MsPerDay) * TicksPerMs
  BY <1>1, LiteralInUTC
<1>4. (first + MsPerDay) * TicksPerMs = first * TicksPerMs + MsPerDay * TicksPerMs
  BY <1>1
<1>5. /\ Literal(day * MsPerDay - offset) = first * TicksPerMs
      /\ Literal((day + 1) * MsPerDay - offset) = first * TicksPerMs + MsPerDay * TicksPerMs
  BY <1>1, <1>2, <1>3, <1>4 DEF first
<1>6. first * TicksPerMs = (day * MsPerDay) * TicksPerMs
  BY DEF first
<1> QED BY <1>5, <1>6, Zenon DEF FilterForSameDay

(* There cqlFilterForSameDay finds an instant on its day.                  *)
LEMMA OnItsDay ==
  ASSUME NEW f \in Files, f.time # NULL, offset = 0
  PROVE  f.time \in Nat /\ FilterForSameDay(LocalDay(f.time), f)
<1> DEFINE t == f.time
           n == TicksPerMs
           m == Ms(t)
           start == LocalDay(t) * MsPerDay
<1>1. t \in Nat /\ n \in Nat \ {0} /\ MsPerDay \in Nat \ {0}
  BY NcwmsAssumption
<1>2. LocalDay(t) \in Int /\ LocalDay(t) * MsPerDay = MsPerDay * LocalDay(t)
      /\ MsPerDay * LocalDay(t) \in Int
  BY <1>1, Local
<1>3. start \in Int /\ m \in Int /\ start <= m /\ m + 1 <= start + MsPerDay
  <2>1. m \in Int /\ m + offset = m
    BY <1>1, Local
  <2> QED BY <1>1, <1>2, <2>1, Local
<1>4. n * m <= t /\ t < n * m + n
  <2>1. t \in Int /\ m = t \div n
    BY <1>1 DEF Ms
  <2> HIDE DEF t, m, n
  <2> QED BY <1>1, <2>1, DivBounds
<1>5. start * n <= t /\ t < start * n + MsPerDay * n
  <2> HIDE DEF start, m, n, t
  <2>1. n * start <= n * m /\ n * (m + 1) <= n * (start + MsPerDay)
    BY <1>1, <1>3, MulLeq
  <2>2. n * (m + 1) = n * m + n /\ n * (start + MsPerDay) = start * n + MsPerDay * n
        /\ n * start = start * n
    BY <1>1, <1>3
  <2>3. n * m \in Int /\ start * n \in Int /\ MsPerDay * n \in Int
    BY <1>1, <1>3
  <2> QED BY <1>1, <1>4, <2>1, <2>2, <2>3
<1> HIDE DEF t, n
<1>6. t >= start * n /\ t # NULL
  BY <1>1, <1>3, <1>5, NcwmsAssumption
<1> QED BY <1>1, <1>2, <1>5, <1>6, DayInUTC DEF t, n

(* In UTC an instant of whole milliseconds is its day and its time.        *)
LEMMA WholeInstant ==
  ASSUME NEW f \in Files, NEW day \in Int, offset = 0,
         FilterForSameDay(day, f), f.time % TicksPerMs = 0
  PROVE  f.time = (day * MsPerDay + LocalTime(f.time)) * TicksPerMs
<1> DEFINE t == f.time
           n == TicksPerMs
           m == Ms(t)
           start == day * MsPerDay
<1>1. t \in Nat /\ n \in Nat \ {0} /\ MsPerDay \in Nat \ {0}
  BY NcwmsAssumption DEF FilterForSameDay
<1>2. m \in Int /\ t = n * m
  <2>1. m \in Int /\ t % n = t - n * m
    <3>1. t \in Int /\ m = t \div n
      BY <1>1 DEF Ms
    <3> HIDE DEF t, m, n
    <3> QED BY <1>1, <3>1, DivBounds, ModDef
  <2>2. n * m \in Int
    BY <1>1, <2>1
  <2> QED BY <1>1, <2>1, <2>2
<1>3. start \in Int
  BY <1>1
<1>4. start * n <= t /\ t < start * n + MsPerDay * n
  <2>1. start * n \in Int
    BY <1>1, <1>3
  <2> QED BY <1>1, <2>1, DayInUTC
<1>5. start <= m /\ m < start + MsPerDay
  <2> HIDE DEF start, m, n, t
  <2>1. start * n = n * start /\ start * n + MsPerDay * n = n * (start + MsPerDay)
    BY <1>1, <1>3
  <2>2. n * start \in Int /\ n * m \in Int /\ n * (start + MsPerDay) \in Int
    BY <1>1, <1>2, <1>3
  <2>3. ~(m < start)
    BY <1>1, <1>2, <1>3, <1>4, <2>1, <2>2, MulMono
  <2>4. ~(start + MsPerDay <= m)
    <3>1. SUFFICES ASSUME start + MsPerDay <= m PROVE FALSE
      OBVIOUS
    <3>2. n * (start + MsPerDay) <= n * m
      BY <1>1, <1>2, <1>3, <3>1, MulLeq
    <3> QED BY <1>2, <1>4, <2>1, <2>2, <3>2
  <2> QED BY <1>1, <1>2, <1>3, <2>3, <2>4
<1>6. LocalDay(t) = day
  <2>1. MsPerDay * day = start /\ m + offset = m
    BY <1>1, <1>2
  <2>2. m \div MsPerDay = day
    BY <1>1, <1>2, <1>5, <2>1, DivUnique
  <2> QED BY <2>1, <2>2 DEF LocalDay
<1>7. m = start + LocalTime(t)
  BY <1>1, <1>2, <1>6, Local
<1>8. m * n = n * m
  BY <1>1, <1>2
<1> QED BY <1>2, <1>7, <1>8

-----------------------------------------------------------------------------
(* The invariant *)

(* What was listed is known, and backed by the index unless something was  *)
(* removed from it.                                                        *)
Backed(c, this) ==
  /\ this.line = "details" \/ this.dates # {} \/ this.times # {} => Known(c)
  /\ this.times # {} => this.day \in Int
  /\ ~this.removed =>
       /\ \A date \in this.dates : \E f \in files :
            f.time # NULL /\ date = DateOf(f.time)
       /\ \A time \in this.times : \E f \in files :
            FilterForSameDay(this.day, f) /\ time = LocalTime(f.time)

(* The conversation with thredds.                                          *)
Conversing(this) ==
  /\ this.line \in {"connecting", "relaying"} => this.map # NULL
  /\ this.line = "connecting" => this.status = NULL /\ this.thredds = NULL
  /\ this.line = "relaying" => this.status = 200 /\ this.thredds = 200

(* The parts of the properties that concern one client.                    *)
DatesHaveTimes(this) ==
  offset = 0 /\ this.line = "times" /\ ~this.removed => this.times # {}

TimesServed(this) ==
  this.picked \notin {NULL, Empty} =>
    /\ offset = 0 /\ WholeMs /\ this.line = "failed" /\ this.map = NULL =>
         this.removed \/ \E f \in files : f.url = NULL
    /\ this.map # NULL =>
         /\ this.map.time # NULL
         /\ this.map.time = Literal(this.picked.day * MsPerDay + this.picked.time)

NotBeforeListed(this) ==
  /\ this.map # NULL /\ this.picked = NULL /\ ~this.removed
  /\ this.map.time # NULL
  => \A date \in this.dates : DayOf(date) <= LocalDay(this.map.time)

Honest(this) ==
  /\ this.status = 200 => this.thredds = 200
  /\ this.status = Refusal => this.thredds = Refusal
  /\ this.line \in {"map", "cut"} => this.status = 200

ClientOK(c, this) ==
  /\ ClientType(this) /\ Backed(c, this) /\ Conversing(this)
  /\ DatesHaveTimes(this) /\ TimesServed(this) /\ NotBeforeListed(this)
  /\ Honest(this)

IInv ==
  /\ offset \in Int /\ files \in SUBSET Files /\ DOMAIN clients = Clients
  /\ \A c \in Clients : ClientOK(c, clients[c])

(* The record of a client that starts anew.                                *)
LEMMA NewClientFields ==
  NewClient \in ClientRecord({<<>>}) /\ NewClient.query = <<>>
<1>1. ASSUME NEW none
      PROVE  [line |-> "idle", dates |-> {}, day |-> NULL, times |-> {},
              picked |-> NULL, operation |-> NULL, map |-> NULL, url |-> NULL,
              query |-> none, status |-> NULL, removed |-> FALSE, thredds |-> NULL]
                \in ClientRecord({none})
  BY DEF ClientRecord, Lines, Dates, Day, Times, Picked, Operation, Map, Url, Status,
         Answer
<1> QED BY <1>1 DEF NewClient

(* A record whose query is empty.                                          *)
LEMMA EmptyQuery ==
  ASSUME NEW r, r \in ClientRecord({<<>>})
  PROVE  ClientType(r)
<1>1. r.query = <<>>
  BY DEF ClientRecord
<1>2. DOMAIN << >> = {}
  OBVIOUS
<1> QED BY <1>1, <1>2 DEF ClientType

(* A client that starts anew is as it should be.                           *)
LEMMA NewClientOK ==
  ASSUME NEW c \in Clients, NEW line \in {"idle", "details", "failed"},
         line = "details" => Known(c)
  PROVE  ClientOK(c, [NewClient EXCEPT !.line = line])
<1> DEFINE r == [NewClient EXCEPT !.line = line]
<1>1. ClientType(r)
  <2>1. line \in Lines
    BY DEF Lines
  <2>2. r \in ClientRecord({<<>>})
    BY <2>1, NewClientFields DEF ClientRecord
  <2> QED BY <2>2, EmptyQuery
<1>2. Backed(c, r) /\ Conversing(r) /\ Honest(r)
  BY NcwmsAssumption DEF Backed, Conversing, Honest, NewClient
<1>3. DatesHaveTimes(r) /\ TimesServed(r) /\ NotBeforeListed(r)
  BY DEF DatesHaveTimes, TimesServed, NotBeforeListed, NewClient
<1> QED BY <1>1, <1>2, <1>3 DEF ClientOK

(* A step of one client only has to care for that client.                  *)
LEMMA MoveOK ==
  ASSUME IInv, NEW c \in Clients, NEW r, ClientOK(c, r),
         Move(c, r), UNCHANGED <<server, files>>
  PROVE  IInv'
<1>1. offset' \in Int /\ files' \in SUBSET Files /\ DOMAIN clients' = Clients
  BY DEF IInv, Move, server
<1>2. ASSUME NEW d \in Clients PROVE ClientOK(d, clients[d]')
  BY DEF IInv, Move
<1>3. ASSUME NEW d \in Clients, NEW q, ClientOK(d, q) PROVE ClientOK(d, q)'
  <2>1. ClientType(q)'
    BY <1>3 DEF ClientOK, ClientType, ClientRecord, Url, getWmsUrl, server
  <2>2. Backed(d, q)'
    BY <1>3 DEF ClientOK, Backed, Known, Indexed, server, DateOf, LocalDay, LocalTime,
        FilterForSameDay, Literal
  <2>3. Conversing(q)' /\ DatesHaveTimes(q)' /\ Honest(q)'
    BY <1>3 DEF ClientOK, Conversing, DatesHaveTimes, Honest, server
  <2>4. TimesServed(q)' /\ NotBeforeListed(q)'
    BY <1>3 DEF ClientOK, TimesServed, NotBeforeListed, WholeMs, LocalDay, Literal, server
  <2> QED BY <2>1, <2>2, <2>3, <2>4 DEF ClientOK
<1>4. ASSUME NEW d \in Clients PROVE ClientOK(d, clients[d])'
  BY <1>2, <1>3
<1> QED BY <1>1, <1>4 DEF IInv

(* Details: the dates are those of the index.                              *)
LEMMA AnswerDetailsOK ==
  ASSUME IInv, NEW c \in Clients, AnswerDetails(c)
  PROVE  IInv'
<1> DEFINE timed == {g \in files : g.time # NULL}
           dates == {DateOf(f.time) : f \in timed}
           r == [NewClient EXCEPT !.line = "dates", !.dates = dates]
<1>1. \A f \in timed : f \in Files /\ f.time \in Nat /\ DateOf(f.time) \in Date
  BY NcwmsAssumption, DateRoundTrip DEF IInv
<1>2. ClientType(r)
  <2>1. r \in ClientRecord({<<>>})
    <3>1. dates \in Dates /\ "dates" \in Lines
      BY <1>1 DEF Dates, Lines
    <3> HIDE DEF dates
    <3>2. ASSUME NEW q, NEW n \in ClientRecord({q})
          PROVE  [n EXCEPT !.line = "dates", !.dates = dates] \in ClientRecord({q})
      BY <3>1 DEF ClientRecord
    <3> QED BY <3>2, NewClientFields
  <2> QED BY <2>1, EmptyQuery
<1>3. /\ r.dates = dates /\ r.times = {} /\ r.line = "dates"
      /\ r.map = NULL /\ r.picked = NULL /\ r.status = NULL /\ r.thredds = NULL
  BY DEF NewClient
<1> HIDE DEF r
<1>4. Backed(c, r)
  BY <1>3 DEF Backed, IInv, ClientOK, AnswerDetails
<1>5. Conversing(r) /\ Honest(r) /\ DatesHaveTimes(r) /\ TimesServed(r)
      /\ NotBeforeListed(r)
  BY <1>3, NcwmsAssumption
  DEF Conversing, Honest, DatesHaveTimes, TimesServed, NotBeforeListed
<1>6. ClientOK(c, r)
  BY <1>2, <1>4, <1>5 DEF ClientOK
<1> QED BY <1>6, MoveOK DEF AnswerDetails, r

(* What a client keeps when it asks again.                                 *)
LEMMA AskType ==
  ASSUME NEW c \in Clients, NEW line \in Lines, ClientType(clients[c])
  PROVE  Ask(c, line) \in ClientRecord({<<>>})
<1>1. clients[c].dates \in Dates /\ clients[c].removed \in BOOLEAN
  BY DEF ClientType, ClientRecord
<1>2. ASSUME NEW q, NEW n \in ClientRecord({q})
      PROVE  [n EXCEPT !.line = line, !.dates = clients[c].dates,
                       !.removed = clients[c].removed] \in ClientRecord({q})
  BY <1>1 DEF ClientRecord
<1> QED BY <1>2, NewClientFields DEF Ask

(* Times: the portal's day finds the files the date was made of.           *)
LEMMA AskTimesOK ==
  ASSUME IInv, NEW c \in Clients, NEW date \in clients[c].dates, AskTimes(c, date)
  PROVE  IInv'
<1> DEFINE day == DayOf(date)
           found == {g \in files : FilterForSameDay(day, g)}
           times == {LocalTime(f.time) : f \in found}
           r == [Ask(c, "times") EXCEPT !.day = day, !.times = times]
<1> USE DEF IInv
<1>1. ClientType(clients[c]) /\ Backed(c, clients[c])
  BY DEF ClientOK
<1>2. /\ date \in Date /\ clients[c].dates \in SUBSET Date
      /\ clients[c].removed \in BOOLEAN
  BY <1>1 DEF ClientType, ClientRecord, Dates
<1>3. day \in Int
  BY <1>2, NcwmsAssumption DEF Date, DayOf
<1>4. \A f \in found : f \in Files /\ LocalTime(f.time) \in 0..(MsPerDay - 1)
  BY NcwmsAssumption, Local DEF FilterForSameDay
<1>5. ClientType(r)
  <2>1. r \in ClientRecord({<<>>})
    <3>1. times \in Times /\ day \in Day
      BY <1>3, <1>4 DEF Times, Day
    <3> HIDE DEF times, day
    <3>2. ASSUME NEW q, NEW n \in ClientRecord({q})
          PROVE  [n EXCEPT !.day = day, !.times = times] \in ClientRecord({q})
      BY <3>1 DEF ClientRecord
    <3> QED BY <1>1, <3>2, AskType DEF Lines
  <2> QED BY <2>1, EmptyQuery
<1>6. /\ r.dates = clients[c].dates /\ r.removed = clients[c].removed
      /\ r.times = times /\ r.day = day /\ r.line = "times"
      /\ r.map = NULL /\ r.picked = NULL /\ r.status = NULL /\ r.thredds = NULL
  BY DEF NewClient, Ask
<1>7. offset = 0 /\ ~clients[c].removed => \E f \in files : FilterForSameDay(day, f)
  <2>1. SUFFICES ASSUME offset = 0, ~clients[c].removed
                 PROVE  \E f \in files : FilterForSameDay(day, f)
    OBVIOUS
  <2>2. PICK f \in files : f.time # NULL /\ date = DateOf(f.time)
    BY <1>1, <2>1 DEF Backed
  <2>3. f.time \in Nat /\ FilterForSameDay(LocalDay(f.time), f)
    BY <2>1, <2>2, OnItsDay
  <2>4. day = LocalDay(f.time)
    BY <2>2, <2>3, DateRoundTrip
  <2> QED BY <2>3, <2>4
<1> HIDE DEF r, day
<1>8. Backed(c, r)
  BY <1>1, <1>3, <1>6 DEF Backed
<1>9. DatesHaveTimes(r)
  BY <1>6, <1>7 DEF DatesHaveTimes
<1>10. Conversing(r) /\ Honest(r) /\ TimesServed(r) /\ NotBeforeListed(r)
  BY <1>6, NcwmsAssumption DEF Conversing, Honest, TimesServed, NotBeforeListed
<1>11. ClientOK(c, r)
  BY <1>5, <1>8, <1>9, <1>10 DEF ClientOK
<1> QED BY <1>11, MoveOK DEF AskTimes, r, day

-----------------------------------------------------------------------------
(* Maps *)

(* The query that thredds is sent has the client's time or none.           *)
LEMMA QueryType ==
  ASSUME NEW operation, NEW t, NEW time, NEW d, NEW mismatch, NEW q,
         q = wmsParameters(RequestParameters(operation, t, time), operation, d, mismatch)
  PROVE  /\ DOMAIN q \subseteq {"TIME", "LAYER", "LAYERS", "QUERY_LAYERS"}
         /\ "TIME" \in DOMAIN q => time # NULL /\ q["TIME"] = time
<1>1. layerParameter(operation) \in {"LAYER", "LAYERS"}
  BY DEF layerParameter
<1> DEFINE p == RequestParameters(operation, t, time)
<1>2. /\ DOMAIN p \subseteq {"TIME", "LAYER", "LAYERS", "QUERY_LAYERS"}
      /\ "TIME" \in DOMAIN p => time # NULL /\ p["TIME"] = time
  BY <1>1 DEF RequestParameters
<1> HIDE DEF p
<1>3. q = [name \in (DOMAIN p \ (IF mismatch THEN {"TIME"} ELSE {}))
                       \cup {layerParameter(operation)} |->
             IF name \in {layerParameter(operation), "QUERY_LAYERS"}
             THEN d.netCDFVariable ELSE p[name]]
  BY DEF wmsParameters, p
<1>4. DOMAIN q = (DOMAIN p \ (IF mismatch THEN {"TIME"} ELSE {}))
                   \cup {layerParameter(operation)}
  BY <1>3
<1>5. DOMAIN q \subseteq {"TIME", "LAYER", "LAYERS", "QUERY_LAYERS"}
  BY <1>1, <1>2, <1>4
<1>6. ASSUME "TIME" \in DOMAIN q PROVE "TIME" \in DOMAIN p /\ q["TIME"] = p["TIME"]
  BY <1>1, <1>3, <1>4, <1>6
<1> QED BY <1>2, <1>5, <1>6

(* What a client can ask a map for.                                        *)
LEMMA PickableType ==
  ASSUME IInv, NEW c \in Clients, NEW picked \in Pickable(c)
  PROVE  /\ picked \in Picked
         /\ picked \notin {NULL, Empty} =>
              /\ picked \in Timestamp /\ picked.day = clients[c].day
              /\ picked.day \in Int /\ picked.time \in clients[c].times
<1>1. Backed(c, clients[c]) /\ clients[c].times \in SUBSET (0..(MsPerDay - 1))
  BY DEF IInv, ClientOK, ClientType, ClientRecord, Times
<1>2. ASSUME NEW time \in clients[c].times,
             picked = [day |-> clients[c].day, time |-> time]
      PROVE  /\ picked \in Timestamp /\ picked.day = clients[c].day
             /\ picked.day \in Int /\ picked.time \in clients[c].times
  BY <1>1, <1>2 DEF Backed, Timestamp
<1>3. picked \in {NULL, Empty}
        \/ \E time \in clients[c].times : picked = [day |-> clients[c].day, time |-> time]
  BY DEF Pickable
<1> QED BY <1>2, <1>3 DEF Picked

(* What a client keeps when it asks for a map.                             *)
LEMMA AskMapType ==
  ASSUME IInv, NEW c \in Clients, NEW line \in Lines, NEW operation \in Operations,
         NEW picked \in Pickable(c)
  PROVE  AskMap(c, line, operation, picked) \in ClientRecord({<<>>})
<1>1. ClientType(clients[c]) /\ picked \in Picked /\ operation \in Operation
  BY PickableType DEF IInv, ClientOK, Operation
<1>2. clients[c].day \in Day /\ clients[c].times \in Times
  BY <1>1 DEF ClientType, ClientRecord
<1>3. ASSUME NEW q, NEW n \in ClientRecord({q})
      PROVE  [n EXCEPT !.operation = operation, !.picked = picked,
                       !.day = clients[c].day, !.times = clients[c].times]
               \in ClientRecord({q})
  BY <1>1, <1>2 DEF ClientRecord
<1> QED BY <1>1, <1>3, AskType DEF AskMap

(* In UTC and with whole milliseconds a time that was listed has a file.   *)
LEMMA ListedTimeHasFile ==
  ASSUME IInv, NEW c \in Clients, NEW picked \in Pickable(c),
         picked \notin {NULL, Empty}, offset = 0, WholeMs, ~clients[c].removed
  PROVE  Known(c) /\ FilesFor(picked) # {}
<1>1. /\ picked.day = clients[c].day /\ picked.day \in Int
      /\ picked.time \in clients[c].times
  BY PickableType
<1>2. Backed(c, clients[c])
  BY DEF IInv, ClientOK
<1>3. Known(c)
  BY <1>1, <1>2 DEF Backed
<1>4. PICK f \in files : FilterForSameDay(picked.day, f) /\ picked.time = LocalTime(f.time)
  BY <1>1, <1>2 DEF Backed
<1>5. f \in Files /\ f.time % TicksPerMs = 0
  BY <1>4 DEF WholeMs, FilterForSameDay, IInv
<1>6. f.time = Literal(picked.day * MsPerDay + picked.time)
  <2>1. picked.day * MsPerDay + picked.time \in Int
    BY <1>1, PickableType, NcwmsAssumption DEF Timestamp
  <2> QED BY <1>1, <1>4, <1>5, <2>1, WholeInstant, LiteralInUTC
<1>7. f \in FilesFor(picked)
  BY <1>6 DEF FilesFor, FilterForTimestamp
<1> QED BY <1>3, <1>7

(* A map is put together: without a time, of the latest file, which is not *)
(* before any that was listed.                                             *)
LEMMA ProxyOK ==
  ASSUME IInv, NEW c \in Clients, NEW operation \in Operations,
         NEW picked \in Pickable(c), NEW f \in files, Proxy(c, operation, picked, f)
  PROVE  IInv'
<1> DEFINE a == AskMap(c, "connecting", operation, picked)
           query == wmsParameters(RequestParameters(operation, text[c], picked), operation,
                      descriptor[c], isCollectionWithTimeMismatch(geoserverName(descriptor[c])))
           r == [a EXCEPT !.map = f, !.url = getWmsUrl(f), !.query = query]
<1>1. /\ Known(c) /\ picked # Empty /\ f \in FilesFor(picked) /\ f \in Files
      /\ f # NULL /\ files \subseteq Files /\ offset \in Int
  BY NcwmsAssumption DEF Proxy, IInv
<1>2. ClientType(r)
  <2>1. a \in ClientRecord({<<>>})
    BY AskMapType DEF Lines
  <2>2. f \in Map /\ getWmsUrl(f) \in Url
    BY <1>1 DEF Map, Url
  <2>3. /\ DOMAIN query \subseteq {"TIME", "LAYER", "LAYERS", "QUERY_LAYERS"}
        /\ "TIME" \in DOMAIN query => picked # NULL /\ query["TIME"] = picked
    <3> HIDE DEF query
    <3> QED BY QueryType DEF query
  <2>4. "TIME" \in DOMAIN query => query["TIME"] \in Timestamp
    <3> HIDE DEF query
    <3> QED BY <1>1, <2>3, PickableType
  <2>5. ASSUME NEW q, NEW n \in ClientRecord({q}), NEW url \in Url, NEW p
        PROVE  /\ [n EXCEPT !.map = f, !.url = url, !.query = p] \in ClientRecord({p})
               /\ [n EXCEPT !.map = f, !.url = url, !.query = p].query = p
    BY <2>2 DEF ClientRecord
  <2> HIDE DEF a, query
  <2>6. r \in ClientRecord({query}) /\ r.query = query
    BY <2>1, <2>2, <2>5
  <2> HIDE DEF r
  <2> QED BY <2>3, <2>4, <2>6 DEF ClientType
<1>3. /\ r.dates = clients[c].dates /\ r.times = clients[c].times
      /\ r.day = clients[c].day /\ r.removed = clients[c].removed
      /\ r.line = "connecting" /\ r.map = f /\ r.picked = picked
      /\ r.status = NULL /\ r.thredds = NULL
  <2> HIDE DEF query
  <2> QED BY DEF NewClient, Ask, AskMap
<1>4. Move(c, r) /\ UNCHANGED <<server, files>>
  BY DEF Proxy
<1>5. Backed(c, clients[c])
  BY DEF IInv, ClientOK
<1> HIDE DEF r
<1>6. Backed(c, r)
  BY <1>1, <1>3, <1>5 DEF Backed
<1>7. Conversing(r) /\ Honest(r) /\ DatesHaveTimes(r)
  BY <1>1, <1>3, NcwmsAssumption DEF Conversing, Honest, DatesHaveTimes
<1>8. TimesServed(r)
  <2>1. SUFFICES ASSUME picked \notin {NULL, Empty}
                 PROVE  /\ f.time # NULL
                        /\ f.time = Literal(picked.day * MsPerDay + picked.time)
    BY <1>3 DEF TimesServed
  <2>2. f.time = Literal(picked.day * MsPerDay + picked.time)
    BY <1>1, <2>1 DEF FilesFor, FilterForTimestamp
  <2>3. picked.day \in Int /\ picked.time \in Int
    BY <2>1, PickableType DEF Timestamp
  <2>4. Literal(picked.day * MsPerDay + picked.time) \in Int
    BY <1>1, <2>3, NcwmsAssumption DEF Literal
  <2> QED BY <2>2, <2>4, NcwmsAssumption
<1>9. NotBeforeListed(r)
  <2>1. SUFFICES ASSUME picked = NULL, ~clients[c].removed, f.time # NULL,
                        NEW date \in clients[c].dates
                 PROVE  DayOf(date) <= LocalDay(f.time)
    BY <1>3 DEF NotBeforeListed
  <2>2. PICK g \in files : g.time # NULL /\ date = DateOf(g.time)
    BY <1>5, <2>1 DEF Backed
  <2>3. g.time <= f.time
    BY <1>1, <2>1, <2>2 DEF FilesFor
  <2>4. g.time \in Nat /\ f.time \in Nat
    BY <1>1, <2>1, <2>2, NcwmsAssumption
  <2>5. DayOf(date) = LocalDay(g.time)
    BY <1>1, <2>2, <2>4, DateRoundTrip
  <2>6. LocalDay(g.time) <= LocalDay(f.time)
    <3>1. /\ Ms(g.time) \in Int /\ Ms(f.time) \in Int /\ Ms(g.time) <= Ms(f.time)
      <4>1. Ms(g.time) <= Ms(f.time)
        <5>1. ASSUME NEW x \in Int, NEW y \in Int, x <= y
              PROVE  x \div TicksPerMs <= y \div TicksPerMs
          BY <5>1, NcwmsAssumption, DivMono
        <5>2. g.time \in Int /\ f.time \in Int
          BY <2>4
        <5> QED BY <2>3, <5>1, <5>2 DEF Ms
      <4> QED BY <1>1, <2>4, <4>1, Local
    <3>2. /\ Ms(g.time) + offset \in Int /\ Ms(f.time) + offset \in Int
          /\ Ms(g.time) + offset <= Ms(f.time) + offset
      BY <1>1, <3>1
    <3> QED BY <3>2, NcwmsAssumption, DivMono DEF LocalDay
  <2> QED BY <2>5, <2>6
<1>10. ClientOK(c, r)
  BY <1>2, <1>6, <1>7, <1>8, <1>9 DEF ClientOK
<1> QED BY <1>4, <1>10, MoveOK

(* A request that ends without a map.                                      *)
LEMMA MapEndsOK ==
  ASSUME IInv, NEW c \in Clients, NEW operation \in Operations,
         NEW picked \in Pickable(c), NEW status \in {500, Report},
         MapEnds(c, operation, picked, status),
         picked \notin {NULL, Empty} /\ offset = 0 /\ WholeMs /\ ~clients[c].removed
           => \E f \in files : f.url = NULL
  PROVE  IInv'
<1> DEFINE a == AskMap(c, "failed", operation, picked)
           r == [a EXCEPT !.status = status]
<1>1. ClientType(r)
  <2>1. a \in ClientRecord({<<>>})
    BY AskMapType DEF Lines
  <2>2. ASSUME NEW q, NEW n \in ClientRecord({q})
        PROVE  [n EXCEPT !.status = status] \in ClientRecord({q})
    <3>1. status \in Status
      BY DEF Status
    <3> QED BY <3>1 DEF ClientRecord
  <2> HIDE DEF a
  <2> QED BY <2>1, <2>2, EmptyQuery
<1>2. /\ r.dates = clients[c].dates /\ r.times = clients[c].times
      /\ r.day = clients[c].day /\ r.removed = clients[c].removed
      /\ r.line = "failed" /\ r.map = NULL /\ r.picked = picked
      /\ r.status = status /\ r.thredds = NULL
  BY DEF NewClient, Ask, AskMap
<1>3. Move(c, r) /\ UNCHANGED <<server, files>>
  BY DEF MapEnds
<1> HIDE DEF r
<1>4. Backed(c, r)
  BY <1>2 DEF Backed, IInv, ClientOK
<1>5. Conversing(r) /\ Honest(r) /\ DatesHaveTimes(r) /\ NotBeforeListed(r)
  BY <1>2, NcwmsAssumption DEF Conversing, Honest, DatesHaveTimes, NotBeforeListed
<1>6. TimesServed(r)
  BY <1>2 DEF TimesServed
<1>7. ClientOK(c, r)
  BY <1>1, <1>4, <1>5, <1>6 DEF ClientOK
<1> QED BY <1>3, <1>7, MoveOK

(* No map: the client was not listed the time, or the file is gone or has  *)
(* no URL.                                                                 *)
LEMMA FailMapOK ==
  ASSUME IInv, NEW c \in Clients, NEW operation \in Operations,
         NEW picked \in Pickable(c),
         FailMap(c, operation, picked) \/ MapThrows(c, operation, picked)
  PROVE  IInv'
<1>1. PICK status \in {500, Report} : MapEnds(c, operation, picked, status)
  BY DEF FailMap, MapThrows
<1>2. ASSUME picked \notin {NULL, Empty}, offset = 0, WholeMs, ~clients[c].removed
      PROVE  \E f \in files : f.url = NULL
  <2>1. Known(c) /\ FilesFor(picked) # {}
    BY <1>2, ListedTimeHasFile
  <2>2. PICK f \in FilesFor(picked) : f.url = NULL
    BY <1>2, <2>1 DEF FailMap, MapThrows
  <2> QED BY <1>2, <2>2 DEF FilesFor
<1> QED BY <1>1, <1>2, MapEndsOK

(* The conversation with thredds only changes the line and the status.     *)
LEMMA EndOK ==
  ASSUME IInv, NEW c \in Clients, NEW line \in {"relaying", "map", "cut", "failed"},
         NEW status \in Status, NEW thredds \in Answer,
         End(c, line, status, thredds), UNCHANGED <<server, files>>,
         clients[c].line \in {"connecting", "relaying"},
         line \in {"relaying", "map", "cut"} => status = 200,
         status = 200 => thredds = 200, status = Refusal => thredds = Refusal
  PROVE  IInv'
<1>0. PICK r : r = [clients[c] EXCEPT !.line = line, !.status = status, !.thredds = thredds]
  OBVIOUS
<1>1. ClientOK(c, clients[c]) /\ line \in Lines
  BY DEF IInv, Lines
<1>2. ClientType(r) /\ r.line = line /\ r.status = status /\ r.thredds = thredds
      /\ r.dates = clients[c].dates /\ r.times = clients[c].times
      /\ r.day = clients[c].day /\ r.removed = clients[c].removed
      /\ r.map = clients[c].map /\ r.picked = clients[c].picked
  <2>1. ASSUME NEW q, NEW n \in ClientRecord({q})
        PROVE  LET m == [n EXCEPT !.line = line, !.status = status, !.thredds = thredds]
               IN  /\ m \in ClientRecord({q}) /\ m.query = n.query
                   /\ m.line = line /\ m.status = status /\ m.thredds = thredds
                   /\ m.dates = n.dates /\ m.times = n.times /\ m.day = n.day
                   /\ m.removed = n.removed /\ m.map = n.map /\ m.picked = n.picked
    BY <1>1, <2>1 DEF ClientRecord
  <2>2. clients[c] \in ClientRecord({clients[c].query})
    BY <1>1 DEF ClientOK, ClientType
  <2>3. r \in ClientRecord({clients[c].query}) /\ r.query = clients[c].query
    BY <1>0, <2>1, <2>2
  <2>4. ClientType(r)
    BY <1>1, <2>3 DEF ClientOK, ClientType
  <2>5. r.line = line /\ r.status = status /\ r.thredds = thredds
    BY <1>0, <2>2 DEF ClientRecord
  <2>6. /\ r.dates = clients[c].dates /\ r.times = clients[c].times
        /\ r.day = clients[c].day /\ r.removed = clients[c].removed
        /\ r.map = clients[c].map /\ r.picked = clients[c].picked
    BY <1>0, <2>2 DEF ClientRecord
  <2> QED BY <2>4, <2>5, <2>6
<1>3. Backed(c, r) /\ NotBeforeListed(r)
  BY <1>1, <1>2 DEF ClientOK, Backed, NotBeforeListed
<1>4. Conversing(r) /\ Honest(r) /\ DatesHaveTimes(r)
  BY <1>1, <1>2 DEF ClientOK, Conversing, Honest, DatesHaveTimes
<1>5. TimesServed(r)
  BY <1>1, <1>2 DEF ClientOK, Conversing, TimesServed
<1>6. ClientOK(c, r)
  BY <1>2, <1>3, <1>4, <1>5 DEF ClientOK
<1> QED BY <1>6, <1>0, MoveOK DEF End

-----------------------------------------------------------------------------
(* Every step *)

LEMMA ClientStepOK ==
  ASSUME IInv, NEW c \in Clients, ClientStep(c)
  PROVE  IInv'
<1>1. CASE \E f \in files : AskDetails(c, f)
  BY <1>1, NewClientOK, MoveOK DEF AskDetails
<1>2. CASE AskDetailsFails(c)
  BY <1>2, NewClientOK, MoveOK DEF AskDetailsFails
<1>3. CASE DetailsFail(c)
  BY <1>3, NewClientOK, MoveOK DEF DetailsFail
<1>4. CASE AnswerDetails(c)
  BY <1>4, AnswerDetailsOK
<1>5. CASE \E date \in clients[c].dates : AskTimes(c, date)
  BY <1>5, AskTimesOK
<1>6. CASE \E operation \in Operations, picked \in Pickable(c) :
             \/ FailMap(c, operation, picked) \/ MapThrows(c, operation, picked)
             \/ \E f \in files : Proxy(c, operation, picked, f)
  BY <1>6, FailMapOK, ProxyOK
<1> Status = {NULL, 200, 500, Refusal, Report} /\ Answer = {NULL, 200, Refusal}
  BY DEF Status, Answer
<1>7. CASE ConnectFails(c)
  <2>1. End(c, "failed", 500, NULL) /\ UNCHANGED <<server, files>>
        /\ clients[c].line = "connecting"
    BY <1>7 DEF ConnectFails
  <2> QED BY <2>1, EndOK, NcwmsAssumption
<1>8. CASE Refused(c)
  <2>1. End(c, "failed", Refusal, Refusal) /\ UNCHANGED <<server, files>>
        /\ clients[c].line = "connecting"
    BY <1>8 DEF Refused
  <2> QED BY <2>1, EndOK, NcwmsAssumption
<1>9. CASE Connect(c)
  <2>1. End(c, "relaying", 200, 200) /\ UNCHANGED <<server, files>>
        /\ clients[c].line = "connecting"
    BY <1>9 DEF Connect
  <2> QED BY <2>1, EndOK, NcwmsAssumption
<1>10. ASSUME clients[c].line = "relaying" PROVE clients[c].thredds = 200
  BY <1>10 DEF IInv, ClientOK, Conversing
<1>11. CASE Relay(c)
  <2>1. End(c, "map", 200, 200) /\ UNCHANGED <<server, files>>
        /\ clients[c].line = "relaying"
    BY <1>10, <1>11 DEF Relay
  <2> QED BY <2>1, EndOK, NcwmsAssumption
<1>12. CASE BreakOff(c)
  <2>1. /\ End(c, "failed", 500, 200) \/ End(c, "cut", 200, 200)
        /\ UNCHANGED <<server, files>> /\ clients[c].line = "relaying"
    BY <1>10, <1>12 DEF BreakOff
  <2>2. CASE End(c, "failed", 500, 200)
    BY <2>1, <2>2, EndOK, NcwmsAssumption
  <2>3. CASE End(c, "cut", 200, 200)
    BY <2>1, <2>3, EndOK, NcwmsAssumption
  <2> QED BY <2>1, <2>2, <2>3
<1> QED BY <1>1, <1>2, <1>3, <1>4, <1>5, <1>6, <1>7, <1>8, <1>9, <1>11, <1>12
        DEF ClientStep

(* A new file takes nothing from what was listed.                          *)
LEMMA AddFileOK ==
  ASSUME IInv, NEW f \in Files, AddFile(f)
  PROVE  IInv'
<1>1. /\ files' \in SUBSET Files /\ files \subseteq files' /\ clients' = clients
      /\ UNCHANGED server
  BY DEF IInv, AddFile
<1>2. ASSUME NEW c \in Clients, NEW q, ClientOK(c, q) PROVE ClientOK(c, q)'
  <2>1. ClientType(q)'
    BY <1>1, <1>2 DEF ClientOK, ClientType, ClientRecord, Url, getWmsUrl, server
  <2>2. Backed(c, q)'
    BY <1>1, <1>2
    DEF ClientOK, Backed, Known, Indexed, server, DateOf, LocalDay, LocalTime,
        FilterForSameDay, Literal
  <2>3. Conversing(q)' /\ DatesHaveTimes(q)' /\ Honest(q)'
    BY <1>1, <1>2 DEF ClientOK, Conversing, DatesHaveTimes, Honest, server
  <2>4. TimesServed(q)' /\ NotBeforeListed(q)'
    BY <1>1, <1>2 DEF ClientOK, TimesServed, NotBeforeListed, WholeMs, LocalDay, Literal, server
  <2> QED BY <2>1, <2>2, <2>3, <2>4 DEF ClientOK
<1> QED BY <1>1, <1>2 DEF IInv, server

(* What is removed is noted.                                               *)
LEMMA RemoveFileOK ==
  ASSUME IInv, NEW f \in Files, RemoveFile(f)
  PROVE  IInv'
<1>1. /\ files' \in SUBSET Files /\ UNCHANGED server
      /\ clients' = [c \in Clients |-> [clients[c] EXCEPT !.removed = TRUE]]
  BY DEF IInv, RemoveFile
<1>2. ASSUME NEW c \in Clients, NEW r, r = [clients[c] EXCEPT !.removed = TRUE]
      PROVE  ClientOK(c, clients[c])'
  <2>1. clients[c]' = r /\ ClientOK(c, clients[c])
    BY <1>1, <1>2 DEF IInv
  <2>2. /\ ClientType(r) /\ r.removed = TRUE
        /\ r.line = clients[c].line /\ r.status = clients[c].status
        /\ r.thredds = clients[c].thredds /\ r.dates = clients[c].dates
        /\ r.times = clients[c].times /\ r.day = clients[c].day
        /\ r.map = clients[c].map /\ r.picked = clients[c].picked
    <3>1. ASSUME NEW q, NEW n \in ClientRecord({q})
          PROVE  LET m == [n EXCEPT !.removed = TRUE]
                 IN  /\ m \in ClientRecord({q}) /\ m.query = n.query /\ m.removed = TRUE
                     /\ m.line = n.line /\ m.status = n.status /\ m.thredds = n.thredds
                     /\ m.dates = n.dates /\ m.times = n.times /\ m.day = n.day
                     /\ m.map = n.map /\ m.picked = n.picked
      BY <3>1 DEF ClientRecord
    <3>2. clients[c] \in ClientRecord({clients[c].query})
      BY <2>1 DEF ClientOK, ClientType
    <3>3. r \in ClientRecord({clients[c].query}) /\ r.query = clients[c].query
      BY <1>2, <3>1, <3>2
    <3>4. ClientType(r)
      BY <2>1, <3>3 DEF ClientOK, ClientType
    <3> QED BY <1>2, <3>1, <3>2, <3>4
  <2>3. ClientType(r)'
    BY <1>1, <2>2 DEF ClientType, ClientRecord, Url, getWmsUrl, server
  <2>4. Backed(c, r)'
    BY <1>1, <2>1, <2>2 DEF ClientOK, Backed, Known, Indexed, server
  <2>5. Conversing(r)' /\ DatesHaveTimes(r)' /\ Honest(r)'
    BY <1>1, <2>1, <2>2 DEF ClientOK, Conversing, DatesHaveTimes, Honest, server
  <2>6. TimesServed(r)' /\ NotBeforeListed(r)'
    BY <1>1, <2>1, <2>2 DEF ClientOK, TimesServed, NotBeforeListed, Literal, LocalDay, server
  <2> QED BY <2>1, <2>3, <2>4, <2>5, <2>6 DEF ClientOK
<1> QED BY <1>1, <1>2 DEF IInv, server

(* IInv is inductive.                                                      *)
LEMMA Invariant == Spec => []IInv
<1>1. Init => IInv
  <2> SUFFICES ASSUME Init PROVE IInv
    OBVIOUS
  <2>1. offset \in Int /\ files \in SUBSET Files /\ DOMAIN clients = Clients
    BY NcwmsAssumption DEF Init
  <2>2. NewClient = [NewClient EXCEPT !.line = "idle"]
    <3>1. ASSUME NEW q, NEW n \in ClientRecord({q}), n.line = "idle"
          PROVE  n = [n EXCEPT !.line = "idle"]
      BY <3>1 DEF ClientRecord
    <3>2. NewClient.line = "idle"
      BY DEF NewClient
    <3> QED BY <3>1, <3>2, NewClientFields
  <2>3. ASSUME NEW c \in Clients PROVE ClientOK(c, clients[c])
    BY <2>2, NewClientOK DEF Init
  <2> QED BY <2>1, <2>3 DEF IInv
<1>2. IInv /\ [Next]_vars => IInv'
  <2> SUFFICES ASSUME IInv, [Next]_vars PROVE IInv'
    OBVIOUS
  <2>1. CASE \E c \in Clients : ClientStep(c)
    BY <2>1, ClientStepOK
  <2>2. CASE \E f \in Files : AddFile(f) \/ RemoveFile(f)
    BY <2>2, AddFileOK, RemoveFileOK
  <2>3. CASE UNCHANGED vars
    <3>1. UNCHANGED <<server, files, clients>>
      BY <2>3 DEF vars
    <3>2. offset' = offset /\ substitutions' = substitutions /\ keys' = keys
          /\ text' = text /\ descriptor' = descriptor
      BY <3>1 DEF server
    <3> QED BY <3>1, <3>2
        DEF IInv, ClientOK, ClientType, ClientRecord, Url, getWmsUrl, Backed, Known,
            Indexed, DateOf, LocalDay, LocalTime, FilterForSameDay, Literal, Conversing, DatesHaveTimes,
            Honest, TimesServed, NotBeforeListed, WholeMs
  <2> QED BY <2>1, <2>2, <2>3 DEF Next
<1> QED BY <1>1, <1>2, PTL DEF Spec

(* Every variable keeps its type.                                          *)
THEOREM TypeCorrect == Spec => []TypeOK
<1>1. IInv => TypeOK
  BY DEF IInv, ClientOK, TypeOK
<1> QED BY <1>1, Invariant, PTL

(* In UTC a date that was listed has times, for any calendar, length of a  *)
(* day and resolution of the index.                                        *)
THEOREM ListedDatesAlwaysHaveTimes == Spec => []ListedDatesHaveTimes
<1>1. IInv => ListedDatesHaveTimes
  BY DEF IInv, ClientOK, DatesHaveTimes, ListedDatesHaveTimes
<1> QED BY <1>1, Invariant, PTL

(* In UTC and with whole milliseconds a time that was listed has its map.  *)
THEOREM ListedTimesAlwaysServed == Spec => []ListedTimesServed
<1>1. IInv => ListedTimesServed
  <2>1. SUFFICES ASSUME IInv, NEW c \in Clients, offset = 0, WholeMs,
                        clients[c].picked \notin {NULL, Empty}
                 PROVE  LET this == clients[c]
                        IN  /\ this.line = "failed" /\ this.map = NULL =>
                                 this.removed \/ \E f \in files : f.url = NULL
                            /\ this.map # NULL =>
                                 /\ this.map.time # NULL
                                 /\ this.map.time =
                                      (this.picked.day * MsPerDay + this.picked.time)
                                        * TicksPerMs
    BY DEF ListedTimesServed
  <2>2. TimesServed(clients[c])
    BY <2>1 DEF IInv, ClientOK
  <2>3. clients[c].picked \in Timestamp
    BY <2>1 DEF IInv, ClientOK, ClientType, ClientRecord, Picked
  <2>4. clients[c].picked.day * MsPerDay + clients[c].picked.time \in Int
    BY <2>3, NcwmsAssumption DEF Timestamp
  <2> QED BY <2>1, <2>2, <2>4, LiteralInUTC DEF TimesServed
<1> QED BY <1>1, Invariant, PTL

(* The map without a time is not before what the client was listed.        *)
THEOREM LatestNeverBeforeListed == Spec => []LatestNotBeforeListed
<1>1. IInv => LatestNotBeforeListed
  BY DEF IInv, ClientOK, NotBeforeListed, LatestNotBeforeListed
<1> QED BY <1>1, Invariant, PTL

(* A client that is answered 200 is given what thredds answered with 200.  *)
THEOREM StatusAlwaysThredds == Spec => []StatusIsThredds
<1>1. IInv => StatusIsThredds
  BY DEF IInv, ClientOK, Honest, StatusIsThredds
<1> QED BY <1>1, Invariant, PTL

-----------------------------------------------------------------------------
(* What thredds is asked *)

(* A non-empty set of numbers in 0..n has a least element.                 *)
LEMMA FirstWrong ==
  ASSUME NEW n \in Nat, NEW T \in SUBSET (0..n), T # {}
  PROVE  \E i \in T : \A j \in T : i <= j
<1>1. T \subseteq Nat
  OBVIOUS
<1>2. PICK i \in T : \A j \in T : ~(<<j, i>> \in OpToRel(<, Nat))
  BY <1>1, WFMin, NatLessThanWellFounded, Zenon
<1>3. \A j \in T : ~(j < i)
  BY <1>1, <1>2 DEF OpToRel
<1> QED
  BY <1>1, <1>3

(* The HashMap has every key once.                                         *)
LEMMA KeysInOrder ==
  ASSUME NEW S, IsFiniteSet(S), NEW order \in SetToSeqs(S)
  PROVE  /\ order \in Seq(S) /\ Len(order) \in Nat
         /\ \A i, j \in 1..Len(order) : order[i] = order[j] => i = j
         /\ \A key \in S : \E i \in 1..Len(order) : order[i] = key
<1> DEFINE n == Cardinality(S)
<1>1. n \in Nat
  BY FS_CardinalityType
<1>2. order \in [1..n -> S] /\ \A i, j \in 1..n : i # j => order[i] # order[j]
  BY DEF SetToSeqs
<1>3. order \in Seq(S) /\ Len(order) = n
  <2> HIDE DEF n
  <2> QED BY <1>1, <1>2
<1>4. IsFiniteSet(1..n) /\ Cardinality(1..n) = n
  BY <1>1, FS_Interval
<1>5. order \in Injection(1..n, S)
  BY <1>2 DEF Injection, IsInjective
<1>6. order \in Surjection(1..n, S)
  BY <1>4, <1>5, FS_Injection
<1> QED
  BY <1>1, <1>2, <1>3, <1>6 DEF Surjection

(* The only substitution for a URL is made, wherever the HashMap has it:   *)
(* until then the URL stays as it is, and afterwards its result does.      *)
LEMMA Mangled ==
  ASSUME NEW url, NEW subs, IsFiniteSet(DOMAIN subs),
         NEW order \in SetToSeqs(DOMAIN subs), NEW key \in DOMAIN subs,
         NEW result, result = replaceAll(url, key, subs[key]),
         \A k \in DOMAIN subs \ {key} :
           replaceAll(url, k, subs[k]) = url /\ replaceAll(result, k, subs[k]) = result
  PROVE  mangleUrl(url, subs, order) = result
<1> DEFINE n == Len(order)
           Goes(f) == [i \in 0..n |->
                         IF i = 0 THEN url
                         ELSE replaceAll(f[i - 1], order[i], subs[order[i]])]
           after == CHOOSE f : f = Goes(f)
<1>1. mangleUrl(url, subs, order) = after[n]
  BY DEF mangleUrl
<1>2. /\ n \in Nat /\ \A i \in 1..n : order[i] \in DOMAIN subs
      /\ \A i, j \in 1..n : order[i] = order[j] => i = j
  BY KeysInOrder, ElementOfSeq
<1>3. PICK p \in 1..n : order[p] = key
  BY KeysInOrder
<1> DEFINE g == [i \in 0..n |-> IF i < p THEN url ELSE result]
<1> HIDE DEF n
<1>4. ASSUME NEW i \in 1..n
      PROVE  g[i] = replaceAll(g[i - 1], order[i], subs[order[i]])
  <2>1. i - 1 \in 0..n /\ i \in 0..n
    BY <1>2
  <2>2. CASE i < p
    <3>1. g[i] = url /\ g[i - 1] = url /\ order[i] \in DOMAIN subs \ {key}
      BY <1>2, <1>3, <2>1, <2>2
    <3> QED BY <3>1
  <2>3. CASE i = p
    <3>1. g[i] = result /\ g[i - 1] = url
      BY <1>2, <1>3, <2>1, <2>3
    <3> QED BY <1>3, <2>3, <3>1
  <2>4. CASE i > p
    <3>1. g[i] = result /\ g[i - 1] = result /\ order[i] \in DOMAIN subs \ {key}
      BY <1>2, <1>3, <2>1, <2>4
    <3> QED BY <3>1
  <2> QED BY <1>2, <2>2, <2>3, <2>4
<1>5. g = Goes(g)
  <2>1. g[0] = url /\ \A i \in 0..n : i # 0 => i \in 1..n
    BY <1>2, <1>3
  <2>2. \A i \in 0..n : g[i] = Goes(g)[i]
    <3> HIDE DEF g
    <3> QED BY <1>4, <2>1
  <2> QED BY <2>2
<1>6. after = Goes(after)
  <2> HIDE DEF g, Goes
  <2> QED BY <1>5
<1>7. /\ after[0] = url
      /\ \A i \in 1..n : after[i] = replaceAll(after[i - 1], order[i], subs[order[i]])
  <2> HIDE DEF after
  <2>1. \A i \in 0..n : after[i] = Goes(after)[i]
    BY <1>6, Zenon
  <2>2. 0 \in 0..n /\ \A i \in 1..n : i \in 0..n /\ i # 0
    BY <1>2
  <2> QED BY <2>1, <2>2
<1> HIDE DEF after
<1>8. ASSUME {i \in 0..n : after[i] # g[i]} # {}
      PROVE  FALSE
  <2> DEFINE T == {i \in 0..n : after[i] # g[i]}
  <2>1. PICK i \in T : \A j \in T : i <= j
    <3>1. T \in SUBSET (0..n)
      OBVIOUS
    <3> HIDE DEF T
    <3> QED BY <1>2, <1>8, <3>1, FirstWrong DEF T
  <2>2. g[0] = url
    BY <1>2, <1>3
  <2>3. i \in 1..n /\ i - 1 \in 0..n /\ ~(i <= i - 1)
    <3>1. i \in 0..n /\ i # 0
      BY <1>7, <2>1, <2>2
    <3> QED BY <1>2, <3>1
  <2>4. after[i - 1] = g[i - 1]
    BY <2>1, <2>3
  <2> HIDE DEF g
  <2> QED BY <1>4, <1>7, <2>1, <2>3, <2>4
<1>9. after[n] = result
  <2>1. after[n] = g[n]
    BY <1>2, <1>8
  <2> QED BY <1>2, <1>3, <2>1
<1> QED BY <1>1, <1>9

(* The parameters that thredds is sent: the variable under every name of   *)
(* a layer, and the time unless it is dropped.                             *)
LEMMA QueryFacts ==
  ASSUME NEW operation, NEW t, NEW time, NEW d, NEW mismatch, NEW q,
         q = wmsParameters(RequestParameters(operation, t, time), operation, d, mismatch)
  PROVE  /\ \A name \in DOMAIN q \ {"TIME"} : q[name] = d.netCDFVariable
         /\ "TIME" \in DOMAIN q <=> time # NULL /\ ~mismatch
         /\ "TIME" \in DOMAIN q => q["TIME"] = time
<1> DEFINE p == RequestParameters(operation, t, time)
           L == layerParameter(operation)
<1>1. L \in {"LAYER", "LAYERS"}
  BY DEF layerParameter
<1>2. /\ DOMAIN p \subseteq {"TIME", L, "QUERY_LAYERS"}
      /\ "TIME" \in DOMAIN p <=> time # NULL
  BY <1>1 DEF RequestParameters
<1> HIDE DEF p, L
<1>3. q = [name \in (DOMAIN p \ (IF mismatch THEN {"TIME"} ELSE {})) \cup {L} |->
             IF name \in {L, "QUERY_LAYERS"} THEN d.netCDFVariable ELSE p[name]]
  BY DEF wmsParameters, p, L
<1>4. DOMAIN q = (DOMAIN p \ (IF mismatch THEN {"TIME"} ELSE {})) \cup {L}
  BY <1>3
<1>5. "TIME" \in DOMAIN q <=> time # NULL /\ ~mismatch
  BY <1>1, <1>2, <1>4
<1>6. \A name \in DOMAIN q \ {"TIME"} : name \in {L, "QUERY_LAYERS"}
  BY <1>2, <1>4
<1>7. \A name \in DOMAIN q \ {"TIME"} : q[name] = d.netCDFVariable
  BY <1>3, <1>4, <1>6
<1> QED BY <1>5, <1>7, QueryType

(* What a client has thredds asked.                                        *)
Query(c, operation, picked) ==
  wmsParameters(RequestParameters(operation, text[c], picked), operation, descriptor[c],
    isCollectionWithTimeMismatch(geoserverName(descriptor[c])))

Sent(c, this) ==
  this.query # <<>> =>
    /\ this.map.url # NULL /\ this.url = getWmsUrl(this.map)
    /\ \E operation \in Operations : this.query = Query(c, operation, this.picked)

SentInv ==
  /\ text \in [Clients -> Texts] /\ \A c \in Clients : descriptor[c] = Parsed(text[c])
  /\ IsFiniteSet(DOMAIN substitutions) /\ keys \in SetToSeqs(DOMAIN substitutions)
  /\ \A c \in Clients : Sent(c, clients[c])

LEMMA SentInit ==
  ASSUME Init PROVE SentInv
<1>1. PICK s \in Servers : /\ substitutions = ConfigMap(s.elements)
                           /\ keys \in SetToSeqs(DOMAIN substitutions)
  BY DEF Init
<1>2. IsFiniteSet(DOMAIN substitutions)
  <2> DEFINE e == s.elements
  <2>1. IsFiniteSet(DOMAIN e)
    BY NcwmsAssumption
  <2>2. DOMAIN substitutions = {e[i].key : i \in DOMAIN e}
    BY <1>1 DEF ConfigMap
  <2>3. IsFiniteSet({e[i].key : i \in DOMAIN e})
    <3> HIDE DEF e
    <3> DEFINE f == [i \in DOMAIN e |-> e[i].key]
    <3>1. f \in Surjection(DOMAIN e, {e[i].key : i \in DOMAIN e})
      BY DEF Surjection
    <3> HIDE DEF f
    <3> QED BY <2>1, <3>1, FS_Surjection
  <2> QED BY <2>2, <2>3
<1>3. \A c \in Clients : clients[c].query = <<>>
  BY NewClientFields DEF Init
<1> QED BY <1>1, <1>2, <1>3 DEF Init, SentInv, Sent

LEMMA SentStays ==
  ASSUME NEW c, NEW r, Sent(c, r), UNCHANGED server
  PROVE  Sent(c, r)'
  BY DEF Sent, server, getWmsUrl, Query

LEMMA SentMove ==
  ASSUME IInv, SentInv, NEW c \in Clients, NEW r, Sent(c, r), Move(c, r),
         UNCHANGED <<server, files>>
  PROVE  SentInv'
<1>1. UNCHANGED server
  OBVIOUS
<1>2. ASSUME NEW d \in Clients PROVE Sent(d, clients[d])'
  <2>1. PICK q : q = clients'[d] /\ Sent(d, q)
    BY DEF IInv, SentInv, Move
  <2>2. Sent(d, q)'
    BY <1>1, <2>1, SentStays
  <2> QED BY <2>1, <2>2 DEF Sent
<1> QED BY <1>1, <1>2 DEF SentInv, server

LEMMA AnewSends ==
  ASSUME IInv, SentInv, NEW c \in Clients, NEW r, r.query = <<>>, Move(c, r),
         UNCHANGED <<server, files>>
  PROVE  SentInv'
  BY SentMove DEF Sent

LEMMA ProxySends ==
  ASSUME IInv, SentInv, NEW c \in Clients, NEW operation \in Operations,
         NEW picked \in Pickable(c), NEW f \in files, Proxy(c, operation, picked, f)
  PROVE  SentInv'
<1> DEFINE a == AskMap(c, "connecting", operation, picked)
           query == Query(c, operation, picked)
           r == [a EXCEPT !.map = f, !.url = getWmsUrl(f), !.query = query]
<1>1. Move(c, r) /\ UNCHANGED <<server, files>> /\ f.url # NULL
  BY DEF Proxy, Query
<1>2. r.query = query /\ r.map = f /\ r.url = getWmsUrl(f) /\ r.picked = picked
  <2> HIDE DEF query
  <2> QED BY DEF NewClient, Ask, AskMap
<1> HIDE DEF r
<1>3. Sent(c, r)
  BY <1>1, <1>2 DEF Sent
<1> QED BY <1>1, <1>3, SentMove

LEMMA EndSends ==
  ASSUME IInv, SentInv, NEW c \in Clients, NEW line, NEW status, NEW thredds,
         End(c, line, status, thredds), UNCHANGED <<server, files>>
  PROVE  SentInv'
<1> DEFINE this == clients[c]
           r == [this EXCEPT !.line = line, !.status = status, !.thredds = thredds]
<1>1. this \in ClientRecord({this.query})
  BY DEF IInv, ClientOK, ClientType
<1>2. r.query = this.query /\ r.map = this.map /\ r.url = this.url /\ r.picked = this.picked
  BY <1>1 DEF ClientRecord
<1>3. Move(c, r) /\ Sent(c, this)
  BY DEF End, SentInv
<1> HIDE DEF r
<1>4. Sent(c, r)
  BY <1>2, <1>3 DEF Sent
<1> QED BY <1>3, <1>4, SentMove

LEMMA ClientSends ==
  ASSUME IInv, SentInv, NEW c \in Clients, ClientStep(c)
  PROVE  SentInv'
<1>1. \A line : [NewClient EXCEPT !.line = line].query = <<>>
  BY DEF NewClient
<1>2. CASE \/ \E f \in files : AskDetails(c, f)
           \/ AskDetailsFails(c) \/ DetailsFail(c)
  BY <1>1, <1>2, AnewSends DEF AskDetails, AskDetailsFails, DetailsFail
<1>3. CASE AnswerDetails(c)
  <2> DEFINE r == [NewClient EXCEPT !.line = "dates",
                     !.dates = {DateOf(f.time) : f \in {g \in files : g.time # NULL}}]
  <2>1. r.query = <<>>
    BY DEF NewClient
  <2> HIDE DEF r
  <2> QED BY <1>3, <2>1, AnewSends DEF AnswerDetails, r
<1>4. ASSUME NEW date \in clients[c].dates, AskTimes(c, date) PROVE SentInv'
  <2> DEFINE day == DayOf(date)
             r == [Ask(c, "times") EXCEPT !.day = day,
                     !.times = {LocalTime(f.time) :
                                  f \in {g \in files : FilterForSameDay(day, g)}}]
  <2>1. r.query = <<>>
    BY DEF Ask, NewClient
  <2>2. Move(c, r) /\ UNCHANGED <<server, files>>
    BY <1>4 DEF AskTimes
  <2> HIDE DEF r
  <2> QED BY <2>1, <2>2, AnewSends
<1>5. ASSUME NEW operation \in Operations, NEW picked \in Pickable(c), NEW status,
             MapEnds(c, operation, picked, status)
      PROVE  SentInv'
  <2> DEFINE r == [AskMap(c, "failed", operation, picked) EXCEPT !.status = status]
  <2>1. r.query = <<>>
    BY DEF AskMap, Ask, NewClient
  <2> HIDE DEF r
  <2> QED BY <1>5, <2>1, AnewSends DEF MapEnds, r
<1>6. CASE ConnectFails(c) \/ Refused(c) \/ Connect(c) \/ Relay(c) \/ BreakOff(c)
  BY <1>6, EndSends DEF ConnectFails, Refused, Connect, Relay, BreakOff
<1> QED BY <1>2, <1>3, <1>4, <1>5, <1>6, ProxySends DEF ClientStep, FailMap, MapThrows

LEMMA SentNext ==
  ASSUME IInv, SentInv, [Next]_vars
  PROVE  SentInv'
<1>1. ASSUME NEW f, AddFile(f) PROVE SentInv'
  <2>1. UNCHANGED server /\ clients' = clients
    BY <1>1 DEF AddFile
  <2> QED BY <2>1 DEF SentInv, Sent, server, getWmsUrl, Query
<1>2. ASSUME NEW f, RemoveFile(f) PROVE SentInv'
  <2>1. /\ UNCHANGED server
        /\ clients' = [c \in Clients |-> [clients[c] EXCEPT !.removed = TRUE]]
    BY <1>2 DEF RemoveFile
  <2>2. ASSUME NEW c \in Clients PROVE Sent(c, clients[c])'
    <3>1. clients[c] \in ClientRecord({clients[c].query})
      BY DEF IInv, ClientOK, ClientType
    <3>2. PICK r : r = [clients[c] EXCEPT !.removed = TRUE]
      OBVIOUS
    <3>3. /\ r.query = clients[c].query /\ r.map = clients[c].map
          /\ r.url = clients[c].url /\ r.picked = clients[c].picked
      BY <3>1, <3>2 DEF ClientRecord
    <3>4. Sent(c, r)
      BY <3>3 DEF SentInv, Sent
    <3>5. Sent(c, r)' /\ clients'[c] = r
      BY <2>1, <3>2, <3>4, SentStays
    <3> QED BY <3>5 DEF Sent
  <2> QED BY <2>1, <2>2 DEF SentInv, server
<1>3. CASE UNCHANGED vars
  <2>1. UNCHANGED server /\ clients' = clients
    BY <1>3 DEF vars
  <2> QED BY <2>1 DEF SentInv, Sent, server, getWmsUrl, Query
<1> QED BY <1>1, <1>2, <1>3, ClientSends DEF Next

-----------------------------------------------------------------------------
(* Descriptors *)

(* The separator does not occur in the text.                               *)
Lacks(t, separator) == \A i \in DOMAIN t : t[i] # separator

LEMMA SplitWhole ==
  ASSUME NEW t, NEW separator, Lacks(t, separator)
  PROVE  Split(t, separator) = <<t>>
<1>1. {i \in DOMAIN t : t[i] = separator} = {}
  BY DEF Lacks
<1>2. {} \in FiniteNats /\ Cardinality({}) = 0
  BY FS_EmptySet DEF FiniteNats
<1>3. Ascending({}) = <<>>
  BY <1>2, AscendingFacts, EmptySeq
<1> QED
  BY <1>1, <1>3 DEF Split

LEMMA MaxIs ==
  ASSUME NEW S, NEW m \in S, \A i \in S : i \in Int /\ i <= m
  PROVE  Max(S) = m
<1>1. ASSUME NEW x \in S, \A y \in S : x >= y PROVE x = m
  BY <1>1
<1> QED
  BY <1>1 DEF Max

(* One separator, with something behind it.                                *)
LEMMA SplitAt ==
  ASSUME NEW T, NEW t \in Seq(T), NEW separator, NEW k \in 1..(Len(t) - 1),
         \A i \in 1..Len(t) : t[i] = separator <=> i = k
  PROVE  Split(t, separator) = <<SubSeq(t, 1, k - 1), SubSeq(t, k + 1, Len(t))>>
<1> DEFINE n == Len(t)
           a == SubSeq(t, 1, k - 1)
           b == SubSeq(t, k + 1, n)
           positions == {i \in DOMAIN t : t[i] = separator}
           cuts == Ascending(positions)
           start(i) == IF i = 1 THEN 1 ELSE cuts[i - 1] + 1
           end(i) == IF i > Len(cuts) THEN Len(t) ELSE cuts[i] - 1
           parts == [i \in 1..(Len(cuts) + 1) |-> SubSeq(t, start(i), end(i))]
           filled == {i \in DOMAIN parts : parts[i] # <<>>}
           last == Max({0} \cup filled)
<1>1. n \in Nat /\ k \in Nat /\ k >= 1 /\ k < n /\ DOMAIN t = 1..n
  BY LenProperties
<1>2. positions = {k}
  BY <1>1
<1>3. {k} \in FiniteNats /\ Cardinality({k}) = 1
  BY <1>1, FS_Singleton DEF FiniteNats
<1> HIDE DEF positions
<1>4. Len(cuts) = 1 /\ cuts[1] = k /\ cuts # <<>>
  <2>1. Len(cuts) = 1 /\ cuts \in [1..1 -> {k}] /\ cuts \in Seq({k})
    BY <1>2, <1>3, AscendingFacts
  <2>2. cuts[1] = k
    BY <2>1
  <2>3. Len(<<>>) = 0
    BY EmptySeq
  <2>4. Len(cuts) # Len(<<>>)
    BY <2>1, <2>3
  <2>5. cuts # <<>>
    BY <2>4, Zenon
  <2> QED
    BY <2>1, <2>2, <2>5
<1> HIDE DEF cuts
<1>5. parts = <<a, b>>
  <2>1. DOMAIN parts = 1..2
    BY <1>4
  <2>2. parts[1] = a /\ parts[2] = b
    BY <1>1, <1>4
  <2>3. parts = [i \in 1..2 |-> parts[i]]
    BY <1>4
  <2> HIDE DEF parts, a, b
  <2> QED
    BY <2>2, <2>3
<1>6. a \in Seq(T) /\ b \in Seq(T) /\ Len(b) = n - k
  BY <1>1, SubSeqProperties, ElementOfSeq
<1>7. b # <<>>
  <2>1. Len(<<>>) = 0
    BY EmptySeq
  <2> HIDE DEF b
  <2> QED
    BY <1>1, <1>6, <2>1
<1> HIDE DEF parts, a, b
<1>8. DOMAIN parts = 1..2 /\ parts[2] = b
  BY <1>5
<1>9. 2 \in {0} \cup filled /\ \A i \in {0} \cup filled : i \in Int /\ i <= 2
  BY <1>7, <1>8
<1> HIDE DEF filled
<1>10. last = 2
  BY <1>9, MaxIs
<1> HIDE DEF last
<1>11. SubSeq(parts, 1, last) = parts
  <2>1. parts \in Seq(Seq(T)) /\ Len(parts) = 2
    BY <1>5, <1>6
  <2> QED
    BY <1>10, <2>1, SubSeqFull
<1>12. Split(t, separator) = SubSeq(parts, 1, last)
  BY <1>4 DEF Split, cuts, positions, parts, filled, last
<1> QED
  BY <1>5, <1>11, <1>12 DEF a, b

(* Both parts of what a separator joins.                                   *)
LEMMA SplitJoined ==
  ASSUME NEW T, NEW a \in Seq(T), NEW b \in Seq(T), b # <<>>, NEW separator \in T,
         Lacks(a, separator), Lacks(b, separator)
  PROVE  Split((a \o <<separator>>) \o b, separator) = <<a, b>>
<1> DEFINE s == a \o <<separator>>
           t == s \o b
           k == Len(a) + 1
<1>1. /\ Len(a) \in Nat /\ DOMAIN a = 1..Len(a)
      /\ Len(b) \in Nat \ {0} /\ DOMAIN b = 1..Len(b)
  BY LenProperties, EmptySeq
<1>2. <<separator>> \in Seq(T) /\ Len(<<separator>>) = 1
  OBVIOUS
<1>3. /\ s \in Seq(T) /\ Len(s) = k /\ s[k] = separator
      /\ \A i \in 1..Len(a) : s[i] = a[i]
  BY <1>1, <1>2, ConcatProperties
<1> HIDE DEF s
<1>4. /\ t \in Seq(T) /\ Len(t) = k + Len(b)
      /\ \A i \in 1..k : t[i] = s[i]
      /\ \A i \in 1..Len(b) : t[k + i] = b[i]
  <2>1. /\ t \in Seq(T) /\ Len(t) = k + Len(b)
        /\ \A i \in 1..(k + Len(b)) : t[i] = IF i <= k THEN s[i] ELSE b[i - k]
    <3>1. /\ t \in Seq(T) /\ Len(t) = Len(s) + Len(b)
          /\ \A i \in 1..(Len(s) + Len(b)) :
               t[i] = IF i <= Len(s) THEN s[i] ELSE b[i - Len(s)]
      BY <1>3, ConcatProperties
    <3> HIDE DEF t, k
    <3> QED
      BY <1>3, <3>1
  <2> HIDE DEF t
  <2>2. k \in Nat
    BY <1>1
  <2> HIDE DEF k
  <2>3. ASSUME NEW i \in 1..Len(b) PROVE t[k + i] = b[i]
    <3>1. k + i \in 1..(k + Len(b)) /\ ~(k + i <= k) /\ (k + i) - k = i
      BY <1>1, <2>2
    <3> QED
      BY <2>1, <3>1
  <2>4. ASSUME NEW i \in 1..k PROVE t[i] = s[i]
    <3>1. i \in 1..(k + Len(b)) /\ i <= k
      BY <1>1, <2>2
    <3> QED
      BY <2>1, <3>1
  <2> QED
    BY <2>1, <2>3, <2>4
<1> HIDE DEF t
<1>5. k \in 1..(Len(t) - 1) /\ \A i \in 1..Len(t) : t[i] = separator <=> i = k
  <2>1. ASSUME NEW i \in 1..Len(t), i > k PROVE t[i] # separator
    <3>1. i - k \in 1..Len(b) /\ k + (i - k) = i
      BY <1>1, <1>4, <2>1
    <3>2. t[i] = b[i - k]
      BY <1>4, <3>1
    <3> QED
      BY <1>1, <3>1, <3>2 DEF Lacks
  <2>2. ASSUME NEW i \in 1..Len(t), i < k PROVE t[i] # separator
    <3>1. i \in 1..Len(a) /\ i \in 1..k
      BY <1>1, <1>4, <2>2
    <3>2. t[i] = a[i]
      BY <1>3, <1>4, <3>1
    <3> QED
      BY <1>1, <3>1, <3>2 DEF Lacks
  <2>3. k \in 1..k /\ k \in 1..(Len(t) - 1) /\ Len(t) \in Nat
    BY <1>1, <1>4
  <2>4. t[k] = separator
    BY <1>3, <1>4, <2>3
  <2>5. \A i \in 1..Len(t) : i < k \/ i = k \/ i > k
    BY <1>1, <2>3
  <2> QED
    BY <2>1, <2>2, <2>3, <2>4, <2>5
<1>6. Split(t, separator) = <<SubSeq(t, 1, k - 1), SubSeq(t, k + 1, Len(t))>>
  BY <1>4, <1>5, SplitAt
<1>7. SubSeq(t, 1, k - 1) = a
  <2> DEFINE u == SubSeq(t, 1, k - 1)
  <2>1. u \in Seq(T) /\ Len(u) = Len(a) /\ \A i \in 1..Len(a) : u[i] = t[i]
    BY <1>1, <1>4, SubSeqProperties, ElementOfSeq
  <2>2. \A i \in 1..Len(a) : i \in 1..k
    BY <1>1
  <2> HIDE DEF u, k
  <2>3. \A i \in 1..Len(a) : u[i] = a[i]
    BY <1>3, <1>4, <2>1, <2>2
  <2>4. u = a
    BY <2>1, <2>3, SeqEqual
  <2> QED
    BY <2>4 DEF u, k
<1>8. SubSeq(t, k + 1, Len(t)) = b
  <2> DEFINE u == SubSeq(t, k + 1, Len(t))
  <2>1. u \in Seq(T) /\ Len(u) = Len(b) /\ \A i \in 1..Len(b) : u[i] = t[k + i]
    BY <1>1, <1>4, SubSeqProperties, ElementOfSeq
  <2> HIDE DEF u
  <2>2. u = b
    BY <1>1, <1>4, <2>1, SeqEqual
  <2> QED
    BY <2>2 DEF u
<1> QED
  BY <1>6, <1>7, <1>8 DEF t, s

LEMMA LacksNot ==
  ASSUME NEW T, NEW t \in Seq(T), NEW separator, Lacks(t, separator)
  PROVE  ~Contains(t, separator)
<1>1. DOMAIN t = 1..Len(t)
  BY LenProperties
<1> QED
  BY <1>1 DEF Lacks, Contains

LEMMA LacksBoth ==
  ASSUME NEW T, NEW a \in Seq(T), NEW b \in Seq(T), NEW separator,
         Lacks(a, separator), Lacks(b, separator)
  PROVE  a \o b \in Seq(T) /\ Lacks(a \o b, separator)
<1> DEFINE t == a \o b
<1>1. /\ Len(a) \in Nat /\ DOMAIN a = 1..Len(a)
      /\ Len(b) \in Nat /\ DOMAIN b = 1..Len(b)
  BY LenProperties
<1>2. /\ t \in Seq(T) /\ Len(t) = Len(a) + Len(b)
      /\ \A i \in 1..(Len(a) + Len(b)) : t[i] = IF i <= Len(a) THEN a[i] ELSE b[i - Len(a)]
  BY ConcatProperties
<1>3. DOMAIN t = 1..(Len(a) + Len(b))
  BY <1>2, LenProperties
<1> HIDE DEF t
<1>4. ASSUME NEW i \in DOMAIN t PROVE t[i] # separator
  <2>1. CASE i <= Len(a)
    <3>1. i \in DOMAIN a /\ t[i] = a[i]
      BY <1>1, <1>2, <1>3, <1>4, <2>1
    <3> QED BY <3>1 DEF Lacks
  <2>2. CASE ~(i <= Len(a))
    <3>1. i - Len(a) \in DOMAIN b /\ t[i] = b[i - Len(a)]
      BY <1>1, <1>2, <1>3, <1>4, <2>2
    <3> QED BY <3>1 DEF Lacks
  <2> QED BY <2>1, <2>2
<1>5. Lacks(t, separator)
  BY <1>4 DEF Lacks
<1> QED BY <1>2, <1>5 DEF t

LEMMA ContainsMore ==
  ASSUME NEW T, NEW a \in Seq(T), NEW b \in Seq(T), NEW separator, Contains(a, separator)
  PROVE  a \o b \in Seq(T) /\ Contains(a \o b, separator)
<1> DEFINE t == a \o b
<1>1. PICK i \in 1..Len(a) : a[i] = separator
  BY DEF Contains
<1>2. Len(a) \in Nat /\ Len(b) \in Nat
  BY LenProperties
<1>3. /\ t \in Seq(T) /\ Len(t) = Len(a) + Len(b)
      /\ \A j \in 1..(Len(a) + Len(b)) : t[j] = IF j <= Len(a) THEN a[j] ELSE b[j - Len(a)]
  BY ConcatProperties
<1> HIDE DEF t
<1>4. i \in 1..Len(t) /\ t[i] = separator
  BY <1>1, <1>2, <1>3
<1>5. Contains(t, separator)
  BY <1>4 DEF Contains
<1> QED BY <1>3, <1>5 DEF t

LEMMA JoinedContains ==
  ASSUME NEW T, NEW a \in Seq(T), NEW b \in Seq(T), NEW separator \in T
  PROVE  /\ (a \o <<separator>>) \o b \in Seq(T)
         /\ Contains((a \o <<separator>>) \o b, separator)
<1> DEFINE s == a \o <<separator>>
           t == s \o b
           k == Len(a) + 1
<1>1. Len(a) \in Nat /\ Len(b) \in Nat
  BY LenProperties
<1>2. <<separator>> \in Seq(T) /\ Len(<<separator>>) = 1
  OBVIOUS
<1>3. s \in Seq(T) /\ Len(s) = k /\ s[k] = separator
  BY <1>1, <1>2, ConcatProperties
<1> HIDE DEF s
<1>4. /\ t \in Seq(T) /\ Len(t) = Len(s) + Len(b)
      /\ \A i \in 1..(Len(s) + Len(b)) : t[i] = IF i <= Len(s) THEN s[i] ELSE b[i - Len(s)]
  BY <1>3, ConcatProperties
<1> HIDE DEF t
<1>5. k \in 1..Len(t) /\ t[k] = separator
  BY <1>1, <1>3, <1>4
<1>6. Contains(t, separator)
  BY <1>5 DEF Contains
<1> QED BY <1>4, <1>6 DEF t, s

Tokens(t) == {t[i] : i \in DOMAIN t}

(* A word of these tokens.                                                 *)
Worded(w, T) == w \in Seq(T) /\ w # <<>> /\ \A s \in Separators : Lacks(w, s)

LEMMA WordFacts ==
  ASSUME NEW w, IsWord(w), NEW T, Tokens(w) \subseteq T
  PROVE  Worded(w, T)
<1> DEFINE S == Tokens(w) \ Separators
<1>1. w \in Seq(S) /\ w # <<>>
  BY DEF IsWord, Tokens
<1>2. S \subseteq T
  OBVIOUS
<1>3. w \in Seq(T)
  BY <1>1, <1>2, SeqMonotonic, Zenon
<1>4. DOMAIN w = 1..Len(w) /\ \A i \in 1..Len(w) : w[i] \in S
  <2> HIDE DEF S
  <2> QED BY <1>1, LenProperties, ElementOfSeq
<1>5. \A s \in Separators : Lacks(w, s)
  BY <1>4 DEF Lacks
<1> QED BY <1>1, <1>3, <1>5 DEF Worded

IsJoined(t, a, b) == t = a \o b

LEMMA PairParts ==
  ASSUME NEW p, NEW x, NEW y, p = <<x, y>>
  PROVE  p[1] = x /\ p[2] = y /\ Len(p) = 2
  OBVIOUS

(* Texts of a few tokens.                                                  *)
LEMMA OneToken ==
  ASSUME NEW T, NEW a \in T
  PROVE  /\ <<a>> \in Seq(T) /\ <<a>> # <<>>
         /\ \A s : s # a => Lacks(<<a>>, s)
  BY DEF Lacks

LEMMA ThreeTokens ==
  ASSUME NEW T, NEW a \in T, NEW b \in T, NEW c \in T
  PROVE  /\ <<a, b, c>> \in Seq(T) /\ <<a, b, c>> # <<>>
         /\ IsJoined(<<a, b, c>>, <<a>> \o <<b>>, <<c>>)
         /\ \A s : s \notin {a, b, c} => Lacks(<<a, b, c>>, s)
<1> DEFINE u == <<a, b, c>>
           x == <<a>>
           y == <<b>>
           z == <<c>>
           v == x \o y
           w == v \o z
<1>1. /\ u \in Seq(T) /\ Len(u) = 3 /\ u[1] = a /\ u[2] = b /\ u[3] = c /\ u # <<>>
      /\ x \in Seq(T) /\ Len(x) = 1 /\ x[1] = a
      /\ y \in Seq(T) /\ Len(y) = 1 /\ y[1] = b
      /\ z \in Seq(T) /\ Len(z) = 1 /\ z[1] = c
  OBVIOUS
<1>2. \A s : s \notin {a, b, c} => Lacks(<<a, b, c>>, s)
  BY DEF Lacks
<1> HIDE DEF u, x, y, z
<1>3. /\ v \in Seq(T) /\ Len(v) = Len(x) + Len(y)
      /\ \A i \in 1..(Len(x) + Len(y)) : v[i] = IF i <= Len(x) THEN x[i] ELSE y[i - Len(x)]
  BY <1>1, ConcatProperties
<1> HIDE DEF v
<1>4. v[1] = a /\ v[2] = b /\ Len(v) = 2
  BY <1>1, <1>3
<1>5. /\ w \in Seq(T) /\ Len(w) = Len(v) + Len(z)
      /\ \A i \in 1..(Len(v) + Len(z)) : w[i] = IF i <= Len(v) THEN v[i] ELSE z[i - Len(v)]
  <2>1. v \in Seq(T) /\ z \in Seq(T)
    BY <1>1, <1>3
  <2> QED BY <2>1, ConcatProperties
<1> HIDE DEF w
<1>6. w[1] = a /\ w[2] = b /\ w[3] = c /\ Len(w) = 3
  BY <1>1, <1>4, <1>5
<1>7. \A i \in 1..3 : i = 1 \/ i = 2 \/ i = 3
  OBVIOUS
<1>8. \A i \in 1..3 : u[i] = w[i]
  BY <1>1, <1>6, <1>7
<1>9. u = w
  BY <1>1, <1>5, <1>6, <1>8, SeqEqual
<1>10. IsJoined(u, v, z)
  BY <1>9 DEF IsJoined, w
<1> QED BY <1>1, <1>2, <1>10, Zenon DEF u, v, x, y, z

LEMMA FourTokens ==
  ASSUME NEW T, NEW a \in T, NEW b \in T, NEW c \in T, NEW d \in T
  PROVE  /\ <<a, b, c, d>> \in Seq(T)
         /\ IsJoined(<<a, b, c, d>>, <<a>>, <<b, c, d>>)
         /\ \A s : s \notin {a, b, c, d} => Lacks(<<a, b, c, d>>, s)
<1> DEFINE u == <<a, b, c, d>>
           v == <<b, c, d>>
           x == <<a>>
           w == x \o v
<1>1. /\ u \in Seq(T) /\ Len(u) = 4 /\ u[1] = a /\ u[2] = b /\ u[3] = c /\ u[4] = d
      /\ v \in Seq(T) /\ Len(v) = 3 /\ v[1] = b /\ v[2] = c /\ v[3] = d
      /\ x \in Seq(T) /\ Len(x) = 1 /\ x[1] = a
  OBVIOUS
<1>2. \A s : s \notin {a, b, c, d} => Lacks(<<a, b, c, d>>, s)
  BY DEF Lacks
<1> HIDE DEF u, v, x
<1>3. /\ w \in Seq(T) /\ Len(w) = Len(x) + Len(v)
      /\ \A i \in 1..(Len(x) + Len(v)) : w[i] = IF i <= Len(x) THEN x[i] ELSE v[i - Len(x)]
  BY <1>1, ConcatProperties
<1> HIDE DEF w
<1>4. w[1] = a /\ w[2] = b /\ w[3] = c /\ w[4] = d /\ Len(w) = 4
  BY <1>1, <1>3
<1>5. \A i \in 1..4 : i = 1 \/ i = 2 \/ i = 3 \/ i = 4
  OBVIOUS
<1>6. \A i \in 1..4 : u[i] = w[i]
  BY <1>1, <1>4, <1>5
<1>7. u = w
  BY <1>1, <1>3, <1>4, <1>6, SeqEqual
<1>8. IsJoined(u, x, v)
  BY <1>7 DEF IsJoined, w
<1> QED BY <1>1, <1>2, <1>8, Zenon DEF u, v, x

(* The fields that may stand behind a layer.                               *)
Fields(named) == IF named THEN <<"#", DefaultTimeField, ",", DefaultUrlField>> ELSE <<>>

LEMMA FieldsType ==
  ASSUME NEW T, Separators \subseteq T, {DefaultTimeField, DefaultUrlField} \subseteq T,
         NEW named \in BOOLEAN
  PROVE  Fields(named) \in Seq(T)
<1>1. "#" \in T /\ "," \in T /\ DefaultTimeField \in T /\ DefaultUrlField \in T
  BY DEF Separators
<1> QED BY <1>1, FourTokens, EmptySeq DEF Fields

(* What is read out of a layer and its fields.                             *)
LEMMA InformationParses ==
  ASSUME NEW T, Separators \subseteq T, {DefaultTimeField, DefaultUrlField} \subseteq T,
         NEW layer \in Seq(T), layer # <<>>, \A s \in Separators : Lacks(layer, s),
         NEW named \in BOOLEAN
  PROVE  LET information == layer \o Fields(named)
         IN  /\ information \in Seq(T) /\ information # <<>>
             /\ Lacks(information, "/") /\ Lacks(information, ":")
             /\ Contains(information, "#") <=> named
             /\ named => /\ Split(information, "#")
                              = <<layer, <<DefaultTimeField, ",", DefaultUrlField>>>>
                         /\ Split(<<DefaultTimeField, ",", DefaultUrlField>>, ",")
                              = <<<<DefaultTimeField>>, <<DefaultUrlField>>>>
             /\ ~named => information = layer
<1> DEFINE information == layer \o Fields(named)
           two == <<DefaultTimeField, ",", DefaultUrlField>>
<1>1. /\ "/" \in Separators /\ ":" \in Separators /\ "#" \in Separators /\ "," \in Separators
      /\ "/" # "#" /\ "/" # "," /\ ":" # "#" /\ ":" # "," /\ "#" # ","
  BY DEF Separators
<1>2. DefaultTimeField \notin Separators /\ DefaultUrlField \notin Separators
  BY DescribedAssumption
<1>0. "#" \in T /\ "," \in T /\ DefaultTimeField \in T /\ DefaultUrlField \in T
  BY <1>1
<1>3. Fields(named) \in Seq(T)
  BY FieldsType
<1>4. Lacks(Fields(named), "/") /\ Lacks(Fields(named), ":")
  <2>1. CASE named
    <3>1. /\ "/" \notin {"#", DefaultTimeField, ",", DefaultUrlField}
          /\ ":" \notin {"#", DefaultTimeField, ",", DefaultUrlField}
      BY <1>1, <1>2
    <3> QED BY <1>0, <2>1, <3>1, FourTokens DEF Fields
  <2>2. CASE ~named
    BY <2>2 DEF Lacks, Fields
  <2> QED BY <2>1, <2>2
<1>5. /\ information \in Seq(T) /\ Lacks(information, "/") /\ Lacks(information, ":")
  BY <1>1, <1>3, <1>4, LacksBoth
<1>6. information # <<>>
  BY <1>3, ConcatEqualIffEmpty
<1>7. CASE ~named
  <2>1. information = layer
    BY <1>7, ConcatEmptySeq DEF Fields
  <2>2. ~Contains(layer, "#")
    BY <1>1, LacksNot
  <2> HIDE DEF information
  <2>3. ~Contains(information, "#")
    BY <2>1, <2>2
  <2> QED BY <1>5, <1>6, <1>7, <2>1, <2>3 DEF information
<1>8. CASE named
  <2>1. two \in Seq(T) /\ two # <<>> /\ <<"#">> \in Seq(T)
    BY <1>0, OneToken, ThreeTokens
  <2>2. Fields(named) = <<"#">> \o two
    <3> DEFINE all == <<"#", DefaultTimeField, ",", DefaultUrlField>>
               hash == <<"#">>
    <3>1. Fields(named) = all
      BY <1>8 DEF Fields
    <3>2. IsJoined(all, hash, two)
      BY <1>0, FourTokens, Zenon
    <3> HIDE DEF all, hash, two
    <3>3. Fields(named) = hash \o two
      BY <3>1, <3>2, Zenon DEF IsJoined
    <3> QED BY <3>3 DEF hash
  <2>3. Lacks(two, "#")
    <3>1. "#" \notin {DefaultTimeField, ",", DefaultUrlField}
      BY <1>1, <1>2
    <3> QED BY <1>0, <3>1, ThreeTokens
  <2> HIDE DEF two
  <2>4. information = (layer \o <<"#">>) \o two
    BY <2>1, <2>2, ConcatAssociative
  <2>5. Split((layer \o <<"#">>) \o two, "#") = <<layer, two>>
    BY <1>1, <2>1, <2>3, SplitJoined
  <2>6. Contains((layer \o <<"#">>) \o two, "#")
    BY <1>1, <2>1, JoinedContains
  <2>7. Split(two, ",") = <<<<DefaultTimeField>>, <<DefaultUrlField>>>>
    <3>1. /\ <<DefaultTimeField>> \in Seq(T) /\ <<DefaultUrlField>> \in Seq(T)
          /\ <<DefaultUrlField>> # <<>>
      BY <1>0, OneToken
    <3>2. Lacks(<<DefaultTimeField>>, ",") /\ Lacks(<<DefaultUrlField>>, ",")
      <4>1. "," # DefaultTimeField /\ "," # DefaultUrlField
        BY <1>1, <1>2
      <4> QED BY <1>0, <4>1, OneToken, Zenon
    <3> DEFINE t == <<DefaultTimeField>>
               c == <<",">>
               u == <<DefaultUrlField>>
    <3>3. IsJoined(two, t \o c, u)
      BY <1>0, ThreeTokens, Zenon DEF two
    <3>4. Split((t \o c) \o u, ",") = <<t, u>>
      BY <1>1, <3>1, <3>2, SplitJoined
    <3> HIDE DEF t, c, u
    <3>5. Split(two, ",") = <<t, u>>
      BY <3>3, <3>4, Zenon DEF IsJoined
    <3> QED BY <3>5 DEF t, u
  <2> HIDE DEF information
  <2>8. Split(information, "#") = <<layer, two>> /\ Contains(information, "#")
    BY <2>4, <2>5, <2>6, Zenon
  <2> QED BY <1>5, <1>6, <1>8, <2>7, <2>8, Zenon DEF information, two
<1> QED BY <1>7, <1>8

(* A layer that is written as the README says is understood so.            *)
LEMMA DescribedParses ==
  ASSUME NEW d \in Described
  PROVE  LET parsed == LayerDescriptor(TextOf(d))
         IN  /\ IsDescriptor(TextOf(d))
             /\ geoserverName(parsed) = NameOf(d)
             /\ parsed.timeField = <<DefaultTimeField>>
             /\ parsed.urlField = <<DefaultUrlField>>
             /\ parsed.netCDFVariable = d.variable
<1> DEFINE w == d.workspace
           a == d.layer
           v == d.variable
           named == d.fields
           T == Tokens(a) \cup Tokens(v) \cup Separators
                  \cup (IF w = NULL THEN {} ELSE Tokens(w))
                  \cup {DefaultTimeField, DefaultUrlField}
           information == a \o Fields(named)
           name == NameOf(d)
           lw == name \o Fields(named)
           text1 == TextOf(d)
<1>1. /\ w = NULL \/ IsWord(w)
      /\ IsWord(a) /\ IsWord(v) /\ named \in BOOLEAN
  BY DescribedAssumption
<1>2. /\ Separators \subseteq T /\ {DefaultTimeField, DefaultUrlField} \subseteq T
      /\ Tokens(a) \subseteq T /\ Tokens(v) \subseteq T
      /\ w # NULL => Tokens(w) \subseteq T
  OBVIOUS
<1>3. text1 = (lw \o <<"/">>) \o v
  BY DEF TextOf, Fields
<1>4. name = (IF w = NULL THEN <<>> ELSE w \o <<":">>) \o a
  BY DEF NameOf
<1> HIDE DEF T, name, text1
<1>5. /\ "/" \in Separators /\ ":" \in Separators /\ "#" \in Separators
      /\ "/" # ":" /\ "/" \in T /\ ":" \in T
  BY <1>2 DEF Separators
<1>6. /\ a \in Seq(T) /\ a # <<>> /\ \A s \in Separators : Lacks(a, s)
      /\ v \in Seq(T) /\ v # <<>> /\ \A s \in Separators : Lacks(v, s)
  <2> HIDE DEF a, v
  <2>1. IsWord(a) /\ Tokens(a) \subseteq T
    BY <1>1, <1>2
  <2>2. Worded(a, T)
    BY <2>1, WordFacts
  <2>3. IsWord(v) /\ Tokens(v) \subseteq T
    BY <1>1, <1>2
  <2>4. Worded(v, T)
    BY <2>3, WordFacts
  <2> QED BY <2>2, <2>4 DEF Worded
<1>7. w # NULL => w \in Seq(T) /\ w # <<>> /\ \A s \in Separators : Lacks(w, s)
  <2> HIDE DEF w
  <2> SUFFICES ASSUME w # NULL
               PROVE  w \in Seq(T) /\ w # <<>> /\ \A s \in Separators : Lacks(w, s)
    OBVIOUS
  <2>1. IsWord(w) /\ Tokens(w) \subseteq T
    BY <1>1, <1>2
  <2>2. Worded(w, T)
    BY <2>1, WordFacts
  <2> QED BY <2>2 DEF Worded
<1> HIDE DEF w, a, v, named
<1>8. /\ information \in Seq(T) /\ information # <<>>
      /\ Lacks(information, "/") /\ Lacks(information, ":")
      /\ Contains(information, "#") <=> named
      /\ named => /\ Split(information, "#")
                       = <<a, <<DefaultTimeField, ",", DefaultUrlField>>>>
                  /\ Split(<<DefaultTimeField, ",", DefaultUrlField>>, ",")
                       = <<<<DefaultTimeField>>, <<DefaultUrlField>>>>
      /\ ~named => information = a
  BY <1>1, <1>2, <1>6, InformationParses, Zenon
(* The workspace is told from the layer. *)
<1>9. /\ lw \in Seq(T) /\ Lacks(lw, "/")
      /\ w = NULL => lw = information /\ name = a
      /\ w # NULL => /\ Split(lw, ":") = <<w, information>>
                     /\ Contains(text1, ":") /\ name = Append(w, ":") \o a
  <2>1. Fields(named) \in Seq(T)
    BY <1>1, <1>2, FieldsType
  <2>2. CASE w = NULL
    <3>1. name = a
      BY <1>4, <1>6, <2>2, ConcatEmptySeq
    <3> QED BY <1>8, <2>2, <3>1
  <2>3. CASE w # NULL
    <3> DEFINE front == w \o <<":">>
    <3>1. <<":">> \in Seq(T) /\ Lacks(<<":">>, "/")
      BY <1>5, OneToken
    <3>2. front \in Seq(T) /\ Lacks(front, "/")
      BY <1>5, <1>7, <2>3, <3>1, LacksBoth
    <3>3. name = front \o a
      BY <1>4, <2>3
    <3>4. Append(w, ":") = front
      BY <1>5, <1>7, <2>3, AppendIsConcat
    <3>5. Split(front \o information, ":") = <<w, information>>
      BY <1>5, <1>7, <1>8, <2>3, SplitJoined
    <3>6. lw = front \o information
      <4>1. (front \o a) \o Fields(named) = front \o (a \o Fields(named))
        <5>1. front \in Seq(T) /\ a \in Seq(T) /\ Fields(named) \in Seq(T)
          BY <1>6, <2>1, <3>2
        <5> HIDE DEF front
        <5> QED BY <5>1, ConcatAssociative
      <4> QED BY <3>3, <4>1
    <3>7. Contains((lw \o <<"/">>) \o v, ":")
      <4>1. Contains(front \o information, ":") /\ front \o information \in Seq(T)
        BY <1>5, <1>7, <1>8, <2>3, JoinedContains
      <4> HIDE DEF lw, information, front
      <4>2. lw \in Seq(T) /\ Contains(lw, ":")
        BY <3>6, <4>1, Zenon
      <4>3. <<"/">> \in Seq(T)
        BY <1>5, OneToken
      <4>4. lw \o <<"/">> \in Seq(T) /\ Contains(lw \o <<"/">>, ":")
        BY <4>2, <4>3, ContainsMore
      <4> QED BY <1>6, <4>2, <4>4, ContainsMore
    <3>8. lw \in Seq(T) /\ Lacks(lw, "/")
      <4> HIDE DEF information, front
      <4>1. front \o information \in Seq(T) /\ Lacks(front \o information, "/")
        BY <1>8, <3>2, LacksBoth
      <4> QED BY <3>6, <4>1
    <3> HIDE DEF lw, front, information
    <3> QED BY <1>3, <2>3, <3>3, <3>4, <3>5, <3>6, <3>7, <3>8
  <2> QED BY <2>2, <2>3
<1> HIDE DEF lw, information
<1>10. Split(text1, "/") = <<lw, v>> /\ Contains(text1, "/") /\ text1 \in Seq(T)
  <2>1. Lacks(v, "/")
    BY <1>5, <1>6
  <2>2. Split((lw \o <<"/">>) \o v, "/") = <<lw, v>>
    BY <1>5, <1>6, <1>9, <2>1, SplitJoined
  <2>3. (lw \o <<"/">>) \o v \in Seq(T) /\ Contains((lw \o <<"/">>) \o v, "/")
    BY <1>5, <1>6, <1>9, JoinedContains
  <2> QED BY <1>3, <2>2, <2>3, Zenon
<1>11. w = NULL => ~Contains(text1, ":")
  <2> SUFFICES ASSUME w = NULL PROVE ~Contains(text1, ":")
    OBVIOUS
  <2>1. lw \in Seq(T) /\ Lacks(lw, ":")
    BY <1>8, <1>9
  <2>2. <<"/">> \in Seq(T) /\ Lacks(<<"/">>, ":")
    BY <1>5, OneToken
  <2>3. lw \o <<"/">> \in Seq(T) /\ Lacks(lw \o <<"/">>, ":")
    BY <2>1, <2>2, LacksBoth
  <2>4. v \in Seq(T) /\ Lacks(v, ":")
    BY <1>5, <1>6
  <2>5. (lw \o <<"/">>) \o v \in Seq(T) /\ Lacks((lw \o <<"/">>) \o v, ":")
    BY <2>3, <2>4, LacksBoth
  <2>6. ~Contains((lw \o <<"/">>) \o v, ":")
    BY <2>5, LacksNot
  <2> QED BY <1>3, <2>6, Zenon
<1>12. /\ LayerAndWorkspace(text1) = lw /\ Split(text1, "/")[2] = v
       /\ Len(Split(text1, "/")) = 2
  BY <1>10 DEF LayerAndWorkspace
<1>13. LayerInformation(text1) = information
  <2>1. CASE w = NULL
    BY <1>9, <1>11, <1>12, <2>1 DEF LayerInformation
  <2>2. CASE w # NULL
    BY <1>9, <1>12, <2>2 DEF LayerInformation
  <2> QED BY <2>1, <2>2
<1>14. named => /\ Split(information, "#")[1] = a /\ Len(Split(information, "#")) = 2
                /\ FieldNames(text1)[1] = <<DefaultTimeField>>
                /\ FieldNames(text1)[2] = <<DefaultUrlField>>
                /\ Len(FieldNames(text1)) = 2
  <2> SUFFICES ASSUME named
               PROVE  /\ Split(information, "#")[1] = a /\ Len(Split(information, "#")) = 2
                      /\ FieldNames(text1)[1] = <<DefaultTimeField>>
                      /\ FieldNames(text1)[2] = <<DefaultUrlField>>
                      /\ Len(FieldNames(text1)) = 2
    OBVIOUS
  <2> DEFINE two == <<DefaultTimeField, ",", DefaultUrlField>>
             t == <<DefaultTimeField>>
             u == <<DefaultUrlField>>
  <2>1. Split(information, "#") = <<a, two>> /\ Split(two, ",") = <<t, u>>
    BY <1>8
  <2> HIDE DEF two, t, u
  <2>2. /\ Split(information, "#")[1] = a /\ Split(information, "#")[2] = two
        /\ Len(Split(information, "#")) = 2
    BY <2>1, PairParts, Zenon
  <2>3. FieldNames(text1) = <<t, u>>
    BY <1>13, <2>1, <2>2 DEF FieldNames
  <2> QED BY <2>2, <2>3 DEF t, u
<1>15. IsDescriptor(text1)
  <2>1. Contains(text1, ":") => Len(Split(LayerAndWorkspace(text1), ":")) = 2
    BY <1>9, <1>11, <1>12
  <2>2. /\ Contains(text1, "/") /\ Len(Split(text1, "/")) >= 2
        /\ Contains(text1, ":") => Len(Split(LayerAndWorkspace(text1), ":")) >= 2
    BY <1>10, <1>12, <2>1
  <2>3. Contains(LayerInformation(text1), "#") =>
          /\ Len(Split(LayerInformation(text1), "#")) >= 2
          /\ Len(FieldNames(text1)) >= 2
    <3> SUFFICES ASSUME Contains(LayerInformation(text1), "#")
                 PROVE  /\ Len(Split(LayerInformation(text1), "#")) >= 2
                        /\ Len(FieldNames(text1)) >= 2
      OBVIOUS
    <3>1. named
      BY <1>8, <1>13, Zenon
    <3>2. Len(Split(LayerInformation(text1), "#")) = 2 /\ Len(FieldNames(text1)) = 2
      BY <1>13, <1>14, <3>1, Zenon
    <3> QED BY <3>2
  <2> QED BY <2>2, <2>3, Zenon DEF IsDescriptor
<1> DEFINE parsed == LayerDescriptor(text1)
<1>16. /\ parsed.layer = a /\ parsed.netCDFVariable = v
       /\ parsed.timeField = <<DefaultTimeField>> /\ parsed.urlField = <<DefaultUrlField>>
  BY <1>8, <1>12, <1>13, <1>14 DEF LayerDescriptor
<1>17. parsed.workspace = w
  BY <1>9, <1>11, <1>12 DEF LayerDescriptor
<1>18. geoserverName(parsed) = name
  <2> HIDE DEF parsed
  <2>1. CASE w = NULL
    <3>1. <<>> \o a = a
      BY <1>6, ConcatEmptySeq
    <3> QED BY <1>9, <1>16, <1>17, <2>1, <3>1 DEF geoserverName
  <2>2. CASE w # NULL
    BY <1>9, <1>16, <1>17, <2>2 DEF geoserverName
  <2> QED BY <2>1, <2>2
<1> QED BY <1>15, <1>16, <1>18 DEF text1, name, a, v

(* ProxiedAsAsked: in every session, for any layers that are written as    *)
(* the README says, substitutions in any order, operations, files and      *)
(* times, the layer is understood as written, and thredds is asked at the  *)
(* URL of the only substitution for the file's, for the client's variable  *)
(* and at its time.                                                        *)
THEOREM ProxiedAlwaysAsAsked == Spec => []ProxiedAsAsked
<1>1. Init => SentInv
  BY SentInit
<1>2. IInv /\ SentInv /\ [Next]_vars => SentInv'
  BY SentNext
<1>3. SentInv => ProxiedAsAsked
  <2> SUFFICES ASSUME SentInv, NEW c \in Clients, NEW d \in Described, text[c] = TextOf(d)
               PROVE  LET this == clients[c]
                      IN  /\ Known(c) /\ geoserverName(descriptor[c]) = NameOf(d)
                          /\ this.query # <<>> =>
                               /\ \A key \in Needed(this.map.url) :
                                    this.url = replaceAll(this.map.url, key, substitutions[key])
                               /\ \A name \in DOMAIN this.query \ {"TIME"} :
                                    this.query[name] = d.variable
                               /\ "TIME" \in DOMAIN this.query <=>
                                    this.picked # NULL /\ NameOf(d) \notin Mismatching
                               /\ "TIME" \in DOMAIN this.query => this.query["TIME"] = this.picked
    BY DEF ProxiedAsAsked
  <2> DEFINE this == clients[c]
  <2>0. /\ TextOf(d) \in Texts /\ descriptor[c] = Parsed(TextOf(d))
        /\ IsDescriptor(TextOf(d)) /\ LayerDescriptor(TextOf(d)) # NULL
        /\ NameOf(d) \in IndexNames
    <3>1. TextOf(d) \in Texts /\ descriptor[c] = Parsed(TextOf(d))
      BY DEF SentInv
    <3>2. IsDescriptor(TextOf(d))
      BY DescribedParses
    <3> QED BY <3>1, <3>2, DescribedAssumption
  <2>1. /\ descriptor[c] = LayerDescriptor(TextOf(d)) /\ descriptor[c] # NULL
        /\ geoserverName(descriptor[c]) = NameOf(d) /\ NameOf(d) \in IndexNames
        /\ descriptor[c].timeField = <<DefaultTimeField>>
        /\ descriptor[c].urlField = <<DefaultUrlField>>
        /\ descriptor[c].netCDFVariable = d.variable
    BY <2>0, DescribedParses DEF Parsed
  <2>2. Known(c)
    BY <2>1 DEF Known, Indexed
  <2> SUFFICES ASSUME this.query # <<>>
               PROVE  /\ \A key \in Needed(this.map.url) :
                           this.url = replaceAll(this.map.url, key, substitutions[key])
                      /\ \A name \in DOMAIN this.query \ {"TIME"} :
                           this.query[name] = d.variable
                      /\ "TIME" \in DOMAIN this.query <=>
                           this.picked # NULL /\ NameOf(d) \notin Mismatching
                      /\ "TIME" \in DOMAIN this.query => this.query["TIME"] = this.picked
    BY <2>1, <2>2
  <2>3. this.map.url # NULL /\ this.url = getWmsUrl(this.map)
    BY DEF SentInv, Sent
  <2>4. PICK operation \in Operations : this.query = Query(c, operation, this.picked)
    BY DEF SentInv, Sent
  <2>5. ASSUME NEW key \in Needed(this.map.url)
        PROVE  this.url = replaceAll(this.map.url, key, substitutions[key])
    <3> DEFINE url == this.map.url
               result == replaceAll(url, key, substitutions[key])
    <3>1. key \in DOMAIN substitutions
      BY DEF Needed
    <3>2. \A k \in DOMAIN substitutions \ {key} :
            replaceAll(url, k, substitutions[k]) = url
            /\ replaceAll(result, k, substitutions[k]) = result
      BY DEF Needed, Applies
    <3>3. this.url = mangleUrl(url, substitutions, keys)
      BY <2>3 DEF getWmsUrl
    <3> HIDE DEF url, result
    <3>4. mangleUrl(url, substitutions, keys) = result
      <4>1. IsFiniteSet(DOMAIN substitutions) /\ keys \in SetToSeqs(DOMAIN substitutions)
        BY DEF SentInv
      <4> QED BY <3>1, <3>2, <4>1, Mangled DEF result
    <3> QED BY <3>3, <3>4 DEF result, url
  <2>6. isCollectionWithTimeMismatch(geoserverName(descriptor[c])) <=> NameOf(d) \in Mismatching
    BY <2>1 DEF isCollectionWithTimeMismatch
  <2>7. PICK mismatch : mismatch = isCollectionWithTimeMismatch(geoserverName(descriptor[c]))
    OBVIOUS
  <2>8. this.query = wmsParameters(RequestParameters(operation, text[c], this.picked),
                       operation, descriptor[c], mismatch)
    BY <2>4, <2>7 DEF Query
  <2> HIDE DEF this
  <2>9. /\ \A name \in DOMAIN this.query \ {"TIME"} :
             this.query[name] = descriptor[c].netCDFVariable
        /\ "TIME" \in DOMAIN this.query <=> this.picked # NULL /\ ~mismatch
        /\ "TIME" \in DOMAIN this.query => this.query["TIME"] = this.picked
    BY <2>8, QueryFacts
  <2> QED BY <2>1, <2>5, <2>6, <2>7, <2>9 DEF this
<1> QED BY <1>1, <1>2, <1>3, Invariant, PTL DEF Spec

=============================================================================
