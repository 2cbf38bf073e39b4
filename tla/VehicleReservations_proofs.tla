---------------------- MODULE VehicleReservations_proofs ----------------------
(***************************************************************************)
(* What holds of the reservations for any number of vehicles, bookings,    *)
(* moments and changes.                                                    *)
(*                                                                         *)
(* However handlers interleave and wherever they stop, entries have their  *)
(* types and name bookings (IInv: what holds of the arrays holds of every  *)
(* copy of them).                                                          *)
(*                                                                         *)
(* Handlers that run one after the other:                                  *)
(*                                                                         *)
(*   SInv   the vehicles that a handler has checked are still free         *)
(*   UInv   what a handler has read is still so                            *)
(*   CInv   a cancellation has still to come to all that is held           *)
(*   KInv   a creation has reserved all that it has passed                 *)
(*                                                                         *)
(* so no vehicle is booked twice, a release spares others, a cancelled     *)
(* booking holds nothing, an open one holds its cart, and the module       *)
(* implements RentalCalendar.                                              *)
(*                                                                         *)
(* Any number of handlers at once, where all who write the arrays write    *)
(* them in one step:                                                       *)
(*                                                                         *)
(*   AInv   an entry is the only one of its booking, and fits its cart     *)
(*   HInv   a creation has reserved all that it has passed                 *)
(*                                                                         *)
(* so carts and reservations stay equal.                                   *)
(***************************************************************************)
EXTENDS VehicleReservations, WellFoundedInduction, TLAPS

-----------------------------------------------------------------------------
(* The place after the last entry. *)

LEMMA NatHasLeast ==
    ASSUME NEW T \in SUBSET Nat, T # {}
    PROVE  \E x \in T : \A y \in T : x <= y
<1>1. PICK x \in T : \A y \in T : ~(<<y, x>> \in OpToRel(<, Nat))
  BY NatLessThanWellFounded, WFMin, Zenon
<1>2. \A y \in T : ~(y < x)
  BY <1>1 DEF OpToRel
<1>3. \A y \in T : x <= y
  BY <1>2
<1> QED
  BY <1>3

\* Max finds the greatest member of a bounded set.
LEMMA MaxOfBounded ==
    ASSUME NEW S \in SUBSET Nat, S # {}, NEW n \in Nat, \A x \in S : x <= n
    PROVE  Max(S) \in S /\ \A x \in S : x <= Max(S)
<1> DEFINE T == {n - x : x \in S}
<1>1. \A x \in S : n - x \in Nat
  OBVIOUS
<1>2. T \in SUBSET Nat /\ T # {}
  BY <1>1
<1> HIDE DEF T
<1>3. PICK t \in T : \A y \in T : t <= y
  BY <1>2, NatHasLeast
<1>4. PICK m \in S : t = n - m
  BY DEF T
<1>5. \A x \in S : m >= x
  <2> TAKE x \in S
  <2>1. n - x \in T
    BY DEF T
  <2>2. t <= n - x
    BY <2>1, <1>3
  <2> QED
    BY <2>2, <1>4
<1> QED
  BY <1>5 DEF Max

\* The entries of a vehicle, or of a copy of its array.
Entries(S) ==
    /\ S \subseteq Entry
    /\ \E n \in Nat : \A e \in S : e.pos <= n

LEMMA NextPosType ==
    ASSUME NEW S, Entries(S)
    PROVE  NextPos(S) \in Nat /\ \A e \in S : e.pos < NextPos(S)
<1>1. CASE S = {}
  BY <1>1 DEF NextPos
<1>2. CASE S # {}
  <2> DEFINE P == {e.pos : e \in S}
  <2>1. P \in SUBSET Nat /\ P # {}
    BY <1>2 DEF Entries, Entry
  <2>2. PICK n \in Nat : \A e \in S : e.pos <= n
    BY DEF Entries
  <2>3. \A x \in P : x <= n
    BY <2>2
  <2>4. Max(P) \in P /\ \A x \in P : x <= Max(P)
    BY <2>1, <2>3, MaxOfBounded
  <2>5. NextPos(S) = Max(P) + 1
    BY <1>2 DEF NextPos
  <2>6. \A e \in S : e.pos \in P
    OBVIOUS
  <2> HIDE DEF P
  <2>7. Max(P) \in Nat
    BY <2>1, <2>4
  <2>8. \A e \in S : e.pos \in Nat /\ e.pos <= Max(P)
    BY <2>1, <2>4, <2>6
  <2>9. \A e \in S : e.pos < Max(P) + 1
    BY <2>7, <2>8
  <2>10. Max(P) + 1 \in Nat
    BY <2>7
  <2> QED
    BY <2>5, <2>9, <2>10
<1> QED
  BY <1>1, <1>2

LEMMA PushedType ==
    ASSUME NEW S, Entries(S), NEW b \in Bookings \cup {NoBooking}, NEW i \in Interval
    PROVE  Entries(Pushed(S, b, i))
<1>1. NextPos(S) \in Nat /\ \A e \in S : e.pos < NextPos(S)
  BY NextPosType
<1>2. i.start \in Times /\ i.end \in Times
  BY DEF Interval
<1>3. Pushed(S, b, i) \subseteq Entry
  BY <1>1, <1>2 DEF Pushed, Entries, Entry
<1>4. \A e \in Pushed(S, b, i) : e.pos <= NextPos(S)
  <2>1. \A e \in S : e.pos \in Nat
    BY DEF Entries, Entry
  <2> QED
    BY <1>1, <2>1 DEF Pushed
<1> QED
  BY <1>1, <1>3, <1>4 DEF Entries

LEMMA SubsetType ==
    ASSUME NEW S, Entries(S), NEW T, T \subseteq S
    PROVE  Entries(T)
BY DEF Entries

LEMMA AnonymousType ==
    ASSUME NEW S, Entries(S)
    PROVE  Entries(Anonymous(S))
<1>1. \A e \in S : /\ [e EXCEPT !.booking = NoBooking] \in Entry
                   /\ [e EXCEPT !.booking = NoBooking].pos = e.pos
  BY DEF Entries, Entry
<1> QED
  BY <1>1 DEF Entries, Anonymous

LEMMA RedatedType ==
    ASSUME NEW S, Entries(S), NEW b, NEW old \in Interval, NEW new \in Interval
    PROVE  Entries(Redated(S, b, old, new))
<1> DEFINE edited(e) ==
      [e EXCEPT !.start = IF old.start # new.start THEN new.start ELSE @,
                !.end   = IF old.end # new.end THEN new.end ELSE @]
<1>1. FirstMatch(S, b, old, EditTolerance) \subseteq S
  BY DEF FirstMatch
<1>2. new.start \in Times /\ new.end \in Times
  BY DEF Interval
<1>3. \A e \in S : edited(e) \in Entry /\ edited(e).pos = e.pos
  <2> TAKE e \in S
  <2>1. e \in Entry
    BY DEF Entries
  <2> DEFINE s == IF old.start # new.start THEN new.start ELSE e.start
             t == IF old.end # new.end THEN new.end ELSE e.end
  <2>2. s \in Times /\ t \in Times
    BY <1>2, <2>1 DEF Entry
  <2>3. edited(e) = [e EXCEPT !.start = s, !.end = t]
    BY <2>1 DEF Entry
  <2> HIDE DEF s, t
  <2>4. [e EXCEPT !.start = s, !.end = t] \in Entry /\
        [e EXCEPT !.start = s, !.end = t].pos = e.pos
    BY <2>1, <2>2 DEF Entry
  <2> QED
    BY <2>3, <2>4
<1>4. \A f \in Redated(S, b, old, new) :
         f \in S \/ \E e \in S : f = edited(e)
  BY <1>1 DEF Redated
<1> HIDE DEF edited
<1>5. PICK n \in Nat : \A e \in S : e.pos <= n
  BY DEF Entries
<1>6. Redated(S, b, old, new) \subseteq Entry
  BY <1>3, <1>4 DEF Entries
<1>7. \A f \in Redated(S, b, old, new) : f.pos <= n
  BY <1>3, <1>4, <1>5
<1> QED
  BY <1>6, <1>7 DEF Entries

-----------------------------------------------------------------------------
(* Types, and the bookings that entries name. *)

BookingDocs == [Bookings -> [status : {"none", "open", "cancelled"}, cart : Cart]]

\* The entries that name a booking name one that docs holds.
Known(docs, S) ==
    \A e \in S : e.booking # NoBooking => docs[e.booking].status # "none"

\* A handler that is beyond the checks works on a booking that was inserted.
GoodRequest(docs, q) ==
    /\ q \in Request
    /\ Entries(q.copy) /\ Known(docs, q.copy)
    /\ q.stage # "idle" => q.booking \in Bookings
    /\ q.todo \cup q.at \subseteq DOMAIN q.cart
    /\ q.stage \in {"rewrite", "releaseWrite"} <=> q.at # {}
    /\ q.stage \notin {"idle", "check"} => docs[q.booking].status # "none"

GoodVehicles(docs, arrays) ==
    /\ arrays \in [Vehicles -> SUBSET Entry]
    /\ \A v \in Vehicles : Entries(arrays[v]) /\ Known(docs, arrays[v])

IInv ==
    /\ GoodVehicles(booking, reservations)
    /\ deleted \subseteq Vehicles
    /\ booking \in BookingDocs
    /\ request \in [Requests -> Request]
    /\ \A r \in Requests : GoodRequest(booking, request[r])
    /\ changes \in 0 .. MaxChanges

LEMMA CartType ==
    /\ Nothing \in Cart
    /\ \A cart \in Cart : /\ DOMAIN cart \subseteq Vehicles
                          /\ \A v \in DOMAIN cart : cart[v] \in Interval
<1>1. Nothing \in [{} -> Interval]
  BY DEF Nothing
<1> QED
  BY <1>1 DEF Cart

LEMMA EmptyEntries == Entries({})
BY DEF Entries

LEMMA IdleGood ==
    ASSUME NEW docs
    PROVE  GoodRequest(docs, Idle)
<1>1. Idle \in Request
  BY CartType DEF Idle, Request, Stages
<1> QED
  BY <1>1, EmptyEntries DEF Idle, GoodRequest, Known

\* No booking is taken out of docs again.
Grows(docs, newDocs) ==
    \A b \in Bookings : docs[b].status # "none" => newDocs[b].status # "none"

LEMMA KnownGrows ==
    ASSUME NEW docs, NEW newDocs, Grows(docs, newDocs), NEW S, Entries(S), Known(docs, S)
    PROVE  Known(newDocs, S)
<1>1. \A e \in S : e.booking # NoBooking => e.booking \in Bookings
  BY DEF Entries, Entry
<1> QED
  BY <1>1 DEF Known, Grows

LEMMA GoodRequestGrows ==
    ASSUME NEW docs, NEW newDocs, Grows(docs, newDocs), NEW q, GoodRequest(docs, q)
    PROVE  GoodRequest(newDocs, q)
<1>1. Known(newDocs, q.copy)
  BY KnownGrows DEF GoodRequest
<1> QED
  BY <1>1 DEF GoodRequest, Grows

LEMMA GoodVehiclesGrow ==
    ASSUME NEW docs, NEW newDocs, Grows(docs, newDocs), NEW arrays,
           GoodVehicles(docs, arrays)
    PROVE  GoodVehicles(newDocs, arrays)
<1>1. \A v \in Vehicles : Known(newDocs, arrays[v])
  BY KnownGrows DEF GoodVehicles
<1> QED
  BY <1>1 DEF GoodVehicles

LEMMA GoodVehiclesChange ==
    ASSUME NEW docs, NEW arrays, GoodVehicles(docs, arrays), NEW v \in Vehicles,
           NEW S, Entries(S), Known(docs, S)
    PROVE  GoodVehicles(docs, [arrays EXCEPT ![v] = S])
<1>1. S \in SUBSET Entry
  BY DEF Entries
<1>2. [arrays EXCEPT ![v] = S] \in [Vehicles -> SUBSET Entry]
  BY <1>1 DEF GoodVehicles
<1>3. \A w \in Vehicles : [arrays EXCEPT ![v] = S][w] = IF w = v THEN S ELSE arrays[w]
  BY DEF GoodVehicles
<1> QED
  BY <1>2, <1>3 DEF GoodVehicles

\* A step of one handler.
LEMMA StepIInv ==
    ASSUME IInv, NEW r \in Requests, NEW q, GoodRequest(booking', q),
           request' = [request EXCEPT ![r] = q],
           booking' \in BookingDocs, Grows(booking, booking'),
           GoodVehicles(booking', reservations'), UNCHANGED <<deleted, changes>>
    PROVE  IInv'
<1>1. request' \in [Requests -> Request]
  BY DEF IInv, GoodRequest
<1>2. \A s \in Requests : GoodRequest(booking', request'[s])
  <2> TAKE s \in Requests
  <2>1. CASE s = r
    BY <2>1 DEF IInv
  <2>2. CASE s # r
    <3>1. request'[s] = request[s]
      BY <2>2 DEF IInv
    <3>2. GoodRequest(booking, request[s])
      BY DEF IInv
    <3> QED
      BY <3>1, <3>2, GoodRequestGrows
  <2> QED
    BY <2>1, <2>2
<1> QED
  BY <1>1, <1>2 DEF IInv

\* A step of one handler that leaves the booking documents alone.
LEMMA LocalStepIInv ==
    ASSUME IInv, NEW r \in Requests, NEW q, GoodRequest(booking, q),
           request' = [request EXCEPT ![r] = q],
           GoodVehicles(booking, reservations'), UNCHANGED <<deleted, booking, changes>>
    PROVE  IInv'
BY StepIInv DEF IInv, Grows

\* What is pushed for a booking that was inserted is known.
LEMMA PushedKnown ==
    ASSUME NEW docs, NEW S, Known(docs, S), NEW b, NEW i, docs[b].status # "none"
    PROVE  Known(docs, Pushed(S, b, i))
BY DEF Known, Pushed

-----------------------------------------------------------------------------
LEMMA InitIInv == Init => IInv
<1> SUFFICES ASSUME Init PROVE IInv
  OBVIOUS
<1>1. GoodVehicles(booking, reservations)
  BY EmptyEntries DEF Init, GoodVehicles, Known
<1>2. booking \in BookingDocs
  BY CartType DEF Init, BookingDocs
<1>3. request \in [Requests -> Request] /\ \A r \in Requests : GoodRequest(booking, request[r])
  BY IdleGood DEF Init, GoodRequest
<1> QED
  BY <1>1, <1>2, <1>3, ConstantsAssumption DEF Init, IInv

LEMMA ReturnIInv ==
    ASSUME IInv, NEW r \in Requests, Return(r), UNCHANGED <<reservations, deleted, booking, changes>>
    PROVE  IInv'
<1>1. GoodVehicles(booking, reservations')
  BY DEF IInv
<1>2. request' = [request EXCEPT ![r] = Idle]
  BY DEF Return
<1> QED
  BY <1>1, <1>2, IdleGood, LocalStepIInv

\* The checks before the creation of a booking.
LEMMA CheckIInv ==
    ASSUME IInv, NEW r \in Requests, NEW v \in Vehicles,
           CheckVehicle(r, v) \/ RefuseVehicle(r, v)
    PROVE  IInv'
<1>0. /\ request \in [Requests -> Request] /\ GoodRequest(booking, request[r])
      /\ GoodVehicles(booking, reservations) /\ booking \in BookingDocs
  BY DEF IInv
<1>1. CASE CheckVehicle(r, v)
  <2> DEFINE q == [request[r] EXCEPT !.todo = @ \ {v}]
  <2>1. request' = [request EXCEPT ![r] = q]
    BY <1>0, <1>1 DEF CheckVehicle
  <2>2. q \in Request /\ q.copy = request[r].copy /\ q.stage = request[r].stage
        /\ q.booking = request[r].booking /\ q.todo \subseteq request[r].todo
        /\ q.at = request[r].at /\ q.cart = request[r].cart
    BY <1>0 DEF Request
  <2> HIDE DEF q
  <2>3. GoodRequest(booking, q)
    BY <1>0, <2>2 DEF GoodRequest
  <2> QED
    BY <1>0, <1>1, <2>1, <2>3, LocalStepIInv DEF CheckVehicle
<1>2. CASE RefuseVehicle(r, v)
  BY <1>2, ReturnIInv DEF RefuseVehicle
<1> QED
  BY <1>1, <1>2

\* The insert of a booking.
LEMMA SaveIInv ==
    ASSUME IInv, NEW r \in Requests, SaveBooking(r) \/ SaveBookingUserGone(r)
    PROVE  IInv'
<1>0. /\ request \in [Requests -> Request] /\ GoodRequest(booking, request[r])
      /\ GoodVehicles(booking, reservations) /\ booking \in BookingDocs
  BY DEF IInv
<1> DEFINE b == request[r].booking
           doc == [status |-> "open", cart |-> request[r].cart]
           q == [request[r] EXCEPT !.stage = "push", !.todo = DOMAIN request[r].cart]
<1>1. b \in Bookings /\ request[r].stage = "check" /\ request[r].at = {}
  BY <1>0 DEF SaveBooking, SaveBookingUserGone, GoodRequest
<1>2. booking' = [booking EXCEPT ![b] = doc]
  BY DEF SaveBooking, SaveBookingUserGone
<1>3. doc \in [status : {"none", "open", "cancelled"}, cart : Cart] /\ doc.status # "none"
  BY <1>0 DEF Request
<1>4. booking' \in BookingDocs /\ Grows(booking, booking') /\ booking'[b].status # "none"
  BY <1>0, <1>1, <1>2, <1>3 DEF BookingDocs, Grows
<1>5. /\ q \in Request /\ q.copy = request[r].copy /\ q.stage = "push" /\ q.booking = b
      /\ q.todo = DOMAIN q.cart /\ q.at = {}
  BY <1>0, <1>1, CartType DEF Request, Stages
<1>6. Known(booking', request[r].copy)
  BY <1>0, <1>4, KnownGrows DEF GoodRequest
<1>7. request' = [request EXCEPT ![r] = q] \/ request' = [request EXCEPT ![r] = Idle]
  BY <1>0 DEF SaveBooking, SaveBookingUserGone, Return
<1>8. UNCHANGED <<reservations, deleted, changes>>
  BY DEF SaveBooking, SaveBookingUserGone
<1>9. GoodVehicles(booking', reservations')
  BY <1>0, <1>4, <1>8, GoodVehiclesGrow
<1> HIDE DEF b, doc, q
<1>10. GoodRequest(booking', q)
  BY <1>0, <1>1, <1>4, <1>5, <1>6 DEF GoodRequest
<1>11. GoodRequest(booking', Idle)
  BY IdleGood
<1> QED
  BY <1>4, <1>7, <1>8, <1>9, <1>10, <1>11, StepIInv

\* What a handler may do next in a loop over its vehicles, with docs unchanged.
LEMMA LoopGood ==
    ASSUME IInv, NEW r \in Requests, NEW q \in Request,
           request[r].stage \notin {"idle", "check"},
           q.stage \in {"push", "reread", "release"},
           q.booking = request[r].booking, q.cart = request[r].cart,
           q.todo \subseteq DOMAIN q.cart, q.at = {},
           q.copy = request[r].copy \/ q.copy = {}
    PROVE  GoodRequest(booking, q)
<1>1. GoodRequest(booking, request[r])
  BY DEF IInv
<1>2. Entries(q.copy) /\ Known(booking, q.copy)
  BY <1>1, EmptyEntries DEF GoodRequest, Known
<1> QED
  BY <1>1, <1>2 DEF GoodRequest

LEMMA PushIInv ==
    ASSUME IInv, NEW r \in Requests, NEW v \in Vehicles, PushReservation(r, v)
    PROVE  IInv'
<1>0. /\ request \in [Requests -> Request] /\ GoodRequest(booking, request[r])
      /\ request[r] \in Request
      /\ request[r].stage = "push" /\ v \in request[r].todo /\ request[r].at = {}
      /\ GoodVehicles(booking, reservations)
  BY DEF IInv, PushReservation, GoodRequest
<1> DEFINE b == request[r].booking
           i == request[r].cart[v]
<1>1. b \in Bookings /\ booking[b].status # "none" /\ i \in Interval
  BY <1>0, CartType DEF GoodRequest, Request
<1>2. GoodVehicles(booking, reservations')
  <2>1. CASE v \in deleted
    BY <1>0, <2>1 DEF PushReservation
  <2>2. CASE v \notin deleted
    <3>1. reservations' = [reservations EXCEPT ![v] = Pushed(reservations[v], b, i)]
      BY <2>2 DEF PushReservation
    <3>2. Entries(reservations[v]) /\ Known(booking, reservations[v])
      BY <1>0 DEF GoodVehicles
    <3>3. Entries(Pushed(reservations[v], b, i)) /\ Known(booking, Pushed(reservations[v], b, i))
      BY <1>1, <3>2, PushedType, PushedKnown
    <3> QED
      BY <1>0, <3>1, <3>3, GoodVehiclesChange
  <2> QED
    BY <2>1, <2>2
<1>3. CASE request' = [request EXCEPT ![r] = Idle]
  BY <1>2, <1>3, IdleGood, LocalStepIInv DEF PushReservation
<1>4. CASE request' = [request EXCEPT ![r].todo = request[r].todo \ {v}]
  <2> DEFINE q == [request[r] EXCEPT !.todo = request[r].todo \ {v}]
  <2>1. request' = [request EXCEPT ![r] = q]
    BY <1>0, <1>4
  <2>2. GoodRequest(booking, q)
    <3>1. /\ q \in Request /\ q.stage = "push" /\ q.booking = b /\ q.cart = request[r].cart
          /\ q.todo \subseteq DOMAIN q.cart /\ q.at = {} /\ q.copy = request[r].copy
      BY <1>0 DEF Request, GoodRequest
    <3> HIDE DEF q
    <3> QED
      BY <1>0, <3>1, LoopGood
  <2> QED
    BY <1>2, <2>1, <2>2, LocalStepIInv DEF PushReservation
<1>5. CASE request' = [request EXCEPT ![r].stage = "reread", ![r].todo = DOMAIN request[r].cart]
  <2> DEFINE q == [request[r] EXCEPT !.stage = "reread", !.todo = DOMAIN request[r].cart]
  <2>1. request' = [request EXCEPT ![r] = q]
    BY <1>0, <1>5
  <2>2. GoodRequest(booking, q)
    <3>1. /\ q \in Request /\ q.stage = "reread" /\ q.booking = b /\ q.cart = request[r].cart
          /\ q.todo \subseteq DOMAIN q.cart /\ q.at = {} /\ q.copy = request[r].copy
      BY <1>0, CartType DEF Request, Stages
    <3> HIDE DEF q
    <3> QED
      BY <1>0, <3>1, LoopGood
  <2> QED
    BY <1>2, <2>1, <2>2, LocalStepIInv DEF PushReservation
<1> QED
  BY <1>3, <1>4, <1>5 DEF PushReservation, Proceed, Return

\* Between the read and the write of a vehicle: a copy of its entries is kept.
LEMMA HoldGood ==
    ASSUME IInv, NEW r \in Requests, NEW v \in Vehicles, NEW S, NEW q,
           NEW stage \in {"rewrite", "releaseWrite"},
           request[r].stage \in {"reread", "release"}, v \in request[r].todo,
           Entries(S), Known(booking, S),
           q = [request[r] EXCEPT !.stage = stage, !.todo = request[r].todo \ {v},
                                  !.at = {v}, !.copy = S]
    PROVE  GoodRequest(booking, q)
<1>1. request[r] \in Request /\ GoodRequest(booking, request[r])
  BY DEF IInv
<1>2. /\ q \in Request /\ q.stage = stage /\ q.booking = request[r].booking
      /\ q.cart = request[r].cart /\ q.todo \subseteq request[r].todo
      /\ q.at = {v} /\ q.copy = S
  BY <1>1 DEF Request, Stages, Entries
<1> QED
  BY <1>1, <1>2 DEF GoodRequest

\* Step 8.5 of addManualBookingInUserFromCart.
LEMMA RereadIInv ==
    ASSUME IInv, NEW r \in Requests, NEW v \in Vehicles,
           RereadVehicle(r, v) \/ RewriteVehicle(r, v)
    PROVE  IInv'
<1>0. /\ request \in [Requests -> Request] /\ GoodRequest(booking, request[r])
      /\ request[r] \in Request /\ GoodVehicles(booking, reservations)
  BY DEF IInv
<1>1. CASE RereadVehicle(r, v) /\ v \notin deleted
  <2> DEFINE S == Pushed(reservations[v], request[r].booking, request[r].cart[v])
             q == [request[r] EXCEPT !.stage = "rewrite", !.todo = request[r].todo \ {v},
                                     !.at = {v}, !.copy = S]
  <2>1. request[r].stage = "reread" /\ v \in request[r].todo
    BY <1>1 DEF RereadVehicle
  <2>2. /\ request[r].booking \in Bookings /\ booking[request[r].booking].status # "none"
        /\ request[r].cart[v] \in Interval
    BY <1>0, <2>1, CartType DEF GoodRequest, Request
  <2>3. Entries(reservations[v]) /\ Known(booking, reservations[v])
    BY <1>0 DEF GoodVehicles
  <2>4. Entries(S) /\ Known(booking, S)
    BY <2>2, <2>3, PushedType, PushedKnown
  <2>5. request' = [request EXCEPT ![r] = q]
    BY <1>0, <1>1 DEF RereadVehicle
  <2> HIDE DEF S
  <2>6. GoodRequest(booking, q)
    BY <2>1, <2>4, HoldGood
  <2> QED
    BY <1>0, <1>1, <2>5, <2>6, LocalStepIInv DEF RereadVehicle
<1>2. CASE RereadVehicle(r, v) /\ v \in deleted
  BY <1>2, ReturnIInv DEF RereadVehicle
<1>3. CASE RewriteVehicle(r, v) /\ v \in deleted
  BY <1>3, ReturnIInv DEF RewriteVehicle
<1>4. CASE RewriteVehicle(r, v) /\ v \notin deleted
  <2>1. GoodVehicles(booking, reservations')
    BY <1>0, <1>4, GoodVehiclesChange DEF RewriteVehicle, GoodRequest
  <2>2. CASE request' = [request EXCEPT ![r] = Idle]
    BY <1>4, <2>1, <2>2, IdleGood, LocalStepIInv DEF RewriteVehicle
  <2>3. CASE request' = [request EXCEPT ![r].stage = "reread", ![r].at = {}, ![r].copy = {}]
    <3> DEFINE q == [request[r] EXCEPT !.stage = "reread", !.at = {}, !.copy = {}]
    <3>1. request' = [request EXCEPT ![r] = q]
      BY <1>0, <2>3
    <3>2. GoodRequest(booking, q)
      <4>1. /\ q \in Request /\ q.stage = "reread" /\ q.booking = request[r].booking
            /\ q.cart = request[r].cart /\ q.todo = request[r].todo
            /\ q.at = {} /\ q.copy = {}
        BY <1>0 DEF Request, Stages
      <4>2. request[r].stage = "rewrite" /\ request[r].todo \subseteq DOMAIN request[r].cart
        BY <1>0, <1>4 DEF RewriteVehicle, GoodRequest
      <4> HIDE DEF q
      <4> QED
        BY <4>1, <4>2, LoopGood
    <3> QED
      BY <1>4, <2>1, <3>1, <3>2, LocalStepIInv DEF RewriteVehicle
  <2> QED
    BY <1>4, <2>2, <2>3 DEF RewriteVehicle, Return
<1> QED
  BY <1>1, <1>2, <1>3, <1>4

\* What a release leaves.
LEMMA ReleasedGood ==
    ASSUME NEW S, Entries(S), Known(booking, S), NEW T, T \subseteq S
    PROVE  Entries(T) /\ Known(booking, T)
BY SubsetType DEF Known

\* The three outcomes of a turn of the release loop.
LEMMA ReadForReleaseCases ==
    ASSUME NEW r \in Requests, NEW v \in Vehicles, ReadForRelease(r, v)
    PROVE  /\ v \in deleted =>
                 request' = [request EXCEPT ![r] = [request[r] EXCEPT !.todo = {}]]
           /\ v \notin deleted /\ reservations[v] = {} =>
                 request' = [request EXCEPT ![r] =
                                [request[r] EXCEPT !.todo = request[r].todo \ {v}]]
           /\ v \notin deleted /\ reservations[v] # {} =>
                 request' = [request EXCEPT ![r] =
                    [request[r] EXCEPT !.stage = "releaseWrite",
                                       !.todo = request[r].todo \ {v}, !.at = {v},
                                       !.copy = Released(reservations[v],
                                                         request[r].booking,
                                                         request[r].cart[v])]]
<1> DEFINE gone == [request[r] EXCEPT !.todo = {}]
           skipped == [request[r] EXCEPT !.todo = request[r].todo \ {v}]
           held == [request[r] EXCEPT !.stage = "releaseWrite",
                                      !.todo = request[r].todo \ {v}, !.at = {v},
                                      !.copy = Released(reservations[v],
                                                        request[r].booking,
                                                        request[r].cart[v])]
<1>1. request' = [request EXCEPT ![r] =
                    IF v \in deleted THEN gone
                    ELSE IF reservations[v] = {} THEN skipped ELSE held]
  BY Zenon DEF ReadForRelease
<1> HIDE DEF gone, skipped, held
<1>2. /\ v \in deleted => request' = [request EXCEPT ![r] = gone]
      /\ v \notin deleted /\ reservations[v] = {} =>
            request' = [request EXCEPT ![r] = skipped]
      /\ v \notin deleted /\ reservations[v] # {} =>
            request' = [request EXCEPT ![r] = held]
  BY <1>1
<1> QED
  BY <1>2 DEF gone, skipped, held

\* The loop that releases the vehicles of a cancelled booking.
LEMMA ReleaseIInv ==
    ASSUME IInv, NEW r \in Requests, NEW v \in Vehicles,
           ReadForRelease(r, v) \/ WriteReleased(r, v)
    PROVE  IInv'
<1>0. /\ request \in [Requests -> Request] /\ GoodRequest(booking, request[r])
      /\ request[r] \in Request /\ GoodVehicles(booking, reservations)
      /\ request[r].todo \subseteq DOMAIN request[r].cart
  BY DEF IInv, GoodRequest
<1>1. CASE ReadForRelease(r, v) /\ (v \in deleted \/ reservations[v] = {})
  <2> DEFINE left == IF v \in deleted THEN {} ELSE request[r].todo \ {v}
             q == [request[r] EXCEPT !.todo = left]
  <2>1. request' = [request EXCEPT ![r] = q]
    <3>1. CASE v \in deleted
      <4>1. left = {}
        BY <3>1
      <4> HIDE DEF left
      <4> QED
        BY <1>1, <3>1, <4>1, ReadForReleaseCases
    <3>2. CASE v \notin deleted /\ reservations[v] = {}
      <4>1. left = request[r].todo \ {v}
        BY <3>2
      <4> HIDE DEF left
      <4> QED
        BY <1>1, <3>2, <4>1, ReadForReleaseCases
    <3> QED
      BY <1>1, <3>1, <3>2
  <2>2. request[r].stage = "release" /\ request[r].at = {} /\ left \subseteq request[r].todo
    BY <1>0, <1>1 DEF ReadForRelease, GoodRequest
  <2> HIDE DEF left
  <2>3. /\ q \in Request /\ q.stage = "release" /\ q.booking = request[r].booking
        /\ q.cart = request[r].cart /\ q.todo = left /\ q.at = {} /\ q.copy = request[r].copy
    BY <1>0, <2>2 DEF Request
  <2> HIDE DEF q
  <2>4. GoodRequest(booking, q)
    BY <1>0, <2>2, <2>3, LoopGood
  <2> QED
    BY <1>0, <1>1, <2>1, <2>4, LocalStepIInv DEF ReadForRelease
<1>2. CASE ReadForRelease(r, v) /\ ~(v \in deleted \/ reservations[v] = {})
  <2> DEFINE S == Released(reservations[v], request[r].booking, request[r].cart[v])
             q == [request[r] EXCEPT !.stage = "releaseWrite", !.todo = request[r].todo \ {v},
                                     !.at = {v}, !.copy = S]
  <2>1. request[r].stage = "release" /\ v \in request[r].todo
    BY <1>2 DEF ReadForRelease
  <2>2. Entries(S) /\ Known(booking, S)
    BY <1>0, ReleasedGood DEF GoodVehicles, Released
  <2>3. request' = [request EXCEPT ![r] = q]
    <3>1. v \notin deleted /\ reservations[v] # {}
      BY <1>2
    <3> QED
      BY <1>2, <3>1, ReadForReleaseCases
  <2> HIDE DEF S
  <2>4. GoodRequest(booking, q)
    BY <2>1, <2>2, HoldGood
  <2> QED
    BY <1>0, <1>2, <2>3, <2>4, LocalStepIInv DEF ReadForRelease
<1>3. CASE WriteReleased(r, v)
  <2> DEFINE left == IF v \in deleted THEN {} ELSE request[r].todo
             q == [request[r] EXCEPT !.stage = "release", !.at = {}, !.copy = {},
                                     !.todo = left]
  <2>1. GoodVehicles(booking, reservations')
    <3>1. CASE v \in deleted
      BY <1>0, <1>3, <3>1 DEF WriteReleased
    <3>2. CASE v \notin deleted
      BY <1>0, <1>3, <3>2, GoodVehiclesChange DEF WriteReleased, GoodRequest
    <3> QED
      BY <3>1, <3>2
  <2>2. request' = [request EXCEPT ![r] = q]
    BY <1>0, <1>3 DEF WriteReleased
  <2>3. request[r].stage = "releaseWrite" /\ left \subseteq request[r].todo
    BY <1>3 DEF WriteReleased
  <2> HIDE DEF left
  <2>4. /\ q \in Request /\ q.stage = "release" /\ q.booking = request[r].booking
        /\ q.cart = request[r].cart /\ q.todo = left /\ q.at = {} /\ q.copy = {}
    BY <1>0, <2>3 DEF Request, Stages
  <2> HIDE DEF q
  <2>5. GoodRequest(booking, q)
    BY <1>0, <2>3, <2>4, LoopGood
  <2> QED
    BY <1>3, <2>1, <2>2, <2>5, LocalStepIInv DEF WriteReleased
<1> QED
  BY <1>1, <1>2, <1>3

LEMMA FinishCancelIInv ==
    ASSUME IInv, NEW r \in Requests, FinishCancel(r)
    PROVE  IInv'
<1>0. /\ GoodRequest(booking, request[r]) /\ request[r] \in Request
      /\ GoodVehicles(booking, reservations) /\ booking \in BookingDocs
  BY DEF IInv
<1> DEFINE b == request[r].booking
           doc == [status |-> "cancelled",
                   cart |-> IF request[r].op = "cancel" THEN request[r].cart
                            ELSE booking[b].cart]
<1>1. b \in Bookings
  BY <1>0 DEF FinishCancel, GoodRequest
<1>2. booking' = [booking EXCEPT ![b] = doc]
  BY DEF FinishCancel
<1>3. doc \in [status : {"none", "open", "cancelled"}, cart : Cart] /\ doc.status # "none"
  BY <1>0, <1>1 DEF Request, BookingDocs
<1>4. booking' \in BookingDocs /\ Grows(booking, booking')
  BY <1>0, <1>1, <1>2, <1>3 DEF BookingDocs, Grows
<1>5. request' = [request EXCEPT ![r] = Idle]
  BY DEF FinishCancel, Return
<1>6. GoodVehicles(booking', reservations')
  BY <1>0, <1>4, GoodVehiclesGrow DEF FinishCancel
<1>7. GoodRequest(booking', Idle)
  BY IdleGood
<1> QED
  BY <1>4, <1>5, <1>6, <1>7, StepIInv DEF FinishCancel

\* What clients start.
LEMMA StartIInv ==
    ASSUME IInv, NEW r \in Requests, NEW b \in Bookings,
           NEW op \in AllOperations, NEW cart \in Cart,
           StartCreate(r, op, b, cart) \/ StartCancel(r, op, b)
    PROVE  IInv'
<1>0. GoodVehicles(booking, reservations) /\ booking \in BookingDocs
  BY DEF IInv
<1>1. CASE StartCreate(r, op, b, cart)
  <2> DEFINE q == [stage |-> "check", op |-> op, booking |-> b, cart |-> cart,
                   todo |-> IF op = "admin" THEN {} ELSE DOMAIN cart,
                   at |-> {}, copy |-> {}]
  <2>1. request' = [request EXCEPT ![r] = q]
    BY <1>1 DEF StartCreate, Begin
  <2>2. GoodRequest(booking, q)
    BY CartType, EmptyEntries DEF GoodRequest, Request, Stages, Known
  <2> HIDE DEF q
  <2> QED
    BY <1>0, <1>1, <2>1, <2>2, LocalStepIInv DEF StartCreate
<1>2. CASE StartCancel(r, op, b)
  <2> DEFINE old == booking[b].cart
             q == [stage |-> "release", op |-> op, booking |-> b, cart |-> old,
                   todo |-> DOMAIN old, at |-> {}, copy |-> {}]
  <2>1. request' = [request EXCEPT ![r] = q]
    <3>1. op # "admin"
      BY <1>2 DEF StartCancel
    <3> QED
      BY <1>2, <3>1 DEF StartCancel, Begin
  <2>2. old \in Cart /\ booking[b].status # "none"
    BY <1>0, <1>2 DEF StartCancel, Answered, BookingDocs
  <2> HIDE DEF old
  <2>3. GoodRequest(booking, q)
    BY <2>2, CartType, EmptyEntries DEF GoodRequest, Request, Stages, Known
  <2> HIDE DEF q
  <2> QED
    BY <1>0, <1>2, <2>1, <2>3, LocalStepIInv DEF StartCancel
<1> QED
  BY <1>1, <1>2

\* A step of staff, which no handler takes part in.
LEMMA ChangeIInv ==
    ASSUME IInv, booking' \in BookingDocs, Grows(booking, booking'),
           GoodVehicles(booking', reservations'), deleted' \subseteq Vehicles,
           changes < MaxChanges, changes' = changes + 1, UNCHANGED request
    PROVE  IInv'
<1>1. \A s \in Requests : GoodRequest(booking', request'[s])
  BY GoodRequestGrows DEF IInv
<1>2. changes' \in 0 .. MaxChanges
  BY ConstantsAssumption DEF IInv
<1> QED
  BY <1>1, <1>2 DEF IInv

\* The cart of a booking is replaced.
LEMMA CartReplaced ==
    ASSUME IInv, NEW b \in Bookings, NEW cart \in Cart,
           booking' = [booking EXCEPT ![b].cart = cart]
    PROVE  booking' \in BookingDocs /\ Grows(booking, booking')
<1>1. booking \in BookingDocs
  BY DEF IInv
<1>2. booking' = [booking EXCEPT ![b] = [booking[b] EXCEPT !.cart = cart]]
  BY <1>1 DEF BookingDocs
<1>3. /\ [booking[b] EXCEPT !.cart = cart] \in
            [status : {"none", "open", "cancelled"}, cart : Cart]
      /\ [booking[b] EXCEPT !.cart = cart].status = booking[b].status
  BY <1>1 DEF BookingDocs
<1> QED
  BY <1>1, <1>2, <1>3 DEF BookingDocs, Grows

\* The reservations that follow a new cart of a contract.
LEMMA ContractIInv ==
    ASSUME IInv, NEW r \in Requests, NEW op, NEW b \in Bookings, NEW cart \in Cart,
           ChangeContractCart(r, op, b, cart)
    PROVE  IInv'
<1>0. /\ GoodVehicles(booking, reservations) /\ booking \in BookingDocs
      /\ booking[b].status # "none" /\ booking[b].cart \in Cart
  BY DEF IInv, BookingDocs, ChangeContractCart, Answered
<1>1. booking' \in BookingDocs /\ Grows(booking, booking')
  BY CartReplaced DEF ChangeContractCart
<1> DEFINE old == booking[b].cart
           gone == DOMAIN old \ DOMAIN cart
           come == DOMAIN cart \ DOMAIN old
           kept == DOMAIN old \cap DOMAIN cart
           entries(v) ==
             CASE v \in gone \ deleted -> ReleasedFirst(reservations[v], b, old[v])
               [] v \in kept \ deleted /\ op = "contract" /\ old[v] # cart[v] ->
                     Redated(reservations[v], b, old[v], cart[v])
               [] v \in come \ deleted /\ op = "contract" ->
                     Pushed(reservations[v], b, cart[v])
               [] OTHER -> reservations[v]
<1>2. reservations' = [v \in Vehicles |-> entries(v)]
  BY DEF ChangeContractCart
<1>3. ASSUME NEW v \in Vehicles
      PROVE  Entries(entries(v)) /\ Known(booking, entries(v))
  <2>1. Entries(reservations[v]) /\ Known(booking, reservations[v])
    BY <1>0 DEF GoodVehicles
  <2>2. CASE v \in gone \ deleted
    <3>1. ReleasedFirst(reservations[v], b, old[v]) \subseteq reservations[v]
      BY DEF ReleasedFirst
    <3>2. entries(v) = ReleasedFirst(reservations[v], b, old[v])
      BY <2>2
    <3> QED
      BY <2>1, <3>1, <3>2, ReleasedGood
  <2>3. CASE v \in kept \ deleted /\ op = "contract" /\ old[v] # cart[v]
    <3>1. entries(v) = Redated(reservations[v], b, old[v], cart[v])
      BY <2>3
    <3>2. old[v] \in Interval /\ cart[v] \in Interval
      BY <1>0, <2>3, CartType
    <3> HIDE DEF old
    <3>3. Entries(Redated(reservations[v], b, old[v], cart[v]))
      BY <2>1, <3>2, RedatedType
    <3>4. Known(booking, Redated(reservations[v], b, old[v], cart[v]))
      <4>1. \A f \in Redated(reservations[v], b, old[v], cart[v]) :
               \E e \in reservations[v] : f.booking = e.booking
        BY <2>1 DEF Redated, FirstMatch, Entries, Entry
      <4> QED
        BY <2>1, <4>1 DEF Known
    <3> QED
      BY <3>1, <3>3, <3>4
  <2>4. CASE v \in come \ deleted /\ op = "contract"
    <3>1. entries(v) = Pushed(reservations[v], b, cart[v])
      BY <2>4
    <3>2. cart[v] \in Interval
      BY <2>4, CartType
    <3> QED
      BY <1>0, <2>1, <3>1, <3>2, PushedType, PushedKnown
  <2>5. CASE /\ v \notin gone \ deleted
             /\ ~(v \in kept \ deleted /\ op = "contract" /\ old[v] # cart[v])
             /\ ~(v \in come \ deleted /\ op = "contract")
    <3>1. entries(v) = reservations[v]
      BY <2>5
    <3> QED
      BY <2>1, <3>1
  <2> QED
    BY <2>2, <2>3, <2>4, <2>5
<1> HIDE DEF entries, old, gone, come, kept
<1>4. GoodVehicles(booking, reservations')
  <2>1. \A v \in Vehicles : entries(v) \in SUBSET Entry
    BY <1>3 DEF Entries
  <2> QED
    BY <1>2, <1>3, <2>1 DEF GoodVehicles
<1>5. GoodVehicles(booking', reservations')
  BY <1>1, <1>4, GoodVehiclesGrow
<1> QED
  BY <1>1, <1>5, ChangeIInv DEF ChangeContractCart, Change, IInv

LEMMA EditBookingIInv ==
    ASSUME IInv, NEW r \in Requests, NEW b \in Bookings, NEW cart \in Cart,
           EditBookingCart(r, b, cart)
    PROVE  IInv'
<1>1. booking' \in BookingDocs /\ Grows(booking, booking')
  BY CartReplaced DEF EditBookingCart
<1>2. GoodVehicles(booking', reservations')
  BY <1>1, GoodVehiclesGrow DEF IInv, EditBookingCart
<1> QED
  BY <1>1, <1>2, ChangeIInv DEF EditBookingCart, Change, IInv

\* What staff does to vehicles.
LEMMA VehicleIInv ==
    ASSUME IInv, NEW r \in Requests, NEW v \in Vehicles,
           EditVehicle(r, v) \/ UpdatePrices(r, v) \/ DeleteVehicle(r, v)
    PROVE  IInv'
<1>0. /\ GoodVehicles(booking, reservations) /\ booking \in BookingDocs
      /\ Entries(reservations[v]) /\ Known(booking, reservations[v])
      /\ deleted \subseteq Vehicles
  BY DEF IInv, GoodVehicles
<1>1. CASE EditVehicle(r, v)
  <2> DEFINE A == Anonymous(reservations[v])
  <2>1. PICK S \in {{}, A} \cup {Pushed(A, NoBooking, i) : i \in Interval} :
           reservations' = [reservations EXCEPT ![v] = S]
    BY <1>1 DEF EditVehicle
  <2>2. Entries(A) /\ Known(booking, A)
    <3>1. \A e \in A : e.booking = NoBooking
      BY <1>0 DEF Anonymous, Entries, Entry
    <3> QED
      BY <1>0, <3>1, AnonymousType DEF Known
  <2> HIDE DEF A
  <2>3. Entries(S) /\ Known(booking, S)
    <3>1. CASE S = {}
      BY <3>1, EmptyEntries DEF Known
    <3>2. CASE S = A
      BY <2>2, <3>2
    <3>3. ASSUME NEW i \in Interval, S = Pushed(A, NoBooking, i)
          PROVE  Entries(S) /\ Known(booking, S)
      <4>1. Entries(S)
        BY <2>2, <3>3, PushedType
      <4>2. Known(booking, S)
        BY <2>2, <3>3 DEF Known, Pushed
      <4> QED
        BY <4>1, <4>2
    <3> QED
      BY <2>1, <3>1, <3>2, <3>3
  <2>4. GoodVehicles(booking, reservations')
    BY <1>0, <2>1, <2>3, GoodVehiclesChange
  <2> QED
    BY <1>0, <1>1, <2>4, ChangeIInv DEF EditVehicle, Change, Grows
<1>2. CASE UpdatePrices(r, v)
  <2>1. Known(booking, {})
    BY DEF Known
  <2>2. GoodVehicles(booking, reservations')
    BY <1>0, <1>2, <2>1, EmptyEntries, GoodVehiclesChange DEF UpdatePrices
  <2> QED
    BY <1>0, <1>2, <2>2, ChangeIInv DEF UpdatePrices, Change, Grows
<1>3. CASE DeleteVehicle(r, v)
  BY <1>0, <1>3, ChangeIInv DEF DeleteVehicle, Change, Grows
<1> QED
  BY <1>1, <1>2, <1>3

LEMMA StutterIInv == IInv /\ UNCHANGED vars => IInv'
BY DEF IInv, vars, GoodVehicles, GoodRequest, Known, Entries

\* The inductive invariant holds of every behaviour.
THEOREM IInvariance == Spec => []IInv
<1>1. ASSUME IInv, NEW r \in Requests, Handle(r) \/ Ask(r) \/ Abort(r)
      PROVE  IInv'
  <2>1. ASSUME NEW v \in Vehicles,
               \/ CheckVehicle(r, v) \/ RefuseVehicle(r, v) \/ PushReservation(r, v)
               \/ RereadVehicle(r, v) \/ RewriteVehicle(r, v)
               \/ ReadForRelease(r, v) \/ WriteReleased(r, v)
        PROVE  IInv'
    BY <1>1, <2>1, CheckIInv, PushIInv, RereadIInv, ReleaseIInv
  <2>2. CASE SaveBooking(r) \/ SaveBookingUserGone(r)
    BY <1>1, <2>2, SaveIInv
  <2>3. CASE FinishCancel(r)
    BY <1>1, <2>3, FinishCancelIInv
  <2>4. CASE Ask(r)
    <3>1. ASSUME NEW b \in Bookings, NEW op \in {"web", "manual", "admin"},
                 NEW cart \in Cart \ {Nothing}, StartCreate(r, op, b, cart)
          PROVE  IInv'
      BY <1>1, <3>1, StartIInv DEF AllOperations
    <3>2. ASSUME NEW b \in Bookings, NEW op \in {"cancel", "update"}, StartCancel(r, op, b)
          PROVE  IInv'
      BY <1>1, <3>2, StartIInv, CartType DEF AllOperations
    <3>3. ASSUME NEW b \in Bookings, NEW cart \in Cart \ {Nothing},
                 \/ EditBookingCart(r, b, cart)
                 \/ \E op \in {"contract", "vehicleChange"} :
                       ChangeContractCart(r, op, b, cart)
          PROVE  IInv'
      BY <1>1, <3>3, EditBookingIInv, ContractIInv
    <3>4. ASSUME NEW v \in Vehicles,
                 EditVehicle(r, v) \/ UpdatePrices(r, v) \/ DeleteVehicle(r, v)
          PROVE  IInv'
      BY <1>1, <3>4, VehicleIInv
    <3> QED
      BY <2>4, <3>1, <3>2, <3>3, <3>4 DEF Ask
  <2>5. CASE Abort(r)
    BY <1>1, <2>5, ReturnIInv DEF Abort
  <2> QED
    BY <1>1, <2>1, <2>2, <2>3, <2>4, <2>5 DEF Handle
<1>2. IInv /\ [Next]_vars => IInv'
  BY <1>1, StutterIInv DEF Next
<1> QED
  BY InitIInv, <1>2, PTL DEF Spec

\* Types, for handlers that interleave in any way and stop anywhere.
THEOREM TypeCorrect == Spec => []TypeOK
<1>1. IInv => TypeOK
  BY DEF IInv, TypeOK, GoodVehicles, GoodRequest, BookingDocs
<1> QED
  BY <1>1, IInvariance, PTL

\* An entry that names a booking names one that was inserted, whatever stale copies
\* of the reservations are written back.
THEOREM EntriesNameBookings == Spec => []EntriesHaveBookings
<1>1. IInv => EntriesHaveBookings
  BY DEF IInv, GoodVehicles, Known, EntriesHaveBookings
<1> QED
  BY <1>1, IInvariance, PTL

-----------------------------------------------------------------------------
(* Handlers that run one after the other never book a vehicle twice.  That *)
(* speaks of the arrays only.  It is kept because between the check of a   *)
(* vehicle and the push of its reservation nobody else adds an entry: what *)
(* the check has found is still true at the push (Spared).  That is the    *)
(* step which fails as soon as there are two handlers, as the run          *)
(* MCReservationsRace shows.                                               *)

\* Two periods share a moment.
Overlap(i, e) == i.start < e.end /\ e.start < i.end

\* Every entry is a period.
Proper(S) == \A e \in S : e.start < e.end

\* No two bookings hold overlapping periods.
Apart(S) ==
    \A e, f \in S : e.booking # f.booking /\ NoBooking \notin {e.booking, f.booking} =>
        ~Conflict(e, f)

\* Nothing but booking b, or nobody, is in the way of dates i.
Spared(S, b, i) ==
    \A e \in S : e.booking \notin {b, NoBooking} => ~Conflict(i, e)

SerialRequest(arrays, q) ==
    /\ Proper(q.copy) /\ Apart(q.copy)
    /\ q.stage = "check" =>
          \A v \in DOMAIN q.cart \ q.todo : Spared(arrays[v], q.booking, q.cart[v])
    /\ q.stage \in {"push", "reread", "rewrite"} =>
          \A v \in DOMAIN q.cart : Spared(arrays[v], q.booking, q.cart[v])
    /\ q.stage = "rewrite" =>
          \A v \in q.at : Spared(q.copy, q.booking, q.cart[v])
    /\ q.op # "admin"

SerialVehicles(arrays) ==
    \A v \in Vehicles : Proper(arrays[v]) /\ Apart(arrays[v])

SInv ==
    /\ SerialVehicles(reservations)
    /\ \A r \in Requests : SerialRequest(reservations, request[r])

\* One handler at a time; addManualBookingInUser, which checks nothing, and the new
\* carts of contracts, which are checked nowhere, are left out.
Serial ==
    /\ \E r \in Requests : Requests = {r}
    /\ Operations \cap {"admin", "contract"} = {}

-----------------------------------------------------------------------------
\* The three cases that create and addManualBookingInUserFromCart distinguish are
\* overlap, no more and no less.
THEOREM ConflictIsOverlap ==
    ASSUME NEW i, NEW e, i.start \in Int, i.end \in Int, e.start \in Int, e.end \in Int,
           i.start < i.end, e.start < e.end
    PROVE  Conflict(i, e) <=> Overlap(i, e)
BY DEF Conflict, Overlap

LEMMA ConflictIsSymmetric ==
    ASSUME NEW i, NEW e, i.start \in Int, i.end \in Int, e.start \in Int, e.end \in Int,
           i.start < i.end, e.start < e.end
    PROVE  Conflict(i, e) <=> Conflict(e, i)
BY DEF Conflict

LEMMA TimesOfInterval ==
    ASSUME NEW i \in Interval
    PROVE  i.start \in Int /\ i.end \in Int /\ i.start < i.end
BY ConstantsAssumption DEF Interval

LEMMA TimesOfEntries ==
    ASSUME NEW S, Entries(S)
    PROVE  \A e \in S : e.start \in Int /\ e.end \in Int
BY ConstantsAssumption DEF Entries, Entry

\* A push for the booking that the dates were checked for.
LEMMA PushedApart ==
    ASSUME NEW S, Entries(S), Proper(S), Apart(S), NEW b \in Bookings, NEW i \in Interval,
           Spared(S, b, i)
    PROVE  Proper(Pushed(S, b, i)) /\ Apart(Pushed(S, b, i))
<1> DEFINE new == [start |-> i.start, end |-> i.end, booking |-> b, pos |-> NextPos(S)]
<1>1. i.start \in Int /\ i.end \in Int /\ i.start < i.end
  BY TimesOfInterval
<1>2. \A e \in S : e.start \in Int /\ e.end \in Int /\ e.start < e.end
  BY TimesOfEntries DEF Proper
<1>3. new.start = i.start /\ new.end = i.end /\ new.booking = b
  OBVIOUS
<1>4. Pushed(S, b, i) = S \cup {new}
  BY DEF Pushed
<1> HIDE DEF new
<1>5. Proper(Pushed(S, b, i))
  BY <1>1, <1>3, <1>4 DEF Proper
<1>6. \A e \in S : e.booking \notin {b, NoBooking} => ~Conflict(new, e) /\ ~Conflict(e, new)
  <2> SUFFICES ASSUME NEW e \in S, e.booking \notin {b, NoBooking}
               PROVE  ~Conflict(new, e) /\ ~Conflict(e, new)
    OBVIOUS
  <2>1. ~Conflict(new, e)
    BY <1>3 DEF Spared, Conflict
  <2> QED
    BY <1>1, <1>2, <1>3, <2>1, ConflictIsSymmetric
<1>7. Apart(Pushed(S, b, i))
  <2> SUFFICES ASSUME NEW e \in Pushed(S, b, i), NEW f \in Pushed(S, b, i),
                      e.booking # f.booking, NoBooking \notin {e.booking, f.booking}
               PROVE  ~Conflict(e, f)
    BY DEF Apart
  <2>1. CASE e \in S /\ f \in S
    BY <2>1 DEF Apart
  <2>2. CASE e \in S /\ f = new
    BY <1>3, <1>6, <2>2
  <2>3. CASE e = new /\ f \in S
    BY <1>3, <1>6, <2>3
  <2> QED
    BY <1>4, <2>1, <2>2, <2>3
<1> QED
  BY <1>5, <1>7

\* ... is in nobody's way who works for the same booking.
LEMMA PushedSpared ==
    ASSUME NEW S, NEW b, NEW i, NEW j, Spared(S, b, j)
    PROVE  Spared(Pushed(S, b, i), b, j)
BY DEF Spared, Pushed

LEMMA SubsetApart ==
    ASSUME NEW S, Proper(S), Apart(S), NEW T, T \subseteq S
    PROVE  Proper(T) /\ Apart(T)
BY DEF Proper, Apart

LEMMA EmptyApart == Proper({}) /\ Apart({})
BY DEF Proper, Apart

LEMMA IdleSerial ==
    ASSUME NEW arrays
    PROVE  SerialRequest(arrays, Idle)
BY EmptyApart DEF SerialRequest, Idle

LEMMA VehicleChange ==
    ASSUME IInv, SInv, NEW v \in Vehicles, NEW S, Proper(S), Apart(S),
           reservations' = [reservations EXCEPT ![v] = S]
    PROVE  SerialVehicles(reservations')
<1>1. \A w \in Vehicles : reservations'[w] = IF w = v THEN S ELSE reservations[w]
  BY DEF IInv, GoodVehicles
<1> QED
  BY <1>1 DEF SInv, SerialVehicles

\* A step of the only handler.
LEMMA SerialStep ==
    ASSUME Serial, IInv, NEW r \in Requests, NEW q, request' = [request EXCEPT ![r] = q],
           SerialVehicles(reservations'), SerialRequest(reservations', q)
    PROVE  SInv'
<1>1. \A s \in Requests : request'[s] = q
  BY DEF Serial, IInv
<1> QED
  BY <1>1 DEF SInv

-----------------------------------------------------------------------------
\* The checks, the insert and the push.
LEMMA CreateSerial ==
    ASSUME Serial, IInv, SInv, NEW r \in Requests, NEW v \in Vehicles,
           CheckVehicle(r, v) \/ RefuseVehicle(r, v)
    PROVE  SInv'
<1>0. /\ request \in [Requests -> Request] /\ request[r] \in Request
      /\ SerialVehicles(reservations') /\ SerialRequest(reservations, request[r])
      /\ UNCHANGED reservations
  BY DEF IInv, SInv, CheckVehicle, RefuseVehicle
<1>1. CASE RefuseVehicle(r, v)
  <2>1. request' = [request EXCEPT ![r] = Idle]
    BY <1>1 DEF RefuseVehicle, Return
  <2> QED
    BY <1>0, <2>1, IdleSerial, SerialStep
<1>2. CASE CheckVehicle(r, v)
  <2> DEFINE q == [request[r] EXCEPT !.todo = request[r].todo \ {v}]
  <2>1. request' = [request EXCEPT ![r] = q]
    BY <1>0, <1>2 DEF CheckVehicle
  <2>2. Spared(reservations[v], request[r].booking, request[r].cart[v])
    BY <1>2 DEF CheckVehicle, Available, Spared
  <2>3. /\ q.copy = request[r].copy /\ q.stage = "check" /\ q.op = request[r].op
        /\ q.booking = request[r].booking /\ q.cart = request[r].cart
        /\ q.todo = request[r].todo \ {v} /\ request[r].stage = "check"
    BY <1>0, <1>2 DEF Request, CheckVehicle
  <2> HIDE DEF q
  <2>4. SerialRequest(reservations, q)
    BY <1>0, <2>2, <2>3 DEF SerialRequest
  <2> QED
    BY <1>0, <2>1, <2>4, SerialStep
<1> QED
  BY <1>1, <1>2

LEMMA SaveSerial ==
    ASSUME Serial, IInv, SInv, NEW r \in Requests, SaveBooking(r) \/ SaveBookingUserGone(r)
    PROVE  SInv'
<1>0. /\ request \in [Requests -> Request] /\ request[r] \in Request
      /\ SerialVehicles(reservations') /\ SerialRequest(reservations, request[r])
      /\ UNCHANGED reservations
      /\ request[r].stage = "check" /\ request[r].todo = {}
  BY DEF IInv, SInv, SaveBooking, SaveBookingUserGone
<1> DEFINE q == [request[r] EXCEPT !.stage = "push", !.todo = DOMAIN request[r].cart]
<1>1. request' = [request EXCEPT ![r] = q] \/ request' = [request EXCEPT ![r] = Idle]
  BY <1>0 DEF SaveBooking, SaveBookingUserGone, Return
<1>2. /\ q.copy = request[r].copy /\ q.stage = "push" /\ q.op = request[r].op
      /\ q.booking = request[r].booking /\ q.cart = request[r].cart
  BY <1>0 DEF Request
<1> HIDE DEF q
<1>3. SerialRequest(reservations, q)
  BY <1>0, <1>2 DEF SerialRequest
<1> QED
  BY <1>0, <1>1, <1>3, IdleSerial, SerialStep

\* A vehicle of the cart whose array becomes S, while the handler keeps what it holds.
LEMMA SparedAfter ==
    ASSUME IInv, SInv, NEW r \in Requests, NEW v \in Vehicles,
           request[r].stage \in {"push", "reread", "rewrite"},
           Spared(reservations'[v], request[r].booking, request[r].cart[v]),
           \A w \in Vehicles \ {v} : reservations'[w] = reservations[w]
    PROVE  \A w \in DOMAIN request[r].cart :
              Spared(reservations'[w], request[r].booking, request[r].cart[w])
<1>1. \A w \in DOMAIN request[r].cart :
         /\ w \in Vehicles
         /\ Spared(reservations[w], request[r].booking, request[r].cart[w])
  BY CartType DEF SInv, SerialRequest, IInv, Request
<1>2. TAKE w \in DOMAIN request[r].cart
<1>3. CASE w = v
  BY <1>3
<1>4. CASE w # v
  BY <1>1, <1>4
<1> QED
  BY <1>3, <1>4

LEMMA PushSerial ==
    ASSUME Serial, IInv, SInv, NEW r \in Requests, NEW v \in Vehicles,
           PushReservation(r, v)
    PROVE  SInv'
<1>0. /\ request \in [Requests -> Request] /\ request[r] \in Request
      /\ GoodRequest(booking, request[r]) /\ SerialRequest(reservations, request[r])
      /\ request[r].stage = "push" /\ v \in request[r].todo
  BY DEF IInv, SInv, PushReservation
<1> DEFINE b == request[r].booking
           cart == request[r].cart
<1>1. b \in Bookings /\ v \in DOMAIN cart /\ cart[v] \in Interval /\ cart \in Cart
  BY <1>0, CartType DEF GoodRequest, Request
<1>2. /\ SerialVehicles(reservations')
      /\ \A w \in DOMAIN cart : Spared(reservations'[w], b, cart[w])
  <2>1. CASE v \in deleted
    BY <1>0, <2>1 DEF PushReservation, SInv, SerialRequest
  <2>2. CASE v \notin deleted
    <3> DEFINE S == Pushed(reservations[v], b, cart[v])
    <3>1. reservations' = [reservations EXCEPT ![v] = S]
      BY <2>2 DEF PushReservation
    <3>2. /\ Entries(reservations[v]) /\ Proper(reservations[v]) /\ Apart(reservations[v])
          /\ Spared(reservations[v], b, cart[v])
      BY <1>0, <1>1 DEF IInv, GoodVehicles, SInv, SerialVehicles, SerialRequest
    <3>3. Proper(S) /\ Apart(S) /\ Spared(S, b, cart[v])
      BY <1>1, <3>2, PushedApart, PushedSpared
    <3> HIDE DEF S
    <3>4. SerialVehicles(reservations')
      BY <3>1, <3>3, VehicleChange
    <3>5. /\ request[r].stage \in {"push", "reread", "rewrite"}
          /\ reservations'[v] = S
          /\ \A w \in Vehicles \ {v} : reservations'[w] = reservations[w]
      BY <1>0, <3>1 DEF IInv, GoodVehicles
    <3>6. \A w \in DOMAIN cart : Spared(reservations'[w], b, cart[w])
      BY <3>3, <3>5, SparedAfter
    <3> QED
      BY <3>4, <3>6
  <2> QED
    BY <2>1, <2>2
<1>3. ASSUME NEW stage \in {"push", "reread"}, NEW todo,
             request' = [request EXCEPT ![r] =
                            [request[r] EXCEPT !.stage = stage, !.todo = todo]]
      PROVE  SInv'
  <2> DEFINE q == [request[r] EXCEPT !.stage = stage, !.todo = todo]
  <2>1. /\ q.copy = request[r].copy /\ q.stage = stage /\ q.op = request[r].op
        /\ q.booking = b /\ q.cart = cart
    BY <1>0 DEF Request
  <2>2. request' = [request EXCEPT ![r] = q]
    BY <1>3
  <2> HIDE DEF q
  <2>3. SerialRequest(reservations', q)
    BY <1>0, <1>2, <2>1 DEF SerialRequest
  <2> QED
    BY <1>2, <2>2, <2>3, SerialStep
<1>4. \/ request' = [request EXCEPT ![r] = Idle]
      \/ \E todo : request' = [request EXCEPT ![r] =
                        [request[r] EXCEPT !.stage = "push", !.todo = todo]]
      \/ \E todo : request' = [request EXCEPT ![r] =
                        [request[r] EXCEPT !.stage = "reread", !.todo = todo]]
  <2>1. \/ request' = [request EXCEPT ![r] = Idle]
        \/ request' = [request EXCEPT ![r].todo = request[r].todo \ {v}]
        \/ request' = [request EXCEPT ![r].stage = "reread", ![r].todo = DOMAIN cart]
    BY DEF PushReservation, Proceed, Return
  <2>2. [request EXCEPT ![r].todo = request[r].todo \ {v}] =
        [request EXCEPT ![r] = [request[r] EXCEPT !.stage = "push",
                                                  !.todo = request[r].todo \ {v}]]
    <3>1. [request[r] EXCEPT !.todo = request[r].todo \ {v}] =
          [request[r] EXCEPT !.stage = "push", !.todo = request[r].todo \ {v}]
      BY <1>0 DEF Request
    <3> QED
      BY <1>0, <3>1
  <2>3. [request EXCEPT ![r].stage = "reread", ![r].todo = DOMAIN cart] =
        [request EXCEPT ![r] = [request[r] EXCEPT !.stage = "reread",
                                                  !.todo = DOMAIN cart]]
    BY <1>0
  <2> QED
    BY <2>1, <2>2, <2>3
<1>5. CASE request' = [request EXCEPT ![r] = Idle]
  BY <1>2, <1>5, IdleSerial, SerialStep
<1> QED
  BY <1>3, <1>4, <1>5

\* Step 8.5 of addManualBookingInUserFromCart.
LEMMA RereadSerial ==
    ASSUME Serial, IInv, SInv, NEW r \in Requests, NEW v \in Vehicles, RereadVehicle(r, v)
    PROVE  SInv'
<1>0. /\ request \in [Requests -> Request] /\ request[r] \in Request
      /\ GoodRequest(booking, request[r]) /\ SerialRequest(reservations, request[r])
      /\ SerialVehicles(reservations') /\ UNCHANGED reservations
      /\ request[r].stage = "reread" /\ v \in request[r].todo
  BY DEF IInv, SInv, RereadVehicle
<1>1. CASE v \in deleted
  <2>1. request' = [request EXCEPT ![r] = Idle]
    BY <1>1 DEF RereadVehicle, Return
  <2> QED
    BY <1>0, <2>1, IdleSerial, SerialStep
<1>2. CASE v \notin deleted
  <2> DEFINE b == request[r].booking
             i == request[r].cart[v]
             S == Pushed(reservations[v], b, i)
             q == [request[r] EXCEPT !.stage = "rewrite", !.todo = request[r].todo \ {v},
                                     !.at = {v}, !.copy = S]
  <2>1. request' = [request EXCEPT ![r] = q]
    BY <1>0, <1>2 DEF RereadVehicle
  <2>2. b \in Bookings /\ i \in Interval /\ v \in DOMAIN request[r].cart
    BY <1>0, CartType DEF GoodRequest, Request
  <2>3. /\ Entries(reservations[v]) /\ Proper(reservations[v]) /\ Apart(reservations[v])
        /\ Spared(reservations[v], b, i)
    BY <1>0, <2>2 DEF IInv, GoodVehicles, SInv, SerialVehicles, SerialRequest
  <2>4. Proper(S) /\ Apart(S) /\ Spared(S, b, i)
    BY <2>2, <2>3, PushedApart, PushedSpared
  <2> HIDE DEF S
  <2>5. /\ q.copy = S /\ q.stage = "rewrite" /\ q.op = request[r].op /\ q.at = {v}
        /\ q.booking = request[r].booking /\ q.cart = request[r].cart
    BY <1>0 DEF Request
  <2> HIDE DEF q
  <2>6. SerialRequest(reservations, q)
    BY <1>0, <2>4, <2>5 DEF SerialRequest
  <2> QED
    BY <1>0, <2>1, <2>6, SerialStep
<1> QED
  BY <1>1, <1>2

LEMMA RewriteSerial ==
    ASSUME Serial, IInv, SInv, NEW r \in Requests, NEW v \in Vehicles, RewriteVehicle(r, v)
    PROVE  SInv'
<1>0. /\ request \in [Requests -> Request] /\ request[r] \in Request
      /\ SerialRequest(reservations, request[r])
      /\ request[r].stage = "rewrite" /\ v \in request[r].at
  BY DEF IInv, SInv, RewriteVehicle
<1>1. CASE v \in deleted
  <2>1. request' = [request EXCEPT ![r] = Idle] /\ SerialVehicles(reservations')
    BY <1>1 DEF RewriteVehicle, Return, SInv
  <2> QED
    BY <2>1, IdleSerial, SerialStep
<1>2. CASE v \notin deleted
  <2> DEFINE S == request[r].copy
  <2>1. reservations' = [reservations EXCEPT ![v] = S]
    BY <1>2 DEF RewriteVehicle
  <2>2. Proper(S) /\ Apart(S) /\ Spared(S, request[r].booking, request[r].cart[v])
    BY <1>0 DEF SerialRequest
  <2>3. SerialVehicles(reservations')
    BY <2>1, <2>2, VehicleChange
  <2> HIDE DEF S
  <2>4. \A w \in DOMAIN request[r].cart :
           Spared(reservations'[w], request[r].booking, request[r].cart[w])
    <3>1. /\ reservations'[v] = S
          /\ \A w \in Vehicles \ {v} : reservations'[w] = reservations[w]
      BY <2>1 DEF IInv, GoodVehicles
    <3> QED
      BY <1>0, <2>2, <3>1, SparedAfter
  <2>5. CASE request' = [request EXCEPT ![r] = Idle]
    BY <2>3, <2>5, IdleSerial, SerialStep
  <2>6. CASE request' = [request EXCEPT ![r].stage = "reread", ![r].at = {}, ![r].copy = {}]
    <3> DEFINE q == [request[r] EXCEPT !.stage = "reread", !.at = {}, !.copy = {}]
    <3>1. request' = [request EXCEPT ![r] = q]
      BY <1>0, <2>6
    <3>2. /\ q.copy = {} /\ q.stage = "reread" /\ q.op = request[r].op
          /\ q.booking = request[r].booking /\ q.cart = request[r].cart
      BY <1>0 DEF Request
    <3> HIDE DEF q
    <3>3. SerialRequest(reservations', q)
      BY <1>0, <2>4, <3>2, EmptyApart DEF SerialRequest
    <3> QED
      BY <2>3, <3>1, <3>3, SerialStep
  <2> QED
    BY <1>2, <2>5, <2>6 DEF RewriteVehicle, Return
<1> QED
  BY <1>1, <1>2

\* The release loop and the end of a cancellation.
LEMMA ReadSerial ==
    ASSUME Serial, IInv, SInv, NEW r \in Requests, NEW v \in Vehicles, ReadForRelease(r, v)
    PROVE  SInv'
<1>0. /\ request[r] \in Request /\ SerialRequest(reservations, request[r])
      /\ SerialVehicles(reservations') /\ UNCHANGED reservations
      /\ request[r].stage = "release"
  BY DEF IInv, SInv, ReadForRelease
<1>1. ASSUME NEW todo, request' = [request EXCEPT ![r] = [request[r] EXCEPT !.todo = todo]]
      PROVE  SInv'
  <2> DEFINE q == [request[r] EXCEPT !.todo = todo]
  <2>1. q.copy = request[r].copy /\ q.stage = "release" /\ q.op = request[r].op
    BY <1>0 DEF Request
  <2>2. request' = [request EXCEPT ![r] = q]
    BY <1>1
  <2> HIDE DEF q
  <2>3. SerialRequest(reservations, q)
    BY <1>0, <2>1 DEF SerialRequest
  <2> QED
    BY <1>0, <2>2, <2>3, SerialStep
<1>2. CASE v \notin deleted /\ reservations[v] # {}
  <2> DEFINE S == Released(reservations[v], request[r].booking, request[r].cart[v])
             q == [request[r] EXCEPT !.stage = "releaseWrite",
                                     !.todo = request[r].todo \ {v}, !.at = {v}, !.copy = S]
  <2>1. request' = [request EXCEPT ![r] = q]
    BY <1>2, ReadForReleaseCases
  <2>2. Proper(S) /\ Apart(S)
    <3>1. S \subseteq reservations[v]
      BY DEF Released
    <3>2. Proper(reservations[v]) /\ Apart(reservations[v])
      BY <1>0 DEF SInv, SerialVehicles
    <3> HIDE DEF S
    <3> QED
      BY <3>1, <3>2, SubsetApart
  <2> HIDE DEF S
  <2>3. q.copy = S /\ q.stage = "releaseWrite" /\ q.op = request[r].op
    BY <1>0 DEF Request
  <2> HIDE DEF q
  <2>4. SerialRequest(reservations, q)
    BY <1>0, <2>2, <2>3 DEF SerialRequest
  <2> QED
    BY <1>0, <2>1, <2>4, SerialStep
<1> QED
  BY <1>1, <1>2, ReadForReleaseCases

LEMMA WriteSerial ==
    ASSUME Serial, IInv, SInv, NEW r \in Requests, NEW v \in Vehicles, WriteReleased(r, v)
    PROVE  SInv'
<1>0. /\ request \in [Requests -> Request] /\ request[r] \in Request
      /\ SerialRequest(reservations, request[r])
  BY DEF IInv, SInv
<1>1. SerialVehicles(reservations')
  <2>1. CASE v \in deleted
    BY <2>1 DEF WriteReleased, SInv
  <2>2. CASE v \notin deleted
    BY <1>0, <2>2, VehicleChange DEF WriteReleased, SerialRequest
  <2> QED
    BY <2>1, <2>2
<1> DEFINE left == IF v \in deleted THEN {} ELSE request[r].todo
           q == [request[r] EXCEPT !.stage = "release", !.at = {}, !.copy = {}, !.todo = left]
<1>2. request' = [request EXCEPT ![r] = q]
  BY <1>0 DEF WriteReleased
<1> HIDE DEF left
<1>3. q.copy = {} /\ q.stage = "release" /\ q.op = request[r].op
  BY <1>0 DEF Request
<1> HIDE DEF q
<1>4. SerialRequest(reservations', q)
  BY <1>0, <1>3, EmptyApart DEF SerialRequest
<1> QED
  BY <1>1, <1>2, <1>4, SerialStep

LEMMA ReturnSerial ==
    ASSUME Serial, IInv, SInv, NEW r \in Requests, Return(r), UNCHANGED reservations
    PROVE  SInv'
<1>1. request' = [request EXCEPT ![r] = Idle] /\ SerialVehicles(reservations')
  BY DEF Return, SInv
<1> QED
  BY <1>1, IdleSerial, SerialStep

\* A handler starts: nothing has been checked yet, or nothing will be pushed.
LEMMA StartSerial ==
    ASSUME Serial, IInv, SInv, NEW r \in Requests, NEW b \in Bookings,
           \/ \E op \in {"web", "manual", "admin"}, cart \in Cart : StartCreate(r, op, b, cart)
           \/ \E op \in {"cancel", "update"} : StartCancel(r, op, b)
    PROVE  SInv'
<1>1. \E op \in {"web", "manual", "cancel", "update"}, stage \in {"check", "release"} :
         \E cart : Begin(r, op, stage, b, cart) /\ UNCHANGED reservations
  BY DEF StartCreate, StartCancel, Serial
<1>2. PICK op \in {"web", "manual", "cancel", "update"}, stage \in {"check", "release"} :
         \E cart : Begin(r, op, stage, b, cart) /\ UNCHANGED reservations
  BY <1>1
<1>3. PICK cart : Begin(r, op, stage, b, cart) /\ UNCHANGED reservations
  BY <1>2
<1> DEFINE q == [stage |-> stage, op |-> op, booking |-> b, cart |-> cart,
                 todo |-> DOMAIN cart, at |-> {}, copy |-> {}]
<1>4. request' = [request EXCEPT ![r] = q]
  BY <1>3 DEF Begin
<1>5. SerialRequest(reservations, q)
  BY EmptyApart DEF SerialRequest
<1>6. SerialVehicles(reservations')
  BY <1>3 DEF SInv
<1> HIDE DEF q
<1> QED
  BY <1>3, <1>4, <1>5, <1>6, SerialStep

\* What staff does while the only handler is idle.
LEMMA ChangeSerial ==
    ASSUME Serial, IInv, SInv, NEW r \in Requests, Free(r), UNCHANGED request,
           SerialVehicles(reservations')
    PROVE  SInv'
<1>1. \A s \in Requests : s = r
  BY DEF Serial
<1>2. SerialRequest(reservations, request[r]) /\ request[r].stage = "idle"
  BY DEF SInv, Free
<1>3. SerialRequest(reservations', request[r])
  BY <1>2 DEF SerialRequest
<1> QED
  BY <1>1, <1>3 DEF SInv

\* Of the contract's cart changes, the change of vehicle only takes entries out.
LEMMA VehicleChangeSerial ==
    ASSUME Serial, IInv, SInv, NEW r \in Requests, NEW b \in Bookings, NEW cart,
           \E op \in {"contract", "vehicleChange"} : ChangeContractCart(r, op, b, cart)
    PROVE  SInv'
<1>1. ChangeContractCart(r, "vehicleChange", b, cart)
  BY DEF ChangeContractCart, Change, Serial
<1>2. \A v \in Vehicles : reservations'[v] \subseteq reservations[v]
  <2> DEFINE old == booking[b].cart
             gone == DOMAIN old \ DOMAIN cart
  <2>1. reservations' = [v \in Vehicles |->
           IF v \in gone \ deleted THEN ReleasedFirst(reservations[v], b, old[v])
           ELSE reservations[v]]
    BY <1>1 DEF ChangeContractCart
  <2>2. \A v \in Vehicles :
           ReleasedFirst(reservations[v], b, old[v]) \subseteq reservations[v]
    BY DEF ReleasedFirst
  <2> QED
    BY <2>1, <2>2
<1>3. SerialVehicles(reservations')
  BY <1>2, SubsetApart DEF SInv, SerialVehicles
<1> QED
  BY <1>1, <1>3, ChangeSerial DEF ChangeContractCart, Change

\* Entries without a booking are in nobody's way.
LEMMA NobodysApart ==
    ASSUME NEW S, \A e \in S : e.booking = NoBooking
    PROVE  Apart(S)
BY DEF Apart

LEMMA VehicleSerial ==
    ASSUME Serial, IInv, SInv, NEW r \in Requests, NEW v \in Vehicles,
           EditVehicle(r, v) \/ UpdatePrices(r, v) \/ DeleteVehicle(r, v)
    PROVE  SInv'
<1>0. Entries(reservations[v]) /\ Proper(reservations[v])
  BY DEF IInv, GoodVehicles, SInv, SerialVehicles
<1>1. CASE EditVehicle(r, v)
  <2> DEFINE A == Anonymous(reservations[v])
  <2>1. PICK S \in {{}, A} \cup {Pushed(A, NoBooking, i) : i \in Interval} :
           reservations' = [reservations EXCEPT ![v] = S]
    BY <1>1 DEF EditVehicle
  <2>2. \A e \in A : e.booking = NoBooking /\ e.start < e.end
    BY <1>0 DEF Anonymous, Entries, Entry, Proper
  <2> HIDE DEF A
  <2>3. \A e \in S : e.booking = NoBooking /\ e.start < e.end
    <3>1. ASSUME NEW i \in Interval, S = Pushed(A, NoBooking, i)
          PROVE  \A e \in S : e.booking = NoBooking /\ e.start < e.end
      BY <2>2, <3>1, TimesOfInterval DEF Pushed
    <3> QED
      BY <2>1, <2>2, <3>1
  <2>4. Proper(S) /\ Apart(S)
    BY <2>3, NobodysApart DEF Proper
  <2>5. SerialVehicles(reservations')
    BY <2>1, <2>4, VehicleChange
  <2> QED
    BY <1>1, <2>5, ChangeSerial DEF EditVehicle, Change
<1>2. CASE UpdatePrices(r, v)
  <2>1. SerialVehicles(reservations')
    BY <1>2, EmptyApart, VehicleChange DEF UpdatePrices
  <2> QED
    BY <1>2, <2>1, ChangeSerial DEF UpdatePrices, Change
<1>3. CASE DeleteVehicle(r, v)
  BY <1>3, ChangeSerial DEF DeleteVehicle, Change, SInv
<1> QED
  BY <1>1, <1>2, <1>3

LEMMA InitSerial == Serial /\ Init => SInv
BY EmptyApart, IdleSerial DEF Init, SInv, SerialVehicles

LEMMA SerialInvariance ==
    ASSUME Serial
    PROVE  Spec => []SInv
<1>1. Init => SInv
  BY InitSerial
<1>2. ASSUME IInv, SInv, NEW r \in Requests, Handle(r) \/ Ask(r) \/ Abort(r)
      PROVE  SInv'
  <2>1. ASSUME NEW v \in Vehicles,
               \/ CheckVehicle(r, v) \/ RefuseVehicle(r, v) \/ PushReservation(r, v)
               \/ RereadVehicle(r, v) \/ RewriteVehicle(r, v)
               \/ ReadForRelease(r, v) \/ WriteReleased(r, v)
        PROVE  SInv'
    BY <1>2, <2>1, CreateSerial, PushSerial, RereadSerial, RewriteSerial, ReadSerial,
       WriteSerial
  <2>2. CASE SaveBooking(r) \/ SaveBookingUserGone(r)
    BY <1>2, <2>2, SaveSerial
  <2>3. CASE FinishCancel(r) \/ Abort(r)
    BY <1>2, <2>3, ReturnSerial DEF FinishCancel, Abort
  <2>4. CASE Ask(r)
    <3>1. ASSUME NEW b \in Bookings,
                 \/ \E op \in {"web", "manual", "admin"}, cart \in Cart \ {Nothing} :
                       StartCreate(r, op, b, cart)
                 \/ \E op \in {"cancel", "update"} : StartCancel(r, op, b)
          PROVE  SInv'
      BY <1>2, <3>1, StartSerial
    <3>2. ASSUME NEW b \in Bookings, NEW cart \in Cart \ {Nothing},
                 EditBookingCart(r, b, cart)
          PROVE  SInv'
      BY <1>2, <3>2, ChangeSerial DEF EditBookingCart, Change, SInv
    <3>3. ASSUME NEW b \in Bookings, NEW cart \in Cart \ {Nothing},
                 \E op \in {"contract", "vehicleChange"} :
                    ChangeContractCart(r, op, b, cart)
          PROVE  SInv'
      BY <1>2, <3>3, VehicleChangeSerial
    <3>4. ASSUME NEW v \in Vehicles,
                 EditVehicle(r, v) \/ UpdatePrices(r, v) \/ DeleteVehicle(r, v)
          PROVE  SInv'
      BY <1>2, <3>4, VehicleSerial
    <3> QED
      BY <2>4, <3>1, <3>2, <3>3, <3>4 DEF Ask
  <2> QED
    BY <1>2, <2>1, <2>2, <2>3, <2>4 DEF Handle
<1>3. SInv /\ UNCHANGED vars => SInv'
  BY DEF SInv, SerialRequest, vars
<1>4. IInv /\ SInv /\ [Next]_vars => SInv'
  BY <1>2, <1>3 DEF Next
<1> QED
  BY <1>1, <1>4, IInvariance, PTL DEF Spec

\* Handlers that run one after the other never book a vehicle for two bookings at
\* the same time, whatever staff does to vehicles and carts in between.
THEOREM NeverBookedTwice ==
    ASSUME Serial
    PROVE  Spec => []NoDoubleBooking
<1>1. SInv => NoDoubleBooking
  BY DEF SInv, SerialVehicles, Apart, NoDoubleBooking
<1> QED
  BY <1>1, SerialInvariance, PTL

-----------------------------------------------------------------------------
(* What the only handler has read is still so when it acts on it.          *)

OneRequest == \E r \in Requests : Requests = {r}

\* The booking is the one that was read, and a copy of an array is what the handler
\* makes of the array as it is now.
Undisturbed(docs, arrays, q) ==
    /\ q.stage = "check" => docs[q.booking].status = "none"
    /\ q.stage \notin {"idle", "check"} =>
          docs[q.booking] = [status |-> "open", cart |-> q.cart]
    /\ q.stage = "rewrite" =>
          \A v \in q.at : q.copy = Pushed(arrays[v], q.booking, q.cart[v])
    /\ q.stage = "releaseWrite" =>
          \A v \in q.at : q.copy = Released(arrays[v], q.booking, q.cart[v])
    /\ \A v, w \in q.at : v = w
    /\ q.stage = "idle" => q.booking = NoBooking

UInv == \A r \in Requests : Undisturbed(booking, reservations, request[r])

\* The handler goes on with its booking and its cart.
Turned(r, stage, todo, at, copy) ==
    /\ request'[r].stage = stage /\ request'[r].todo = todo
    /\ request'[r].at = at /\ request'[r].copy = copy
    /\ request'[r].op = request[r].op
    /\ request'[r].booking = request[r].booking
    /\ request'[r].cart = request[r].cart

LEMMA OnlyHandler ==
    ASSUME OneRequest, NEW r \in Requests
    PROVE  \A s \in Requests : s = r
BY DEF OneRequest

LEMMA ReturnTurns ==
    ASSUME IInv, NEW r \in Requests, Return(r)
    PROVE  request'[r] = Idle
BY DEF Return, IInv

\* What a turn of a handler does to its record, action by action.
LEMMA CreateTurns ==
    ASSUME IInv, NEW r \in Requests
    PROVE  /\ \A v \in Vehicles : CheckVehicle(r, v) =>
                 Turned(r, "check", request[r].todo \ {v}, {}, request[r].copy)
           /\ SaveBooking(r) =>
                 Turned(r, "push", DOMAIN request[r].cart, {}, request[r].copy)
<1>0. /\ request \in [Requests -> Request] /\ request[r] \in Request
      /\ GoodRequest(booking, request[r])
  BY DEF IInv
<1>1. ASSUME NEW v \in Vehicles, CheckVehicle(r, v)
      PROVE  Turned(r, "check", request[r].todo \ {v}, {}, request[r].copy)
  <2>1. request'[r] = [request[r] EXCEPT !.todo = request[r].todo \ {v}]
    BY <1>0, <1>1 DEF CheckVehicle
  <2>2. request[r].stage = "check" /\ request[r].at = {}
    BY <1>0, <1>1 DEF CheckVehicle, GoodRequest
  <2> QED
    BY <1>0, <2>1, <2>2 DEF Turned, Request
<1>2. ASSUME SaveBooking(r)
      PROVE  Turned(r, "push", DOMAIN request[r].cart, {}, request[r].copy)
  <2>1. request'[r] = [request[r] EXCEPT !.stage = "push", !.todo = DOMAIN request[r].cart]
    BY <1>0, <1>2 DEF SaveBooking
  <2>2. request[r].at = {}
    BY <1>0, <1>2 DEF SaveBooking, GoodRequest
  <2> QED
    BY <1>0, <2>1, <2>2 DEF Turned, Request
<1> QED
  BY <1>1, <1>2

LEMMA PushTurns ==
    ASSUME IInv, NEW r \in Requests, NEW v \in Vehicles, PushReservation(r, v)
    PROVE  \/ Turned(r, "push", request[r].todo \ {v}, {}, request[r].copy)
           \/ /\ request[r].todo \subseteq {v}
              /\ Turned(r, "reread", DOMAIN request[r].cart, {}, request[r].copy)
           \/ request[r].todo \subseteq {v} /\ request'[r] = Idle
<1>0. /\ request \in [Requests -> Request] /\ request[r] \in Request
      /\ GoodRequest(booking, request[r])
  BY DEF IInv
<1>1. request[r].stage = "push" /\ request[r].at = {}
  BY <1>0 DEF PushReservation, GoodRequest
<1>2. CASE request' = [request EXCEPT ![r].todo = request[r].todo \ {v}]
  <2>1. request'[r] = [request[r] EXCEPT !.todo = request[r].todo \ {v}]
    BY <1>0, <1>2
  <2> QED
    BY <1>0, <1>1, <2>1 DEF Turned, Request
<1>3. CASE /\ request[r].todo \ {v} = {}
           /\ request' = [request EXCEPT ![r].stage = "reread",
                                         ![r].todo = DOMAIN request[r].cart]
  <2>1. request'[r] = [request[r] EXCEPT !.stage = "reread",
                                         !.todo = DOMAIN request[r].cart]
    BY <1>0, <1>3
  <2>2. Turned(r, "reread", DOMAIN request[r].cart, {}, request[r].copy)
    BY <1>0, <1>1, <2>1 DEF Turned, Request
  <2> QED
    BY <1>3, <2>2
<1>4. CASE request[r].todo \ {v} = {} /\ Return(r)
  BY <1>4, ReturnTurns
<1> QED
  BY <1>2, <1>3, <1>4 DEF PushReservation, Proceed

LEMMA RewriteTurns ==
    ASSUME IInv, NEW r \in Requests, NEW v \in Vehicles
    PROVE  /\ RereadVehicle(r, v) =>
                 \/ v \in deleted /\ request'[r] = Idle
                 \/ Turned(r, "rewrite", request[r].todo \ {v}, {v},
                           Pushed(reservations[v], request[r].booking, request[r].cart[v]))
           /\ RewriteVehicle(r, v) =>
                 request'[r] = Idle \/ Turned(r, "reread", request[r].todo, {}, {})
<1>0. request \in [Requests -> Request] /\ request[r] \in Request
  BY DEF IInv
<1>1. ASSUME RereadVehicle(r, v), v \notin deleted
      PROVE  Turned(r, "rewrite", request[r].todo \ {v}, {v},
                    Pushed(reservations[v], request[r].booking, request[r].cart[v]))
  <2> DEFINE S == Pushed(reservations[v], request[r].booking, request[r].cart[v])
  <2>1. request'[r] = [request[r] EXCEPT !.stage = "rewrite",
                          !.todo = request[r].todo \ {v}, !.at = {v}, !.copy = S]
    BY <1>0, <1>1 DEF RereadVehicle
  <2> HIDE DEF S
  <2>2. Turned(r, "rewrite", request[r].todo \ {v}, {v}, S)
    BY <1>0, <2>1 DEF Turned, Request
  <2> QED
    BY <2>2 DEF S
<1>2. ASSUME RereadVehicle(r, v), v \in deleted
      PROVE  request'[r] = Idle
  BY <1>2, ReturnTurns DEF RereadVehicle
<1>3. ASSUME request' = [request EXCEPT ![r].stage = "reread", ![r].at = {}, ![r].copy = {}]
      PROVE  Turned(r, "reread", request[r].todo, {}, {})
  <2>1. request'[r] = [request[r] EXCEPT !.stage = "reread", !.at = {}, !.copy = {}]
    BY <1>0, <1>3
  <2> QED
    BY <1>0, <2>1 DEF Turned, Request
<1>4. ASSUME RewriteVehicle(r, v)
      PROVE  request'[r] = Idle \/ Turned(r, "reread", request[r].todo, {}, {})
  <2>1. \/ Return(r)
        \/ request' = [request EXCEPT ![r].stage = "reread", ![r].at = {}, ![r].copy = {}]
    BY <1>4 DEF RewriteVehicle
  <2> QED
    BY <1>3, <2>1, ReturnTurns
<1> QED
  BY <1>1, <1>2, <1>4

LEMMA ReleaseTurns ==
    ASSUME IInv, NEW r \in Requests, NEW v \in Vehicles
    PROVE  /\ ReadForRelease(r, v) =>
                 \/ v \in deleted /\ Turned(r, "release", {}, {}, request[r].copy)
                 \/ /\ v \notin deleted /\ reservations[v] = {}
                    /\ Turned(r, "release", request[r].todo \ {v}, {}, request[r].copy)
                 \/ /\ v \notin deleted
                    /\ Turned(r, "releaseWrite", request[r].todo \ {v}, {v},
                              Released(reservations[v], request[r].booking,
                                       request[r].cart[v]))
           /\ WriteReleased(r, v) =>
                 \/ v \in deleted /\ Turned(r, "release", {}, {}, {})
                 \/ v \notin deleted /\ Turned(r, "release", request[r].todo, {}, {})
<1>0. /\ request \in [Requests -> Request] /\ request[r] \in Request
      /\ GoodRequest(booking, request[r])
  BY DEF IInv
<1>1. ASSUME ReadForRelease(r, v), v \in deleted
      PROVE  Turned(r, "release", {}, {}, request[r].copy)
  <2>1. request'[r] = [request[r] EXCEPT !.todo = {}]
    BY <1>0, <1>1, ReadForReleaseCases
  <2>2. request[r].stage = "release" /\ request[r].at = {}
    BY <1>0, <1>1 DEF ReadForRelease, GoodRequest
  <2> QED
    BY <1>0, <2>1, <2>2 DEF Turned, Request
<1>2. ASSUME ReadForRelease(r, v), v \notin deleted, reservations[v] = {}
      PROVE  Turned(r, "release", request[r].todo \ {v}, {}, request[r].copy)
  <2>0. request' = [request EXCEPT ![r] =
                      [request[r] EXCEPT !.todo = request[r].todo \ {v}]]
    BY <1>2, ReadForReleaseCases
  <2>1. request'[r] = [request[r] EXCEPT !.todo = request[r].todo \ {v}]
    BY <1>0, <2>0
  <2>2. request[r].stage = "release" /\ request[r].at = {}
    BY <1>0, <1>2 DEF ReadForRelease, GoodRequest
  <2> QED
    BY <1>0, <2>1, <2>2 DEF Turned, Request
<1>3. ASSUME ReadForRelease(r, v), v \notin deleted, reservations[v] # {}
      PROVE  Turned(r, "releaseWrite", request[r].todo \ {v}, {v},
                    Released(reservations[v], request[r].booking, request[r].cart[v]))
  <2> DEFINE S == Released(reservations[v], request[r].booking, request[r].cart[v])
  <2>0. request' = [request EXCEPT ![r] =
                      [request[r] EXCEPT !.stage = "releaseWrite",
                          !.todo = request[r].todo \ {v}, !.at = {v}, !.copy = S]]
    BY <1>3, ReadForReleaseCases
  <2> HIDE DEF S
  <2>1. request'[r] = [request[r] EXCEPT !.stage = "releaseWrite",
                          !.todo = request[r].todo \ {v}, !.at = {v}, !.copy = S]
    BY <1>0, <2>0
  <2>2. Turned(r, "releaseWrite", request[r].todo \ {v}, {v}, S)
    BY <1>0, <2>1 DEF Turned, Request
  <2> QED
    BY <2>2 DEF S
<1>4. ASSUME WriteReleased(r, v)
      PROVE  Turned(r, "release", IF v \in deleted THEN {} ELSE request[r].todo, {}, {})
  <2> DEFINE left == IF v \in deleted THEN {} ELSE request[r].todo
  <2>1. request'[r] = [request[r] EXCEPT !.stage = "release", !.at = {}, !.copy = {},
                                         !.todo = left]
    BY <1>0, <1>4 DEF WriteReleased
  <2> HIDE DEF left
  <2>2. Turned(r, "release", left, {}, {})
    BY <1>0, <2>1 DEF Turned, Request
  <2> QED
    BY <2>2 DEF left
<1> QED
  BY <1>1, <1>2, <1>3, <1>4

LEMMA UndisturbedIdle ==
    ASSUME NEW docs, NEW arrays
    PROVE  Undisturbed(docs, arrays, Idle)
BY DEF Undisturbed, Idle

\* The only handler is the one that acts.
LEMMA UndisturbedStep ==
    ASSUME OneRequest, NEW r \in Requests, Undisturbed(booking', reservations', request'[r])
    PROVE  UInv'
BY OnlyHandler DEF UInv

LEMMA CreateUndisturbed ==
    ASSUME OneRequest, IInv, UInv, NEW r \in Requests,
           \/ \E v \in Vehicles : CheckVehicle(r, v) \/ RefuseVehicle(r, v)
           \/ SaveBooking(r) \/ SaveBookingUserGone(r)
    PROVE  UInv'
<1>0. Undisturbed(booking, reservations, request[r])
  BY DEF UInv
<1>1. ASSUME NEW v \in Vehicles, CheckVehicle(r, v)
      PROVE  UInv'
  <2>1. Turned(r, "check", request[r].todo \ {v}, {}, request[r].copy)
    BY <1>1, CreateTurns
  <2>2. Undisturbed(booking', reservations', request'[r])
    BY <1>0, <1>1, <2>1 DEF Turned, Undisturbed, CheckVehicle
  <2> QED
    BY <2>2, UndisturbedStep
<1>2. CASE SaveBooking(r)
  <2>1. Turned(r, "push", DOMAIN request[r].cart, {}, request[r].copy)
    BY <1>2, CreateTurns
  <2>2. booking'[request[r].booking] = [status |-> "open", cart |-> request[r].cart]
    BY <1>2 DEF SaveBooking, IInv, GoodRequest, BookingDocs
  <2>3. Undisturbed(booking', reservations', request'[r])
    BY <2>1, <2>2 DEF Turned, Undisturbed
  <2> QED
    BY <2>3, UndisturbedStep
<1>3. ASSUME Return(r)
      PROVE  UInv'
  BY <1>3, ReturnTurns, UndisturbedIdle, UndisturbedStep
<1> QED
  BY <1>1, <1>2, <1>3 DEF RefuseVehicle, SaveBookingUserGone

LEMMA PushUndisturbed ==
    ASSUME OneRequest, IInv, UInv, NEW r \in Requests, NEW v \in Vehicles,
           \/ PushReservation(r, v) \/ RereadVehicle(r, v) \/ RewriteVehicle(r, v)
    PROVE  UInv'
<1>0. Undisturbed(booking, reservations, request[r])
  BY DEF UInv
<1>1. ASSUME NEW stage \in {"push", "reread"}, NEW todo, NEW copy,
             Turned(r, stage, todo, {}, copy)
      PROVE  UInv'
  <2>1. request[r].stage \notin {"idle", "check"} /\ UNCHANGED booking
    BY DEF PushReservation, RereadVehicle, RewriteVehicle
  <2>2. Undisturbed(booking', reservations', request'[r])
    BY <1>0, <1>1, <2>1 DEF Turned, Undisturbed
  <2> QED
    BY <2>2, UndisturbedStep
<1>2. ASSUME RereadVehicle(r, v),
             Turned(r, "rewrite", request[r].todo \ {v}, {v},
                    Pushed(reservations[v], request[r].booking, request[r].cart[v]))
      PROVE  UInv'
  <2>1. /\ request[r].stage = "reread" /\ UNCHANGED booking
        /\ UNCHANGED reservations
    BY <1>2 DEF RereadVehicle
  <2>2. Undisturbed(booking', reservations', request'[r])
    BY <1>0, <1>2, <2>1 DEF Turned, Undisturbed
  <2> QED
    BY <2>2, UndisturbedStep
<1>3. ASSUME request'[r] = Idle
      PROVE  UInv'
  BY <1>3, UndisturbedIdle, UndisturbedStep
<1> QED
  BY <1>1, <1>2, <1>3, PushTurns, RewriteTurns

LEMMA ReleaseUndisturbed ==
    ASSUME OneRequest, IInv, UInv, NEW r \in Requests, NEW v \in Vehicles,
           ReadForRelease(r, v) \/ WriteReleased(r, v)
    PROVE  UInv'
<1>0. /\ Undisturbed(booking, reservations, request[r]) /\ UNCHANGED booking
      /\ request[r].stage \notin {"idle", "check"}
  BY DEF UInv, ReadForRelease, WriteReleased
<1>1. ASSUME NEW todo, NEW copy, Turned(r, "release", todo, {}, copy)
      PROVE  UInv'
  <2>1. Undisturbed(booking', reservations', request'[r])
    BY <1>0, <1>1 DEF Turned, Undisturbed
  <2> QED
    BY <2>1, UndisturbedStep
<1>2. ASSUME ReadForRelease(r, v),
             Turned(r, "releaseWrite", request[r].todo \ {v}, {v},
                    Released(reservations[v], request[r].booking, request[r].cart[v]))
      PROVE  UInv'
  <2>1. Undisturbed(booking', reservations', request'[r])
    BY <1>0, <1>2 DEF Turned, Undisturbed, ReadForRelease
  <2> QED
    BY <2>1, UndisturbedStep
<1> QED
  BY <1>1, <1>2, ReleaseTurns

\* A handler that starts has the fields that Begin gives it.
LEMMA BeginFields ==
    ASSUME IInv, NEW r \in Requests, NEW op, NEW stage, NEW b, NEW cart,
           Begin(r, op, stage, b, cart)
    PROVE  /\ request'[r].stage = stage /\ request'[r].op = op
           /\ request'[r].booking = b /\ request'[r].cart = cart
           /\ request'[r].at = {} /\ request'[r].copy = {}
           /\ op # "admin" => request'[r].todo = DOMAIN cart
BY DEF IInv, Begin

LEMMA StartUndisturbed ==
    ASSUME OneRequest, IInv, UInv, NEW r \in Requests, NEW b \in Bookings, NEW op, NEW cart,
           StartCreate(r, op, b, cart) \/ StartCancel(r, op, b)
    PROVE  UInv'
<1>1. CASE StartCreate(r, op, b, cart)
  <2>1. Begin(r, op, "check", b, cart) /\ UNCHANGED booking /\ booking[b].status = "none"
    BY <1>1 DEF StartCreate
  <2>2. Undisturbed(booking', reservations', request'[r])
    BY <2>1, BeginFields DEF Undisturbed
  <2> QED
    BY <2>2, UndisturbedStep
<1>2. CASE StartCancel(r, op, b)
  <2>1. /\ Begin(r, op, "release", b, booking[b].cart) /\ UNCHANGED booking
        /\ booking[b].status = "open"
    BY <1>2 DEF StartCancel
  <2>2. booking[b] = [status |-> "open", cart |-> booking[b].cart]
    BY <2>1 DEF IInv, BookingDocs
  <2>3. Undisturbed(booking', reservations', request'[r])
    BY <2>1, <2>2, BeginFields DEF Undisturbed
  <2> QED
    BY <2>3, UndisturbedStep
<1> QED
  BY <1>1, <1>2

\* Staff acts while the only handler is idle.
LEMMA ChangeUndisturbed ==
    ASSUME OneRequest, IInv, UInv, NEW r \in Requests, Free(r), UNCHANGED request
    PROVE  UInv'
<1>1. request[r].stage = "idle" /\ request[r].at = {} /\ request[r].booking = NoBooking
  BY DEF IInv, GoodRequest, UInv, Undisturbed, Free
<1>2. Undisturbed(booking', reservations', request'[r])
  BY <1>1 DEF Undisturbed
<1> QED
  BY <1>2, UndisturbedStep

\* What the only handler has read is still so, whatever else clients ask for.
THEOREM NobodyInterferes ==
    ASSUME OneRequest
    PROVE  Spec => []UInv
<1>1. Init => UInv
  BY UndisturbedIdle DEF Init, UInv
<1>2. ASSUME IInv, UInv, NEW r \in Requests, Handle(r) \/ Ask(r) \/ Abort(r)
      PROVE  UInv'
  <2>1. ASSUME NEW v \in Vehicles,
               \/ CheckVehicle(r, v) \/ RefuseVehicle(r, v) \/ PushReservation(r, v)
               \/ RereadVehicle(r, v) \/ RewriteVehicle(r, v)
               \/ ReadForRelease(r, v) \/ WriteReleased(r, v)
        PROVE  UInv'
    BY <1>2, <2>1, CreateUndisturbed, PushUndisturbed, ReleaseUndisturbed
  <2>2. CASE SaveBooking(r)
    BY <1>2, <2>2, CreateUndisturbed
  <2>3. CASE SaveBookingUserGone(r) \/ FinishCancel(r) \/ Abort(r)
    BY <1>2, <2>3, ReturnTurns, UndisturbedIdle, UndisturbedStep
       DEF SaveBookingUserGone, FinishCancel, Abort
  <2>4. CASE Ask(r)
    <3>1. ASSUME NEW b \in Bookings,
                 \/ \E op \in {"web", "manual", "admin"}, cart \in Cart \ {Nothing} :
                       StartCreate(r, op, b, cart)
                 \/ \E op \in {"cancel", "update"} : StartCancel(r, op, b)
          PROVE  UInv'
      BY <1>2, <3>1, StartUndisturbed
    <3>2. ASSUME NEW b \in Bookings, NEW cart \in Cart \ {Nothing},
                 \/ EditBookingCart(r, b, cart)
                 \/ \E op \in {"contract", "vehicleChange"} :
                       ChangeContractCart(r, op, b, cart)
          PROVE  UInv'
      BY <1>2, <3>2, ChangeUndisturbed DEF EditBookingCart, ChangeContractCart, Change
    <3>3. ASSUME NEW v \in Vehicles,
                 EditVehicle(r, v) \/ UpdatePrices(r, v) \/ DeleteVehicle(r, v)
          PROVE  UInv'
      BY <1>2, <3>3, ChangeUndisturbed DEF EditVehicle, UpdatePrices, DeleteVehicle, Change
    <3> QED
      BY <2>4, <3>1, <3>2, <3>3 DEF Ask
  <2> QED
    BY <1>2, <2>1, <2>2, <2>3, <2>4 DEF Handle
<1>3. IInv /\ UInv /\ UNCHANGED vars => UInv'
  BY DEF UInv, Undisturbed, vars
<1>4. IInv /\ UInv /\ [Next]_vars => UInv'
  BY <1>2, <1>3 DEF Next
<1> QED
  BY <1>1, <1>4, IInvariance, PTL DEF Spec

\* A release takes no entry of another booking.
LEMMA ReleasedSpares ==
    ASSUME NEW S, NEW b, NEW i, NEW c \in Bookings \ {b}
    PROVE  {e \in Released(S, b, i) : e.booking = c} = {e \in S : e.booking = c}
<1>1. c # NoBooking
  BY ConstantsAssumption
<1> QED
  BY <1>1 DEF Released, Matches

LEMMA WriteSpares ==
    ASSUME IInv, UInv, NEW r \in Requests, NEW v \in Vehicles, WriteReleased(r, v),
           NEW c \in Bookings \ {request[r].booking}
    PROVE  Held(v, c)' = Held(v, c)
<1>1. {e \in reservations'[v] : e.booking = c} = {e \in reservations[v] : e.booking = c}
  <2>1. CASE v \in deleted
    BY <2>1 DEF WriteReleased
  <2>2. CASE v \notin deleted
    <3>1. reservations'[v] = request[r].copy
      BY <2>2 DEF WriteReleased, IInv, GoodVehicles
    <3>2. request[r].copy = Released(reservations[v], request[r].booking, request[r].cart[v])
      BY DEF WriteReleased, UInv, Undisturbed
    <3> QED
      BY <3>1, <3>2, ReleasedSpares
  <2> QED
    BY <2>1, <2>2
<1> QED
  BY <1>1 DEF Held

\* A handler that runs alone, when it writes back what a release has left of an array,
\* takes the vehicle from no other booking, even though it writes the whole array.
THEOREM OthersAreSpared ==
    ASSUME OneRequest
    PROVE  Spec => ReleaseSparesOthers
<1> DEFINE Spares ==
      \A r \in Requests, v \in Vehicles : WriteReleased(r, v) =>
         \A b \in Bookings \ {request[r].booking} : Held(v, b)' = Held(v, b)
<1>1. IInv /\ UInv => Spares
  BY WriteSpares
<1>2. Spec => []IInv /\ []UInv
  BY IInvariance, NobodyInterferes, PTL
<1>3. IInv /\ UInv /\ [Next]_vars => [Spares]_vars
  BY <1>1
<1> HIDE DEF Spares
<1>4. Spec => [][Spares]_vars
  BY <1>2, <1>3, PTL DEF Spec
<1> QED
  BY <1>4 DEF Spares, ReleaseSparesOthers

-----------------------------------------------------------------------------
(* What a cancelled booking holds. *)

\* No cart of a booking changes by itself, and no release is cut short by a vehicle
\* that is gone.
CartsStay ==
    /\ OneRequest
    /\ Operations \cap {"editBooking", "contract", "vehicleChange", "deleteVehicle"} = {}

\* The entries of vehicle v that name a booking name an open one with v in its cart.
Rightful(docs, v, S) ==
    \A e \in S : e.booking # NoBooking =>
        docs[e.booking].status = "open" /\ v \in DOMAIN docs[e.booking].cart

\* A cancellation has still to come to every vehicle that its booking holds.
ToBeReleased(arrays, q) ==
    q.stage \in {"release", "releaseWrite"} =>
        \A v \in Vehicles : \A e \in arrays[v] :
            e.booking = q.booking => v \in q.todo \cup q.at

CInv ==
    /\ \A v \in Vehicles : Rightful(booking, v, reservations[v])
    /\ \A r \in Requests : ToBeReleased(reservations, request[r])
    /\ deleted = {}

LEMMA CancelStep ==
    ASSUME CartsStay, NEW r \in Requests, CInv, UNCHANGED deleted,
           \A v \in Vehicles : Rightful(booking', v, reservations'[v]),
           ToBeReleased(reservations', request'[r])
    PROVE  CInv'
BY OnlyHandler DEF CInv, CartsStay

\* A step that changes no document and adds no entry to an array.
LEMMA RightfulFewer ==
    ASSUME CInv, UNCHANGED booking, NEW v \in Vehicles, reservations'[v] \subseteq reservations[v]
    PROVE  Rightful(booking', v, reservations'[v])
BY DEF CInv, Rightful

LEMMA CreateCancel ==
    ASSUME CartsStay, IInv, UInv, CInv, NEW r \in Requests,
           \/ \E v \in Vehicles : CheckVehicle(r, v) \/ RefuseVehicle(r, v)
           \/ SaveBooking(r) \/ SaveBookingUserGone(r)
    PROVE  CInv'
<1>0. /\ request[r].stage = "check" /\ UNCHANGED <<reservations, deleted>>
      /\ booking[request[r].booking].status = "none"
  BY DEF CheckVehicle, RefuseVehicle, SaveBooking, SaveBookingUserGone, UInv, Undisturbed
<1>1. request'[r] = Idle \/ request'[r].stage \in {"check", "push"}
  BY CreateTurns, ReturnTurns DEF Turned, RefuseVehicle, SaveBookingUserGone
<1>2. ToBeReleased(reservations', request'[r])
  BY <1>1 DEF ToBeReleased, Idle
<1>3. \A b \in Bookings : booking[b].status = "open" => booking'[b] = booking[b]
  BY <1>0 DEF CheckVehicle, RefuseVehicle, SaveBooking, SaveBookingUserGone, IInv, BookingDocs
<1>4. \A v \in Vehicles : \A e \in reservations[v] : e.booking # NoBooking =>
         e.booking \in Bookings
  BY DEF IInv, GoodVehicles, Entry
<1>5. \A v \in Vehicles : Rightful(booking', v, reservations'[v])
  BY <1>0, <1>3, <1>4 DEF CInv, Rightful
<1> QED
  BY <1>0, <1>2, <1>5, CancelStep

LEMMA PushCancel ==
    ASSUME CartsStay, IInv, UInv, CInv, NEW r \in Requests, NEW v \in Vehicles,
           \/ PushReservation(r, v) \/ RereadVehicle(r, v) \/ RewriteVehicle(r, v)
    PROVE  CInv'
<1> DEFINE b == request[r].booking
           cart == request[r].cart
<1>0. /\ request[r].stage \in {"push", "reread", "rewrite"} /\ UNCHANGED <<booking, deleted>>
      /\ b \in Bookings /\ booking[b] = [status |-> "open", cart |-> cart]
      /\ v \in request[r].todo \cup request[r].at /\ v \in DOMAIN cart
  BY DEF PushReservation, RereadVehicle, RewriteVehicle, UInv, Undisturbed, IInv, GoodRequest
<1>1. request'[r] = Idle \/ request'[r].stage \in {"push", "reread", "rewrite"}
  BY PushTurns, RewriteTurns DEF Turned
<1>2. ToBeReleased(reservations', request'[r])
  BY <1>1 DEF ToBeReleased, Idle
<1>3. \/ UNCHANGED reservations
      \/ reservations' = [reservations EXCEPT ![v] = Pushed(reservations[v], b, cart[v])]
  BY DEF PushReservation, RereadVehicle, RewriteVehicle, UInv, Undisturbed
<1>4. Rightful(booking, v, Pushed(reservations[v], b, cart[v]))
  BY <1>0 DEF CInv, Rightful, Pushed
<1>5. \A w \in Vehicles : Rightful(booking', w, reservations'[w])
  <2>1. CASE UNCHANGED reservations
    BY <1>0, <2>1 DEF CInv
  <2>2. CASE reservations' = [reservations EXCEPT ![v] = Pushed(reservations[v], b, cart[v])]
    <3>1. \A w \in Vehicles : reservations'[w] =
             IF w = v THEN Pushed(reservations[v], b, cart[v]) ELSE reservations[w]
      BY <2>2 DEF IInv, GoodVehicles
    <3> QED
      BY <1>0, <1>4, <3>1 DEF CInv
  <2> QED
    BY <1>3, <2>1, <2>2
<1> QED
  BY <1>0, <1>2, <1>5, CancelStep

LEMMA ReleaseCancel ==
    ASSUME CartsStay, IInv, UInv, CInv, NEW r \in Requests, NEW v \in Vehicles,
           ReadForRelease(r, v) \/ WriteReleased(r, v)
    PROVE  CInv'
<1> DEFINE b == request[r].booking
           i == request[r].cart[v]
<1>0. /\ UNCHANGED <<booking, deleted>> /\ v \notin deleted
      /\ b \in Bookings /\ b # NoBooking
      /\ request[r].stage \in {"release", "releaseWrite"}
      /\ v \in request[r].todo \cup request[r].at
  BY ConstantsAssumption DEF ReadForRelease, WriteReleased, CInv, IInv, GoodRequest
<1>1. \A w \in Vehicles : \A e \in reservations[w] :
         e.booking = b => w \in request[r].todo \cup request[r].at
  BY <1>0 DEF CInv, ToBeReleased
<1>2. CASE ReadForRelease(r, v)
  <2>1. request[r].stage = "release" /\ request[r].at = {} /\ UNCHANGED reservations
    BY <1>2 DEF ReadForRelease, IInv, GoodRequest
  <2>2. /\ request'[r].booking = b /\ request'[r].todo = request[r].todo \ {v}
        /\ request'[r].at = {v} \/ reservations[v] = {}
    BY <1>0, <1>2, ReleaseTurns DEF Turned
  <2>3. ToBeReleased(reservations', request'[r])
    BY <1>1, <2>1, <2>2 DEF ToBeReleased
  <2> QED
    BY <1>0, <2>1, <2>3, CancelStep DEF CInv
<1>3. CASE WriteReleased(r, v)
  <2>1. /\ request[r].stage = "releaseWrite" /\ request[r].at = {v}
        /\ request[r].copy = Released(reservations[v], b, i)
    BY <1>3 DEF WriteReleased, UInv, Undisturbed
  <2>2. \A w \in Vehicles : reservations'[w] =
           IF w = v THEN Released(reservations[v], b, i) ELSE reservations[w]
    BY <1>0, <1>3, <2>1 DEF WriteReleased, IInv, GoodVehicles
  <2>3. request'[r].booking = b /\ request'[r].todo = request[r].todo
    BY <1>0, <1>3, ReleaseTurns DEF Turned
  <2>4. \A e \in Released(reservations[v], b, i) : e \in reservations[v] /\ e.booking # b
    BY <1>0 DEF Released, Matches
  <2>5. ToBeReleased(reservations', request'[r])
    BY <1>1, <2>1, <2>2, <2>3, <2>4 DEF ToBeReleased
  <2>6. \A w \in Vehicles : reservations'[w] \subseteq reservations[w]
    BY <2>2, <2>4
  <2>7. \A w \in Vehicles : Rightful(booking', w, reservations'[w])
    BY <1>0, <2>6, RightfulFewer
  <2> QED
    BY <1>0, <2>5, <2>7, CancelStep
<1> QED
  BY <1>2, <1>3

\* The booking is cancelled when it holds nothing any more.
LEMMA FinishCancelled ==
    ASSUME CartsStay, IInv, UInv, CInv, NEW r \in Requests, FinishCancel(r)
    PROVE  CInv'
<1> DEFINE b == request[r].booking
<1>1. /\ request[r].stage = "release" /\ request[r].todo = {} /\ request[r].at = {}
      /\ b \in Bookings /\ UNCHANGED <<reservations, deleted>>
  BY DEF FinishCancel, IInv, GoodRequest
<1>2. \A v \in Vehicles : \A e \in reservations[v] : e.booking # b
  BY <1>1 DEF CInv, ToBeReleased
<1>3. \A c \in Bookings \ {b} : booking'[c] = booking[c]
  BY DEF FinishCancel, IInv, BookingDocs
<1>4. \A v \in Vehicles : \A e \in reservations[v] : e.booking # NoBooking =>
         e.booking \in Bookings
  BY DEF IInv, GoodVehicles, Entry
<1>5. \A v \in Vehicles : Rightful(booking', v, reservations'[v])
  BY <1>1, <1>2, <1>3, <1>4 DEF CInv, Rightful
<1>6. ToBeReleased(reservations', request'[r])
  BY ReturnTurns DEF ToBeReleased, Idle, FinishCancel
<1> QED
  BY <1>1, <1>5, <1>6, CancelStep

LEMMA StartCancelled ==
    ASSUME CartsStay, IInv, UInv, CInv, NEW r \in Requests, NEW b \in Bookings, NEW op,
           NEW cart, StartCreate(r, op, b, cart) \/ StartCancel(r, op, b)
    PROVE  CInv'
<1>0. /\ UNCHANGED <<reservations, deleted, booking>> /\ b # NoBooking
      /\ \A v \in Vehicles : Rightful(booking, v, reservations[v])
  BY ConstantsAssumption DEF StartCreate, StartCancel, CInv
<1>1. CASE StartCreate(r, op, b, cart)
  <2>1. request'[r].stage = "check"
    BY <1>1, BeginFields DEF StartCreate
  <2>2. ToBeReleased(reservations', request'[r])
    BY <2>1 DEF ToBeReleased
  <2> QED
    BY <1>0, <2>2, CancelStep
<1>2. CASE StartCancel(r, op, b)
  <2>1. request'[r].booking = b /\ request'[r].todo = DOMAIN booking[b].cart
    BY <1>2, BeginFields DEF StartCancel
  <2>2. ToBeReleased(reservations', request'[r])
    BY <1>0, <2>1 DEF ToBeReleased, Rightful
  <2> QED
    BY <1>0, <2>2, CancelStep
<1> QED
  BY <1>1, <1>2

\* Staff can take the bookings off the entries of a vehicle, but cannot add any.
LEMMA ChangeCancelled ==
    ASSUME CartsStay, IInv, UInv, CInv, NEW r \in Requests, NEW v \in Vehicles,
           EditVehicle(r, v) \/ UpdatePrices(r, v)
    PROVE  CInv'
<1>0. /\ Free(r) /\ UNCHANGED <<request, booking, deleted>>
  BY DEF EditVehicle, UpdatePrices, Change
<1>1. \E S : /\ \A e \in S : e.booking = NoBooking
             /\ reservations' = [reservations EXCEPT ![v] = S]
  <2>1. CASE UpdatePrices(r, v)
    BY <2>1 DEF UpdatePrices
  <2>2. CASE EditVehicle(r, v)
    <3> DEFINE A == Anonymous(reservations[v])
    <3>1. PICK S \in {{}, A} \cup {Pushed(A, NoBooking, i) : i \in Interval} :
             reservations' = [reservations EXCEPT ![v] = S]
      BY <2>2 DEF EditVehicle
    <3>2. \A e \in A : e.booking = NoBooking
      BY DEF Anonymous, IInv, GoodVehicles, Entry
    <3> HIDE DEF A
    <3>3. \A e \in S : e.booking = NoBooking
      BY <3>1, <3>2 DEF Pushed
    <3> QED
      BY <3>1, <3>3
  <2> QED
    BY <2>1, <2>2
<1>2. PICK S : /\ \A e \in S : e.booking = NoBooking
               /\ reservations' = [reservations EXCEPT ![v] = S]
  BY <1>1
<1>3. \A w \in Vehicles : reservations'[w] = IF w = v THEN S ELSE reservations[w]
  BY <1>2 DEF IInv, GoodVehicles
<1>4. \A w \in Vehicles : Rightful(booking', w, reservations'[w])
  BY <1>0, <1>2, <1>3 DEF CInv, Rightful
<1>5. ToBeReleased(reservations', request'[r])
  BY <1>0 DEF ToBeReleased, Free
<1> QED
  BY <1>0, <1>4, <1>5, CancelStep

\* A booking that was cancelled holds no vehicle: all its entries are gone when its
\* status is written, and nothing brings one back.
THEOREM CancelledIsReleased ==
    ASSUME CartsStay
    PROVE  Spec => []CancelledHoldsNothing
<1>0. OneRequest
  BY DEF CartsStay
<1>1. Init => CInv
  BY DEF Init, CInv, Rightful, ToBeReleased, Idle
<1>2. ASSUME IInv, UInv, CInv, NEW r \in Requests, Handle(r) \/ Ask(r) \/ Abort(r)
      PROVE  CInv'
  <2>1. ASSUME NEW v \in Vehicles,
               \/ CheckVehicle(r, v) \/ RefuseVehicle(r, v) \/ PushReservation(r, v)
               \/ RereadVehicle(r, v) \/ RewriteVehicle(r, v)
               \/ ReadForRelease(r, v) \/ WriteReleased(r, v)
        PROVE  CInv'
    BY <1>2, <2>1, CreateCancel, PushCancel, ReleaseCancel
  <2>2. CASE SaveBooking(r) \/ SaveBookingUserGone(r)
    BY <1>2, <2>2, CreateCancel
  <2>3. CASE FinishCancel(r)
    BY <1>2, <2>3, FinishCancelled
  <2>4. CASE Abort(r)
    <3>1. ToBeReleased(reservations', request'[r])
      BY <1>2, <2>4, ReturnTurns DEF Abort, ToBeReleased, Idle
    <3>2. \A v \in Vehicles : Rightful(booking', v, reservations'[v])
      BY <1>2, <2>4 DEF Abort, CInv
    <3> QED
      BY <1>2, <2>4, <3>1, <3>2, CancelStep DEF Abort
  <2>5. CASE Ask(r)
    <3>1. ASSUME NEW b \in Bookings,
                 \/ \E op \in {"web", "manual", "admin"}, cart \in Cart \ {Nothing} :
                       StartCreate(r, op, b, cart)
                 \/ \E op \in {"cancel", "update"} : StartCancel(r, op, b)
          PROVE  CInv'
      BY <1>2, <3>1, StartCancelled
    <3>2. ASSUME NEW v \in Vehicles, EditVehicle(r, v) \/ UpdatePrices(r, v)
          PROVE  CInv'
      BY <1>2, <3>2, ChangeCancelled
    <3> QED
      BY <2>5, <3>1, <3>2
         DEF Ask, CartsStay, Change, EditBookingCart, ChangeContractCart, DeleteVehicle
  <2> QED
    BY <1>2, <2>1, <2>2, <2>3, <2>4, <2>5 DEF Handle
<1>3. CInv /\ UNCHANGED vars => CInv'
  BY DEF CInv, Rightful, ToBeReleased, vars
<1>4. IInv /\ UInv /\ CInv /\ [Next]_vars => CInv'
  BY <1>2, <1>3 DEF Next
<1>5. CInv => CancelledHoldsNothing
  BY ConstantsAssumption DEF CInv, Rightful, CancelledHoldsNothing, Held
<1>6. Spec => []IInv /\ []UInv
  BY <1>0, IInvariance, NobodyInterferes, PTL
<1> QED
  BY <1>1, <1>4, <1>5, <1>6, PTL DEF Spec

-----------------------------------------------------------------------------
(* What bookings hold. *)

\* Every entry names a booking.
Named(S) == \A e \in S : e.booking # NoBooking

\* Booking b has an entry for dates i.
Holds(S, b, i) == \E e \in S : e.booking = b /\ e.start = i.start /\ e.end = i.end

\* Booking b has vehicles vs of its cart, but for those that are gone.
HeldFor(arrays, gone, b, cart, vs) == \A v \in vs \ gone : Holds(arrays[v], b, cart[v])

\* An open booking that nobody works on has its cart.
AllHeld(b) ==
    booking[b].status = "open" /\ Settled(b) =>
        HeldFor(reservations, deleted, b, booking[b].cart, DOMAIN booking[b].cart)

LEMMA HoldsIsHeld ==
    ASSUME NEW v, NEW b, NEW i \in Interval
    PROVE  i \in Held(v, b) <=> Holds(reservations[v], b, i)
<1>1. i = [start |-> i.start, end |-> i.end]
  BY DEF Interval
<1> QED
  BY <1>1 DEF Held, Holds

LEMMA PushedHolds ==
    ASSUME NEW S, NEW b, NEW i
    PROVE  /\ Holds(Pushed(S, b, i), b, i)
           /\ \A c, j : Holds(S, c, j) => Holds(Pushed(S, b, i), c, j)
           /\ b # NoBooking /\ Named(S) => Named(Pushed(S, b, i))
<1> DEFINE new == [start |-> i.start, end |-> i.end, booking |-> b, pos |-> NextPos(S)]
<1>1. Pushed(S, b, i) = S \cup {new}
  BY DEF Pushed
<1>2. new.booking = b /\ new.start = i.start /\ new.end = i.end
  OBVIOUS
<1> HIDE DEF new
<1> QED
  BY <1>1, <1>2 DEF Holds, Named

LEMMA WorksOnBooking ==
    ASSUME IInv, NEW r \in Requests, request[r].stage # "idle"
    PROVE  /\ request[r].booking \in Bookings /\ request[r].booking # NoBooking
           /\ request[r].todo \cup request[r].at \subseteq DOMAIN request[r].cart
           /\ request[r].cart \in Cart
BY ConstantsAssumption DEF IInv, GoodRequest, Request

-----------------------------------------------------------------------------
(* What an open booking holds. *)

\* Nothing but the creation and the cancellation of bookings changes an array, and no
\* creation stops half way.
Reliable ==
    /\ OneRequest
    /\ Operations \subseteq {"web", "manual", "admin", "cancel", "update", "deleteVehicle"}

\* How far the creation of a booking has come.
Progress(arrays, gone, q) ==
    /\ q.stage = "check" /\ q.op # "admin" => (DOMAIN q.cart \ q.todo) \cap gone = {}
    /\ q.stage = "push" => HeldFor(arrays, gone, q.booking, q.cart, DOMAIN q.cart \ q.todo)
    /\ q.stage \in {"reread", "rewrite"} =>
          HeldFor(arrays, gone, q.booking, q.cart, DOMAIN q.cart)

KInv ==
    /\ \A v \in Vehicles : Named(reservations[v])
    /\ \A b \in Bookings : AllHeld(b)
    /\ \A r \in Requests : Progress(reservations, deleted, request[r])

LEMMA ReleasedHolds ==
    ASSUME NEW S, Named(S), NEW b, NEW i
    PROVE  /\ \A c, j : c # b /\ Holds(S, c, j) => Holds(Released(S, b, i), c, j)
           /\ Named(Released(S, b, i))
BY DEF Released, Matches, Holds, Named

\* The arrays keep what they hold for others than b.
Keeps(b) ==
    \A v \in Vehicles : \A c \in Bookings \ {b} : \A j :
        Holds(reservations[v], c, j) => Holds(reservations[v], c, j)'

\* A step of the handler for booking b: the others keep what they have, and b is still
\* worked on, or is not open, or has all it should have.
LEMMA HeldStep ==
    ASSUME Reliable, IInv, UInv, KInv, NEW r \in Requests, NEW b \in Bookings,
           request[r].booking = b, UNCHANGED deleted, Keeps(b),
           \A c \in Bookings \ {b} : booking'[c] = booking[c],
           \A v \in Vehicles : Named(reservations'[v]),
           Progress(reservations', deleted', request'[r]),
           \/ request'[r].booking = b
           \/ booking'[b].status # "open"
           \/ HeldFor(reservations', deleted, b, booking'[b].cart, DOMAIN booking'[b].cart)
    PROVE  KInv'
<1>0. \A s \in Requests : s = r
  BY OnlyHandler DEF Reliable
<1>1. ASSUME NEW c \in Bookings
      PROVE  AllHeld(c)'
  <2> SUFFICES ASSUME booking'[c].status = "open", Settled(c)'
               PROVE  HeldFor(reservations', deleted', c, booking'[c].cart,
                              DOMAIN booking'[c].cart)
    BY DEF AllHeld
  <2>1. CASE c = b
    <3>1. request'[r].booking # b
      BY <2>1 DEF Settled
    <3> QED
      BY <2>1, <3>1
  <2>2. CASE c # b
    <3>1. Settled(c) /\ booking'[c] = booking[c]
      BY <1>0, <2>2 DEF Settled
    <3>2. HeldFor(reservations, deleted, c, booking[c].cart, DOMAIN booking[c].cart)
      BY <3>1 DEF KInv, AllHeld
    <3>3. DOMAIN booking[c].cart \subseteq Vehicles
      BY CartType DEF IInv, BookingDocs
    <3> QED
      BY <2>2, <3>1, <3>2, <3>3 DEF HeldFor, Keeps
  <2> QED
    BY <2>1, <2>2
<1> QED
  BY <1>0, <1>1 DEF KInv

\* The arrays stay as they are.
LEMMA SameKeeps ==
    ASSUME KInv, UNCHANGED reservations, NEW b
    PROVE  Keeps(b) /\ \A v \in Vehicles : Named(reservations'[v])
BY DEF KInv, Keeps

\* One array is replaced.
LEMMA ChangeKeeps ==
    ASSUME IInv, KInv, NEW b, NEW v \in Vehicles, NEW S,
           reservations' = [reservations EXCEPT ![v] = S],
           Named(S), \A c \in Bookings \ {b} : \A j : Holds(reservations[v], c, j) => Holds(S, c, j)
    PROVE  Keeps(b) /\ \A w \in Vehicles : Named(reservations'[w])
<1>1. \A w \in Vehicles : reservations'[w] = IF w = v THEN S ELSE reservations[w]
  BY DEF IInv, GoodVehicles
<1> QED
  BY <1>1 DEF KInv, Keeps

LEMMA ProgressIdle ==
    ASSUME NEW arrays, NEW gone
    PROVE  Progress(arrays, gone, Idle)
BY DEF Progress, Idle

LEMMA CreateHeld ==
    ASSUME Reliable, IInv, UInv, KInv, NEW r \in Requests,
           \/ \E v \in Vehicles : CheckVehicle(r, v) \/ RefuseVehicle(r, v)
           \/ SaveBooking(r)
    PROVE  KInv'
<1> DEFINE b == request[r].booking
<1>0. /\ request[r].stage = "check" /\ UNCHANGED <<reservations, deleted>>
      /\ booking[b].status = "none" /\ b \in Bookings
      /\ Progress(reservations, deleted, request[r])
  BY WorksOnBooking
     DEF CheckVehicle, RefuseVehicle, SaveBooking, UInv, Undisturbed, KInv
<1>1. Keeps(b) /\ \A v \in Vehicles : Named(reservations'[v])
  BY <1>0, SameKeeps
<1>2. \A c \in Bookings \ {b} : booking'[c] = booking[c]
  BY DEF CheckVehicle, RefuseVehicle, SaveBooking, IInv, BookingDocs
<1>3. ASSUME NEW v \in Vehicles, CheckVehicle(r, v)
      PROVE  KInv'
  <2>1. v \notin deleted
    BY <1>3 DEF CheckVehicle, Available
  <2>2. /\ Progress(reservations', deleted', request'[r])
        /\ request'[r].booking = b
    BY <1>0, <1>3, <2>1, CreateTurns DEF Turned, Progress
  <2> QED
    BY <1>0, <1>1, <1>2, <2>2, HeldStep
<1>4. CASE SaveBooking(r)
  <2>1. /\ Progress(reservations', deleted', request'[r])
        /\ request'[r].booking = b
    BY <1>0, <1>4, CreateTurns DEF Turned, Progress, HeldFor
  <2> QED
    BY <1>0, <1>1, <1>2, <2>1, HeldStep
<1>5. ASSUME NEW v \in Vehicles, RefuseVehicle(r, v)
      PROVE  KInv'
  <2>1. request'[r] = Idle /\ booking'[b].status # "open"
    BY <1>0, <1>5, ReturnTurns DEF RefuseVehicle
  <2> QED
    BY <1>0, <1>1, <1>2, <2>1, ProgressIdle, HeldStep
<1> QED
  BY <1>3, <1>4, <1>5

LEMMA PushHeld ==
    ASSUME Reliable, IInv, UInv, KInv, NEW r \in Requests, NEW v \in Vehicles,
           \/ PushReservation(r, v) \/ RereadVehicle(r, v) \/ RewriteVehicle(r, v)
    PROVE  KInv'
<1> DEFINE b == request[r].booking
           cart == request[r].cart
           S == Pushed(reservations[v], b, cart[v])
<1>stage. /\ request[r].stage \in {"push", "reread", "rewrite"} /\ UNCHANGED <<booking, deleted>>
       /\ v \in request[r].todo \cup request[r].at
  BY DEF PushReservation, RereadVehicle, RewriteVehicle
<1>0. /\ UNCHANGED <<booking, deleted>>
      /\ b \in Bookings /\ b # NoBooking /\ booking'[b].cart = cart
      /\ DOMAIN cart \subseteq Vehicles /\ v \in DOMAIN cart
      /\ Progress(reservations, deleted, request[r])
  <2>1. b \in Bookings /\ b # NoBooking /\ v \in DOMAIN cart /\ cart \in Cart
    BY <1>stage, WorksOnBooking
  <2>2. booking[b].cart = cart
    <3>1. Undisturbed(booking, reservations, request[r])
      BY DEF UInv
    <3>2. booking[b] = [status |-> "open", cart |-> cart]
      BY <1>stage, <3>1 DEF Undisturbed
    <3> QED
      BY <3>2
  <2>3. DOMAIN cart \subseteq Vehicles
    BY <2>1, CartType
  <2> QED
    BY <1>stage, <2>1, <2>2, <2>3 DEF KInv
<1>1. \/ UNCHANGED reservations
      \/ reservations' = [reservations EXCEPT ![v] = S]
  BY DEF PushReservation, RereadVehicle, RewriteVehicle, UInv, Undisturbed
<1>2. Named(S) /\ Holds(S, b, cart[v]) /\ \A c, j : Holds(reservations[v], c, j) => Holds(S, c, j)
  BY <1>0, PushedHolds DEF KInv
<1> HIDE DEF S
<1>3. Keeps(b) /\ \A w \in Vehicles : Named(reservations'[w])
  BY <1>1, <1>2, SameKeeps, ChangeKeeps
<1>4. \A w \in Vehicles : \A j : Holds(reservations[w], b, j) => Holds(reservations'[w], b, j)
  <2>1. CASE UNCHANGED reservations
    BY <2>1
  <2>2. CASE reservations' = [reservations EXCEPT ![v] = S]
    <3>1. \A w \in Vehicles : reservations'[w] = IF w = v THEN S ELSE reservations[w]
      BY <2>2 DEF IInv, GoodVehicles
    <3> QED
      BY <1>2, <3>1
  <2> QED
    BY <1>1, <2>1, <2>2
<1>5. CASE PushReservation(r, v)
  <2>1. request[r].stage = "push"
    BY <1>5 DEF PushReservation
  <2>2. v \in deleted \/ Holds(reservations'[v], b, cart[v])
    <3>1. v \notin deleted => reservations'[v] = S
      BY <1>5 DEF PushReservation, IInv, GoodVehicles, S
    <3> QED
      BY <1>2, <3>1
  <2>3. HeldFor(reservations', deleted', b, cart, DOMAIN cart \ (request[r].todo \ {v}))
    <3>1. HeldFor(reservations, deleted, b, cart, DOMAIN cart \ request[r].todo)
      BY <1>0, <2>1 DEF Progress
    <3> QED
      BY <1>0, <1>4, <2>2, <3>1 DEF HeldFor
  <2>4. request[r].todo \subseteq {v} =>
           HeldFor(reservations', deleted', b, cart, DOMAIN cart)
    BY <2>3 DEF HeldFor
  <2>5. CASE Turned(r, "push", request[r].todo \ {v}, {}, request[r].copy)
    <3>1. Progress(reservations', deleted', request'[r]) /\ request'[r].booking = b
      BY <2>3, <2>5 DEF Turned, Progress
    <3> QED
      BY <1>0, <1>3, <3>1, HeldStep
  <2>6. CASE /\ request[r].todo \subseteq {v}
             /\ Turned(r, "reread", DOMAIN cart, {}, request[r].copy)
    <3>1. Progress(reservations', deleted', request'[r]) /\ request'[r].booking = b
      BY <2>4, <2>6 DEF Turned, Progress
    <3> QED
      BY <1>0, <1>3, <3>1, HeldStep
  <2>7. CASE request[r].todo \subseteq {v} /\ request'[r] = Idle
    BY <1>0, <1>3, <2>4, <2>7, ProgressIdle, HeldStep
  <2> QED
    BY <1>5, <2>5, <2>6, <2>7, PushTurns
<1>6. CASE RereadVehicle(r, v) \/ RewriteVehicle(r, v)
  <2>1. HeldFor(reservations', deleted', b, cart, DOMAIN cart)
    <3>1. HeldFor(reservations, deleted, b, cart, DOMAIN cart)
      BY <1>0, <1>6 DEF Progress, RereadVehicle, RewriteVehicle
    <3> QED
      BY <1>0, <1>4, <3>1 DEF HeldFor
  <2>2. ASSUME NEW stage \in {"reread", "rewrite"}, NEW todo, NEW at, NEW copy,
               Turned(r, stage, todo, at, copy)
        PROVE  KInv'
    <3>1. Progress(reservations', deleted', request'[r]) /\ request'[r].booking = b
      BY <2>1, <2>2 DEF Turned, Progress
    <3> QED
      BY <1>0, <1>3, <3>1, HeldStep
  <2>3. CASE request'[r] = Idle
    BY <1>0, <1>3, <2>1, <2>3, ProgressIdle, HeldStep
  <2> QED
    BY <1>6, <2>2, <2>3, RewriteTurns
<1> QED
  BY <1>5, <1>6

LEMMA ReleaseHeld ==
    ASSUME Reliable, IInv, UInv, KInv, NEW r \in Requests, NEW v \in Vehicles,
           ReadForRelease(r, v) \/ WriteReleased(r, v)
    PROVE  KInv'
<1> DEFINE b == request[r].booking
           S == Released(reservations[v], b, request[r].cart[v])
<1>0. UNCHANGED <<booking, deleted>> /\ b \in Bookings
  BY WorksOnBooking DEF ReadForRelease, WriteReleased
<1>1. \/ UNCHANGED reservations
      \/ reservations' = [reservations EXCEPT ![v] = S]
  BY DEF ReadForRelease, WriteReleased, UInv, Undisturbed
<1>2. Named(S) /\ \A c \in Bookings \ {b} : \A j : Holds(reservations[v], c, j) => Holds(S, c, j)
  BY ReleasedHolds DEF KInv
<1> HIDE DEF S
<1>3. Keeps(b) /\ \A w \in Vehicles : Named(reservations'[w])
  BY <1>1, <1>2, SameKeeps, ChangeKeeps
<1>4. request'[r].booking = b /\ request'[r].stage \in {"release", "releaseWrite"}
  BY ReleaseTurns DEF Turned
<1>5. Progress(reservations', deleted', request'[r])
  BY <1>4 DEF Progress
<1> QED
  BY <1>0, <1>3, <1>4, <1>5, HeldStep

LEMMA FinishHeld ==
    ASSUME Reliable, IInv, UInv, KInv, NEW r \in Requests, FinishCancel(r)
    PROVE  KInv'
<1> DEFINE b == request[r].booking
<1>0. b \in Bookings /\ UNCHANGED <<reservations, deleted>> /\ request'[r] = Idle
  BY WorksOnBooking, ReturnTurns DEF FinishCancel
<1>1. /\ \A c \in Bookings \ {b} : booking'[c] = booking[c]
      /\ booking'[b].status # "open"
  BY <1>0 DEF FinishCancel, IInv, BookingDocs
<1> QED
  BY <1>0, <1>1, SameKeeps, ProgressIdle, HeldStep

LEMMA StartHeld ==
    ASSUME Reliable, IInv, UInv, KInv, NEW r \in Requests, NEW b \in Bookings, NEW op,
           NEW cart, StartCreate(r, op, b, cart) \/ StartCancel(r, op, b)
    PROVE  KInv'
<1>0. /\ \A s \in Requests : s = r
      /\ UNCHANGED <<reservations, deleted, booking>> /\ request[r].booking = NoBooking
  BY OnlyHandler DEF Reliable, StartCreate, StartCancel, Free, UInv, Undisturbed
<1>1. \A c \in Bookings : Settled(c)
  BY <1>0, ConstantsAssumption DEF Settled
<1>2. Progress(reservations', deleted', request'[r])
  <2>1. CASE StartCreate(r, op, b, cart)
    <3>1. /\ request'[r].stage = "check" /\ request'[r].op = op /\ request'[r].cart = cart
          /\ op # "admin" => request'[r].todo = DOMAIN cart
      BY <2>1, BeginFields DEF StartCreate
    <3> QED
      BY <3>1 DEF Progress
  <2>2. CASE StartCancel(r, op, b)
    <3>1. request'[r].stage = "release"
      BY <2>2, BeginFields DEF StartCancel
    <3> QED
      BY <3>1 DEF Progress
  <2> QED
    BY <2>1, <2>2
<1>3. \A c \in Bookings : AllHeld(c)'
  BY <1>0, <1>1 DEF KInv, AllHeld
<1> QED
  BY <1>0, <1>2, <1>3 DEF KInv

LEMMA DeleteHeld ==
    ASSUME Reliable, IInv, UInv, KInv, NEW r \in Requests, NEW v \in Vehicles,
           DeleteVehicle(r, v)
    PROVE  KInv'
<1>0. /\ \A s \in Requests : s = r
      /\ UNCHANGED <<reservations, booking, request>> /\ deleted \subseteq deleted'
      /\ request[r].stage = "idle"
  BY OnlyHandler DEF Reliable, DeleteVehicle, Change, Free
<1>1. Progress(reservations', deleted', request'[r])
  BY <1>0 DEF Progress
<1>2. \A c \in Bookings : AllHeld(c)'
  BY <1>0 DEF KInv, AllHeld, Settled, HeldFor
<1> QED
  BY <1>0, <1>1, <1>2 DEF KInv

LEMMA HeldNext ==
    ASSUME Reliable, IInv, UInv, KInv, NEW r \in Requests, Handle(r) \/ Ask(r) \/ Abort(r)
    PROVE  KInv'
<1>1. ASSUME NEW v \in Vehicles,
             \/ CheckVehicle(r, v) \/ RefuseVehicle(r, v) \/ PushReservation(r, v)
             \/ RereadVehicle(r, v) \/ RewriteVehicle(r, v)
             \/ ReadForRelease(r, v) \/ WriteReleased(r, v)
      PROVE  KInv'
  BY <1>1, CreateHeld, PushHeld, ReleaseHeld
<1>2. CASE SaveBooking(r)
  BY <1>2, CreateHeld
<1>3. CASE FinishCancel(r)
  BY <1>3, FinishHeld
<1>4. CASE Ask(r)
  <2>1. ASSUME NEW b \in Bookings,
               \/ \E op \in {"web", "manual", "admin"}, cart \in Cart \ {Nothing} :
                     StartCreate(r, op, b, cart)
               \/ \E op \in {"cancel", "update"} : StartCancel(r, op, b)
        PROVE  KInv'
    BY <2>1, StartHeld
  <2>2. ASSUME NEW v \in Vehicles, DeleteVehicle(r, v)
        PROVE  KInv'
    BY <2>2, DeleteHeld
  <2> QED
    BY <1>4, <2>1, <2>2
       DEF Ask, Reliable, Change, EditBookingCart, ChangeContractCart, EditVehicle, UpdatePrices
<1> QED
  BY <1>1, <1>2, <1>3, <1>4 DEF Handle, Reliable, SaveBookingUserGone, Abort

LEMMA HeldInvariance ==
    ASSUME Reliable
    PROVE  Spec => [](IInv /\ UInv /\ KInv)
<1>0. OneRequest
  BY DEF Reliable
<1>1. Init => KInv
  BY ProgressIdle DEF Init, KInv, Named, AllHeld
<1>2. KInv /\ UNCHANGED vars => KInv'
  BY DEF KInv, Named, AllHeld, Settled, HeldFor, Holds, Progress, vars
<1>3. IInv /\ UInv /\ KInv /\ [Next]_vars => KInv'
  BY <1>2, HeldNext DEF Next
<1>4. Spec => []IInv /\ []UInv
  BY <1>0, IInvariance, NobodyInterferes, PTL
<1> QED
  BY <1>1, <1>3, <1>4, PTL DEF Spec

\* A booking that is open and that nobody works on has every vehicle of its cart, for
\* the dates of the cart, unless the vehicle was deleted.
THEOREM CartIsReserved ==
    ASSUME Reliable
    PROVE  Spec => []CartVehiclesReserved
<1>1. IInv /\ KInv => CartVehiclesReserved
  <2> SUFFICES ASSUME IInv, KInv, NEW b \in Bookings, booking[b].status = "open", Settled(b),
                      NEW v \in DOMAIN booking[b].cart \ deleted
               PROVE  booking[b].cart[v] \in Held(v, b)
    BY DEF CartVehiclesReserved
  <2>1. booking[b].cart[v] \in Interval
    BY CartType DEF IInv, BookingDocs
  <2>2. Holds(reservations[v], b, booking[b].cart[v])
    BY DEF KInv, AllHeld, HeldFor
  <2> QED
    BY <2>1, <2>2, HoldsIsHeld
<1> QED
  BY <1>1, HeldInvariance, PTL

-----------------------------------------------------------------------------
(* The calendar that the documents of the bookings keep. *)

\* ... and every booking is checked before it is created.
Checked == Reliable /\ "admin" \notin Operations

\* What a booking document says its booking holds.
Holding(doc) == IF doc.status = "open" THEN doc.cart ELSE Nothing

\* The refinement mapping of Calendar.
StatusOf(docs) == [b \in Bookings |-> docs[b].status]

HoldsOf(docs) ==
    [b \in Bookings |-> IF docs[b].status = "open" THEN docs[b].cart ELSE Nothing]

\* One document is replaced.
Replaced(docs, newDocs, b, doc) ==
    \A c \in Bookings : newDocs[c] = IF c = b THEN doc ELSE docs[c]

\* ... and the state of the calendar follows.
Follows(docs, newDocs, b, status, held) ==
    /\ StatusOf(newDocs) = [StatusOf(docs) EXCEPT ![b] = status]
    /\ HoldsOf(newDocs) = [HoldsOf(docs) EXCEPT ![b] = held]

LEMMA MappedChange ==
    ASSUME NEW docs, NEW newDocs, NEW b \in Bookings, NEW doc,
           Replaced(docs, newDocs, b, doc)
    PROVE  Follows(docs, newDocs, b, doc.status, Holding(doc))
<1>1. \A c \in Bookings : newDocs[c].status = IF c = b THEN doc.status ELSE docs[c].status
  BY DEF Replaced
<1>2. StatusOf(newDocs) = [StatusOf(docs) EXCEPT ![b] = doc.status]
  BY <1>1 DEF StatusOf
<1> DEFINE held(d, c) == IF d[c].status = "open" THEN d[c].cart ELSE Nothing
<1>3. \A c \in Bookings : held(newDocs, c) = IF c = b THEN Holding(doc) ELSE held(docs, c)
  BY DEF Holding, Replaced
<1>4. \A d : HoldsOf(d) = [c \in Bookings |-> held(d, c)]
  BY DEF HoldsOf
<1> HIDE DEF held
<1>5. HoldsOf(newDocs) = [HoldsOf(docs) EXCEPT ![b] = Holding(doc)]
  BY <1>3, <1>4
<1> QED
  BY <1>2, <1>5 DEF Follows

\* What was checked and is still free is compatible with every open booking: its
\* reservations are where the check has looked for them.
LEMMA CheckedIsCompatible ==
    ASSUME Checked, IInv, UInv, KInv, SInv, NEW r \in Requests, SaveBooking(r),
           NEW c \in Bookings
    PROVE  Calendar!Compatible(request[r].cart, Holding(booking[c]))
<1> DEFINE b == request[r].booking
           cart == request[r].cart
           other == booking[c].cart
<1>1. /\ request[r].stage = "check" /\ request[r].todo = {} /\ b \in Bookings
      /\ cart \in Cart /\ c # NoBooking
  BY WorksOnBooking, ConstantsAssumption DEF SaveBooking
<1>2. CASE booking[c].status # "open"
  <2>1. Holding(booking[c]) = Nothing
    BY <1>2 DEF Holding
  <2>2. DOMAIN Nothing = {}
    BY DEF Nothing
  <2> QED
    BY <2>1, <2>2 DEF Calendar!Compatible
<1>3. CASE booking[c].status = "open"
  <2>1. Holding(booking[c]) = other
    BY <1>3 DEF Holding
  <2>2. c # b
    BY <1>1, <1>3 DEF UInv, Undisturbed
  <2>3. Settled(c)
    BY <2>2, OnlyHandler DEF Settled, Checked, Reliable
  <2>4. HeldFor(reservations, deleted, c, other, DOMAIN other)
    BY <1>3, <2>3 DEF KInv, AllHeld
  <2>5. /\ \A v \in DOMAIN cart : v \in Vehicles /\ cart[v] \in Interval
        /\ \A v \in DOMAIN other : other[v] \in Interval
    BY <1>1, CartType DEF IInv, BookingDocs
  <2>6. \A v \in DOMAIN cart : v \notin deleted /\ Spared(reservations[v], b, cart[v])
    BY <1>1 DEF KInv, Progress, SInv, SerialRequest
  <2> SUFFICES ASSUME NEW v \in DOMAIN cart \cap DOMAIN other
               PROVE  ~Calendar!Overlap(cart[v], other[v])
    BY <2>1 DEF Calendar!Compatible
  <2>7. PICK e \in reservations[v] :
           e.booking = c /\ e.start = other[v].start /\ e.end = other[v].end
    BY <2>4, <2>6 DEF HeldFor, Holds
  <2>8. ~Conflict(cart[v], e)
    BY <1>1, <2>2, <2>6, <2>7 DEF Spared
  <2>9. /\ cart[v].start \in Int /\ cart[v].end \in Int /\ cart[v].start < cart[v].end
        /\ e.start \in Int /\ e.end \in Int /\ e.start < e.end
    BY <2>5, <2>7, TimesOfInterval
  <2>10. ~Overlap(cart[v], e)
    BY <2>8, <2>9, ConflictIsOverlap
  <2> QED
    BY <2>7, <2>10 DEF Overlap, Calendar!Overlap
<1> QED
  BY <1>2, <1>3

\* The insert of a booking is the calendar's Book.
LEMMA SaveIsBook ==
    ASSUME Checked, IInv, UInv, KInv, SInv, NEW r \in Requests, SaveBooking(r),
           NEW b, b = request[r].booking, NEW cart, cart = request[r].cart
    PROVE  Calendar!Book(b, cart)
<1>1. b \in Bookings /\ booking \in BookingDocs /\ booking[b].status = "none"
  BY WorksOnBooking DEF SaveBooking, IInv, UInv, Undisturbed
<1> DEFINE doc == [status |-> "open", cart |-> cart]
<1>2. booking' = [booking EXCEPT ![b] = doc]
  BY DEF SaveBooking
<1>3. doc.status = "open" /\ Holding(doc) = cart
  BY DEF Holding
<1> HIDE DEF doc
<1>4. \A c \in Bookings : booking'[c] = IF c = b THEN doc ELSE booking[c]
  BY <1>1, <1>2 DEF BookingDocs
<1>5. /\ StatusOf(booking') = [StatusOf(booking) EXCEPT ![b] = "open"]
      /\ HoldsOf(booking') = [HoldsOf(booking) EXCEPT ![b] = cart]
  <2>1. PICK docs, newDocs : docs = booking /\ newDocs = booking'
    OBVIOUS
  <2>2. Replaced(docs, newDocs, b, doc)
    BY <1>4, <2>1 DEF Replaced
  <2>3. Follows(docs, newDocs, b, doc.status, Holding(doc))
    BY <1>1, <2>2, MappedChange
  <2> QED
    BY <1>3, <2>1, <2>3 DEF Follows
<1>6. StatusOf(booking)[b] = "none"
  BY <1>1 DEF StatusOf
<1>7. \A c \in Bookings : Calendar!Compatible(cart, HoldsOf(booking)[c])
  BY CheckedIsCompatible DEF HoldsOf, Holding
<1> QED
  BY <1>5, <1>6, <1>7 DEF StatusOf, HoldsOf, Calendar!Book

\* The end of a cancellation is its Cancel.
LEMMA FinishIsCancel ==
    ASSUME Checked, IInv, UInv, NEW r \in Requests, FinishCancel(r),
           NEW b, b = request[r].booking
    PROVE  Calendar!Cancel(b)
<1>1. /\ b \in Bookings /\ booking \in BookingDocs /\ booking[b].status = "open"
  <2>1. request[r].stage = "release" /\ Undisturbed(booking, reservations, request[r])
    BY DEF FinishCancel, UInv
  <2>2. booking[b] = [status |-> "open", cart |-> request[r].cart]
    BY <2>1 DEF Undisturbed
  <2> QED
    BY <2>1, <2>2, WorksOnBooking DEF IInv
<1>2. \E cart : booking' = [booking EXCEPT ![b] = [status |-> "cancelled", cart |-> cart]]
  BY DEF FinishCancel
<1>3. PICK cart : booking' = [booking EXCEPT ![b] = [status |-> "cancelled", cart |-> cart]]
  BY <1>2
<1> DEFINE doc == [status |-> "cancelled", cart |-> cart]
<1>4. doc.status = "cancelled" /\ Holding(doc) = Nothing /\ booking' = [booking EXCEPT ![b] = doc]
  BY <1>3 DEF Holding
<1> HIDE DEF doc
<1>5. \A c \in Bookings : booking'[c] = IF c = b THEN doc ELSE booking[c]
  BY <1>1, <1>4 DEF BookingDocs
<1>6. /\ StatusOf(booking') = [StatusOf(booking) EXCEPT ![b] = "cancelled"]
      /\ HoldsOf(booking') = [HoldsOf(booking) EXCEPT ![b] = Nothing]
  <2>1. PICK docs, newDocs : docs = booking /\ newDocs = booking'
    OBVIOUS
  <2>2. Replaced(docs, newDocs, b, doc)
    BY <1>5, <2>1 DEF Replaced
  <2>3. Follows(docs, newDocs, b, doc.status, Holding(doc))
    BY <1>1, <2>2, MappedChange
  <2> QED
    BY <1>4, <2>1, <2>3 DEF Follows
<1>7. StatusOf(booking)[b] = "open"
  BY <1>1 DEF StatusOf
<1> QED
  BY <1>6, <1>7 DEF StatusOf, HoldsOf, Calendar!Cancel, Calendar!NoVehicles, Nothing

\* Every other step leaves the booking documents as they are.
LEMMA NextIsCalendar ==
    ASSUME Checked, IInv, UInv, KInv, SInv, [Next]_vars
    PROVE  [Calendar!Next]_<<StatusOf(booking), HoldsOf(booking)>>
<1>1. ASSUME NEW r \in Requests, SaveBooking(r)
      PROVE  Calendar!Next
  <2>1. request[r].booking \in Bookings /\ request[r].cart \in Calendar!Holdings
    BY <1>1, WorksOnBooking DEF SaveBooking, Calendar!Holdings, Cart
  <2>2. PICK b \in Bookings, cart \in Calendar!Holdings :
           b = request[r].booking /\ cart = request[r].cart
    BY <2>1
  <2>3. Calendar!Book(b, cart)
    BY <1>1, <2>2, SaveIsBook
  <2> QED
    BY <2>3 DEF Calendar!Next
<1>2. ASSUME NEW r \in Requests, FinishCancel(r)
      PROVE  Calendar!Next
  <2>1. request[r].booking \in Bookings
    BY <1>2, WorksOnBooking DEF FinishCancel
  <2>2. PICK b \in Bookings : b = request[r].booking
    BY <2>1
  <2>3. Calendar!Cancel(b)
    BY <1>2, <2>2, FinishIsCancel
  <2> QED
    BY <2>3 DEF Calendar!Next
<1>3. ASSUME NEW r \in Requests, Handle(r) \/ Ask(r) \/ Abort(r),
             ~SaveBooking(r), ~FinishCancel(r)
      PROVE  UNCHANGED booking
  BY <1>3 DEF Handle, Ask, Abort, Checked, Reliable, SaveBookingUserGone, Change,
              EditBookingCart, ChangeContractCart, CheckVehicle, RefuseVehicle,
              PushReservation, RereadVehicle, RewriteVehicle, ReadForRelease, WriteReleased,
              StartCreate, StartCancel, EditVehicle, UpdatePrices, DeleteVehicle
<1>4. UNCHANGED vars => UNCHANGED booking
  BY DEF vars
<1>5. UNCHANGED booking => UNCHANGED <<StatusOf(booking), HoldsOf(booking)>>
  BY DEF StatusOf, HoldsOf
<1> QED
  BY <1>1, <1>2, <1>3, <1>4, <1>5 DEF Next

LEMMA CheckedInvariance ==
    ASSUME Checked
    PROVE  Spec => [](IInv /\ UInv /\ KInv /\ SInv)
<1>1. Reliable /\ Serial
  BY DEF Checked, Reliable, OneRequest, Serial
<1> QED
  BY <1>1, HeldInvariance, SerialInvariance, PTL

\* Handlers that run one after the other, with all their reads and writes of vehicles,
\* do to the booking documents what the calendar does in one step: a booking is opened
\* with all its vehicles, all of them free, and is cancelled once.
THEOREM CalendarIsImplemented ==
    ASSUME Checked
    PROVE  Spec => ImplementsCalendar
<1>1. Init => Calendar!Init
  BY DEF Init, Calendar!Init, Calendar!NoVehicles, Nothing
<1>2. IInv /\ UInv /\ KInv /\ SInv /\ [Next]_vars =>
         [Calendar!Next]_<<[b \in Bookings |-> booking[b].status],
                           [b \in Bookings |-> IF booking[b].status = "open"
                                                 THEN booking[b].cart ELSE Nothing]>>
  BY NextIsCalendar DEF StatusOf, HoldsOf
<1> QED
  BY <1>1, <1>2, CheckedInvariance, PTL DEF Spec, ImplementsCalendar, Calendar!Spec

\* The documents of no two open bookings promise a vehicle at the same time.
THEOREM NothingPromisedTwice ==
    ASSUME Checked
    PROVE  Spec => []Calendar!NoOverbooking
<1> DEFINE J == \A b, c \in Bookings :
                   b # c => Calendar!Compatible(HoldsOf(booking)[b], HoldsOf(booking)[c])
<1>1. Init => J
  BY DEF Init, HoldsOf, Calendar!Compatible, Nothing
<1>2. \A h, g : Calendar!Compatible(h, g) <=> Calendar!Compatible(g, h)
  BY DEF Calendar!Compatible, Calendar!Overlap
<1>3. ASSUME NEW b \in Bookings, NEW h, Calendar!Book(b, h), J
      PROVE  J'
  <2>1. /\ HoldsOf(booking)' = [HoldsOf(booking) EXCEPT ![b] = h]
        /\ \A c \in Bookings : Calendar!Compatible(h, HoldsOf(booking)[c])
    BY <1>3 DEF Calendar!Book, HoldsOf
  <2>2. \A c \in Bookings : HoldsOf(booking)'[c] = IF c = b THEN h ELSE HoldsOf(booking)[c]
    BY <2>1 DEF HoldsOf
  <2> QED
    BY <1>2, <1>3, <2>1, <2>2
<1>4. ASSUME NEW b \in Bookings, Calendar!Cancel(b), J
      PROVE  J'
  <2>1. HoldsOf(booking)' = [HoldsOf(booking) EXCEPT ![b] = Calendar!NoVehicles]
    BY <1>4 DEF Calendar!Cancel, HoldsOf
  <2>2. \A c \in Bookings :
           HoldsOf(booking)'[c] = IF c = b THEN Calendar!NoVehicles ELSE HoldsOf(booking)[c]
    BY <2>1 DEF HoldsOf
  <2>3. \A g : /\ Calendar!Compatible(Calendar!NoVehicles, g)
               /\ Calendar!Compatible(g, Calendar!NoVehicles)
    BY DEF Calendar!Compatible, Calendar!NoVehicles
  <2> QED
    BY <1>4, <2>2, <2>3
<1>5. UNCHANGED <<StatusOf(booking), HoldsOf(booking)>> /\ J => J'
  OBVIOUS
<1> HIDE DEF J
<1>6. J /\ [Calendar!Next]_<<StatusOf(booking), HoldsOf(booking)>> => J'
  BY <1>3, <1>4, <1>5 DEF Calendar!Next
<1>7. IInv /\ UInv /\ KInv /\ SInv /\ [Next]_vars /\ J => J'
  BY <1>6, NextIsCalendar
<1>8. J => Calendar!NoOverbooking
  BY DEF J, HoldsOf, Calendar!NoOverbooking
<1> QED
  BY <1>1, <1>7, <1>8, CheckedInvariance, PTL DEF Spec

-----------------------------------------------------------------------------
(* Handlers that interleave, as long as none of them writes back an array  *)
(* that it has read earlier.                                               *)

Atomic ==
    Operations \subseteq
        {"web", "admin", "contract", "prices", "deleteVehicle", "userGone", "abort"}

\* An entry of vehicle v says what the cart of its booking says.
Fits(docs, v, e) ==
    /\ e.booking # NoBooking /\ v \in DOMAIN docs[e.booking].cart
    /\ e.start = docs[e.booking].cart[v].start
    /\ e.end = docs[e.booking].cart[v].end

\* ... and is the only one of its booking.
Fitted(docs, v, S) ==
    /\ \A e \in S : Fits(docs, v, e)
    /\ \A e, f \in S : e.booking = f.booking => e = f

\* A handler creates a booking, and still has to reserve the vehicles of todo.
Creating(docs, arrays, gone, q) ==
    /\ q.stage \in {"idle", "check", "push"}
    /\ q.stage = "idle" => q.booking = NoBooking
    /\ q.stage # "idle" => q.op \in {"web", "admin"}
    /\ q.stage = "check" => docs[q.booking].status = "none"
    /\ q.stage = "push" =>
          /\ docs[q.booking] = [status |-> "open", cart |-> q.cart]
          /\ \A v \in q.todo \ gone : \A e \in arrays[v] : e.booking # q.booking

AInv ==
    /\ \A v \in Vehicles \ deleted : Fitted(booking, v, reservations[v])
    /\ \A r \in Requests : Creating(booking, reservations, deleted, request[r])
    /\ \A r, s \in Requests :
          request[r].booking = request[s].booking /\ request[r].booking # NoBooking => r = s
    /\ "deleteVehicle" \notin Operations => deleted = {}

\* S and T have the same entries for the other bookings.
SameForOthers(S, T, b) ==
    /\ \A e \in S : e.booking # b => e \in T
    /\ \A e \in T : e.booking # b => e \in S

LEMMA FittedAfter ==
    ASSUME NEW docs, NEW newDocs, NEW v, NEW b, NEW S, NEW T, Entries(T),
           Fitted(docs, v, S), SameForOthers(S, T, b),
           \A c \in Bookings \ {b} : newDocs[c] = docs[c],
           \A e \in T : e.booking = b => Fits(newDocs, v, e),
           \A e, f \in T : e.booking = b /\ f.booking = b => e = f
    PROVE  Fitted(newDocs, v, T)
<1>1. \A e \in T : e.booking \in Bookings \cup {NoBooking}
  BY DEF Entries, Entry
<1>2. \A e \in T : e.booking # b => Fits(newDocs, v, e)
  BY <1>1 DEF Fitted, Fits, SameForOthers
<1>3. \A e, f \in T : e.booking = f.booking => e = f
  BY DEF Fitted, SameForOthers
<1> QED
  BY <1>2, <1>3 DEF Fitted

\* A step of handler r, or of staff, for booking b.
LEMMA AtomicStep ==
    ASSUME IInv, AInv, NEW r \in Requests, NEW b \in Bookings,
           request' = [request EXCEPT ![r] = request'[r]],
           \A s \in Requests \ {r} : request[s].booking # b,
           request'[r].booking \in {b, NoBooking}, UNCHANGED deleted,
           \A c \in Bookings \ {b} : booking'[c] = booking[c],
           \A v \in Vehicles : SameForOthers(reservations[v], reservations'[v], b),
           \A v \in Vehicles \ deleted : Fitted(booking', v, reservations'[v]),
           Creating(booking', reservations', deleted, request'[r])
    PROVE  AInv'
<1>1. \A s \in Requests \ {r} : request'[s] = request[s]
  BY DEF IInv
<1>2. ASSUME NEW s \in Requests \ {r}
      PROVE  Creating(booking', reservations', deleted, request[s])
  <2>1. Creating(booking, reservations, deleted, request[s])
    BY DEF AInv
  <2>2. CASE request[s].stage = "idle"
    BY <2>1, <2>2 DEF Creating
  <2>3. CASE request[s].stage # "idle"
    <3>1. /\ request[s].booking \in Bookings \ {b}
          /\ request[s].todo \subseteq Vehicles
      BY <2>3 DEF IInv, GoodRequest, Request
    <3>2. booking'[request[s].booking] = booking[request[s].booking]
      BY <3>1
    <3>3. \A v \in Vehicles : \A e \in reservations'[v] :
             e.booking = request[s].booking => e \in reservations[v]
      BY <3>1 DEF SameForOthers
    <3> QED
      BY <2>1, <3>1, <3>2, <3>3 DEF Creating
  <2> QED
    BY <2>2, <2>3
<1>3. \A s \in Requests : Creating(booking', reservations', deleted', request'[s])
  BY <1>1, <1>2
<1>4. \A s, t \in Requests :
         request'[s].booking = request'[t].booking /\ request'[s].booking # NoBooking => s = t
  BY <1>1 DEF AInv
<1> QED
  BY <1>3, <1>4 DEF AInv

LEMMA CreatingIdle ==
    ASSUME NEW docs, NEW arrays, NEW gone
    PROVE  Creating(docs, arrays, gone, Idle)
BY DEF Creating, Idle

\* The booking of a handler, and what nobody has done to it.
LEMMA CreatingOne ==
    ASSUME IInv, AInv, NEW r \in Requests, request[r].stage # "idle"
    PROVE  /\ request[r].booking \in Bookings
           /\ \A s \in Requests \ {r} : request[s].booking # request[r].booking
           /\ request[r].op \in {"web", "admin"}
<1>1. request[r].booking \in Bookings /\ request[r].booking # NoBooking
  BY WorksOnBooking
<1> QED
  BY <1>1 DEF AInv, Creating

LEMMA SameArrays ==
    ASSUME UNCHANGED reservations, NEW b
    PROVE  \A v \in Vehicles : SameForOthers(reservations[v], reservations'[v], b)
BY DEF SameForOthers

\* A handler checks a vehicle, or stops.
LEMMA CheckAtomic ==
    ASSUME IInv, AInv, NEW r \in Requests,
           \/ \E v \in Vehicles : CheckVehicle(r, v) \/ RefuseVehicle(r, v)
           \/ Abort(r)
    PROVE  AInv'
<1> DEFINE b == request[r].booking
<1>1. /\ request[r].stage # "idle" /\ UNCHANGED <<reservations, deleted, booking>>
      /\ request' = [request EXCEPT ![r] = request'[r]]
  BY DEF CheckVehicle, RefuseVehicle, Abort, Free, Return, IInv
<1>2. b \in Bookings /\ \A s \in Requests \ {r} : request[s].booking # b
  BY <1>1, CreatingOne
<1>3. ASSUME NEW v \in Vehicles, CheckVehicle(r, v)
      PROVE  /\ request'[r].booking = b
             /\ Creating(booking', reservations', deleted, request'[r])
  <2>1. Creating(booking, reservations, deleted, request[r]) /\ request[r].stage = "check"
    BY <1>3 DEF AInv, CheckVehicle
  <2> QED
    BY <1>1, <1>3, <2>1, CreateTurns DEF Turned, Creating
<1>4. CASE request'[r] = Idle
  <2>1. Creating(booking', reservations', deleted, request'[r]) /\ request'[r].booking = NoBooking
    BY <1>4, CreatingIdle DEF Idle
  <2> QED
    BY <1>1, <1>2, <2>1, SameArrays, AtomicStep DEF AInv
<1>5. ASSUME NEW v \in Vehicles, CheckVehicle(r, v)
      PROVE  AInv'
  BY <1>1, <1>2, <1>3, <1>5, SameArrays, AtomicStep DEF AInv
<1> QED
  BY <1>4, <1>5, ReturnTurns DEF RefuseVehicle, Abort

\* The booking that is inserted has no entry yet.
LEMMA SaveAtomic ==
    ASSUME IInv, AInv, NEW r \in Requests, SaveBooking(r) \/ SaveBookingUserGone(r)
    PROVE  AInv'
<1> DEFINE b == request[r].booking
<1>1. /\ request[r].stage = "check" /\ UNCHANGED <<reservations, deleted>>
      /\ request' = [request EXCEPT ![r] = request'[r]]
  BY DEF SaveBooking, SaveBookingUserGone, Return, IInv
<1>2. b \in Bookings /\ \A s \in Requests \ {r} : request[s].booking # b
  BY <1>1, CreatingOne
<1>3. /\ booking'[b] = [status |-> "open", cart |-> request[r].cart]
      /\ \A c \in Bookings \ {b} : booking'[c] = booking[c]
  BY <1>2 DEF SaveBooking, SaveBookingUserGone, IInv, BookingDocs
<1>4. \A v \in Vehicles : \A e \in reservations[v] : e.booking # b
  <2>1. booking[b].status = "none"
    BY <1>1 DEF AInv, Creating
  <2>2. b # NoBooking
    BY <1>2, ConstantsAssumption
  <2> QED
    BY <2>1, <2>2 DEF IInv, GoodVehicles, Known
<1>5. \A v \in Vehicles \ deleted : Fitted(booking', v, reservations'[v])
  <2> TAKE v \in Vehicles \ deleted
  <2>1. /\ Fitted(booking, v, reservations[v]) /\ Entries(reservations[v])
        /\ SameForOthers(reservations[v], reservations[v], b)
    BY DEF AInv, IInv, GoodVehicles, SameForOthers
  <2>2. Fitted(booking', v, reservations[v])
    BY <1>3, <1>4, <2>1, FittedAfter
  <2> QED
    BY <1>1, <2>2
<1>6. /\ request'[r].booking \in {b, NoBooking}
      /\ Creating(booking', reservations', deleted, request'[r])
  <2>1. CASE SaveBooking(r)
    <3>1. /\ Turned(r, "push", DOMAIN request[r].cart, {}, request[r].copy)
          /\ request[r].op \in {"web", "admin"}
      BY <1>1, <2>1, CreateTurns, CreatingOne
    <3>2. DOMAIN request[r].cart \subseteq Vehicles
      BY CartType DEF IInv, Request
    <3> QED
      BY <1>1, <1>3, <1>4, <3>1, <3>2 DEF Turned, Creating
  <2>2. CASE SaveBookingUserGone(r)
    <3>1. request'[r] = Idle
      BY <2>2, ReturnTurns DEF SaveBookingUserGone
    <3> QED
      BY <3>1, CreatingIdle DEF Idle
  <2> QED
    BY <2>1, <2>2
<1> QED
  BY <1>1, <1>2, <1>3, <1>5, <1>6, SameArrays, AtomicStep

LEMMA PushedOthers ==
    ASSUME NEW S, NEW b, NEW i, \A e \in S : e.booking # b
    PROVE  /\ SameForOthers(S, Pushed(S, b, i), b)
           /\ \A e \in Pushed(S, b, i) :
                 e.booking = b => e.start = i.start /\ e.end = i.end
           /\ \A e, f \in Pushed(S, b, i) : e.booking = b /\ f.booking = b => e = f
<1> DEFINE new == [start |-> i.start, end |-> i.end, booking |-> b, pos |-> NextPos(S)]
<1>1. Pushed(S, b, i) = S \cup {new}
  BY DEF Pushed
<1>2. new.booking = b /\ new.start = i.start /\ new.end = i.end
  OBVIOUS
<1> HIDE DEF new
<1> QED
  BY <1>1, <1>2 DEF SameForOthers

\* A vehicle is reserved for the booking, which has no entry there yet.
LEMMA PushAtomic ==
    ASSUME IInv, AInv, NEW r \in Requests, NEW v \in Vehicles, PushReservation(r, v)
    PROVE  /\ AInv'
           /\ UNCHANGED <<booking, deleted>>
           /\ \A w \in Vehicles : SameForOthers(reservations[w], reservations'[w], request[r].booking)
           /\ \A w \in Vehicles : \A j : Holds(reservations[w], request[r].booking, j) =>
                 Holds(reservations'[w], request[r].booking, j)
           /\ v \notin deleted =>
                 Holds(reservations'[v], request[r].booking, request[r].cart[v])
           /\ \/ request'[r] = Idle /\ request[r].todo \subseteq {v}
              \/ Turned(r, "push", request[r].todo \ {v}, {}, request[r].copy)
<1> DEFINE b == request[r].booking
           cart == request[r].cart
           S == reservations[v]
           T == Pushed(S, b, cart[v])
<1>1. /\ request[r].stage = "push" /\ v \in request[r].todo
      /\ UNCHANGED <<deleted, booking>>
  BY DEF PushReservation
<1>2. /\ b \in Bookings /\ \A s \in Requests \ {r} : request[s].booking # b
      /\ request[r].op \in {"web", "admin"}
      /\ v \in DOMAIN cart /\ cart \in Cart
  BY <1>1, CreatingOne, WorksOnBooking
<1>3. /\ booking[b] = [status |-> "open", cart |-> cart]
      /\ \A w \in request[r].todo \ deleted : \A e \in reservations[w] : e.booking # b
  <2>1. Creating(booking, reservations, deleted, request[r])
    BY DEF AInv
  <2> QED
    BY <1>1, <2>1 DEF Creating
<1>4. /\ v \in deleted => UNCHANGED reservations
      /\ v \notin deleted => reservations' = [reservations EXCEPT ![v] = T]
  BY DEF PushReservation
<1>5. \A w \in Vehicles :
         reservations'[w] = IF w = v /\ v \notin deleted THEN T ELSE reservations[w]
  BY <1>4 DEF IInv, GoodVehicles
<1>6. ASSUME v \notin deleted
      PROVE  /\ SameForOthers(S, T, b) /\ Fitted(booking, v, T) /\ Holds(T, b, cart[v])
             /\ \A j : Holds(S, b, j) => Holds(T, b, j)
  <2>1. \A e \in S : e.booking # b
    BY <1>1, <1>3, <1>6
  <2>2. Entries(T) /\ Fitted(booking, v, S)
    <3>1. cart[v] \in Interval /\ Entries(S)
      BY <1>2, CartType DEF IInv, GoodVehicles
    <3> QED
      BY <1>2, <1>6, <3>1, PushedType DEF AInv
  <2>3. /\ SameForOthers(S, T, b)
        /\ \A e \in T : e.booking = b => e.start = cart[v].start /\ e.end = cart[v].end
        /\ \A e, f \in T : e.booking = b /\ f.booking = b => e = f
    BY <2>1, PushedOthers
  <2>4. Holds(T, b, cart[v]) /\ \A j : Holds(S, b, j) => Holds(T, b, j)
    BY PushedHolds
  <2> HIDE DEF T
  <2>5. \A e \in T : e.booking = b => Fits(booking, v, e)
    BY <1>2, <1>3, <2>3, ConstantsAssumption DEF Fits
  <2>6. Fitted(booking, v, T)
    BY <2>2, <2>3, <2>5, FittedAfter
  <2> QED
    BY <2>3, <2>4, <2>6
<1> HIDE DEF T
<1>7. /\ \A w \in Vehicles : SameForOthers(reservations[w], reservations'[w], b)
      /\ \A w \in Vehicles \ deleted : Fitted(booking', w, reservations'[w])
      /\ \A w \in Vehicles : \A j : Holds(reservations[w], b, j) => Holds(reservations'[w], b, j)
      /\ v \notin deleted => Holds(reservations'[v], b, cart[v])
  BY <1>1, <1>5, <1>6 DEF AInv, SameForOthers
<1>8. \/ request'[r] = Idle /\ request[r].todo \subseteq {v}
      \/ Turned(r, "push", request[r].todo \ {v}, {}, request[r].copy)
  <2>1. Proceed(r, v, Return(r))
    BY <1>2 DEF PushReservation, Proceed
  <2>2. CASE request[r].todo \ {v} = {}
    <3>1. request'[r] = Idle
      BY <2>1, <2>2, ReturnTurns DEF Proceed
    <3> QED
      BY <2>2, <3>1
  <2>3. CASE request[r].todo \ {v} # {}
    <3>1. request' = [request EXCEPT ![r].todo = request[r].todo \ {v}]
      BY <2>1, <2>3 DEF Proceed
    <3>2. request'[r] = [request[r] EXCEPT !.todo = request[r].todo \ {v}]
      BY <3>1 DEF IInv
    <3>3. request[r].at = {} /\ request[r] \in Request
      BY <1>1 DEF IInv, GoodRequest
    <3> QED
      BY <1>1, <3>2, <3>3 DEF Turned, Request
  <2> QED
    BY <2>2, <2>3
<1>9. /\ request'[r].booking \in {b, NoBooking}
      /\ Creating(booking', reservations', deleted, request'[r])
  <2>1. CASE request'[r] = Idle
    BY <2>1, CreatingIdle DEF Idle
  <2>2. CASE Turned(r, "push", request[r].todo \ {v}, {}, request[r].copy)
    <3>1. request[r].todo \subseteq Vehicles
      BY DEF IInv, Request
    <3> QED
      BY <1>1, <1>2, <1>3, <1>5, <2>2, <3>1 DEF Turned, Creating
  <2> QED
    BY <1>8, <2>1, <2>2
<1>10. request' = [request EXCEPT ![r] = request'[r]]
  BY <1>2 DEF PushReservation, Proceed, Return, IInv
<1> QED
  BY <1>1, <1>2, <1>7, <1>8, <1>9, <1>10, AtomicStep

LEMMA StartAtomic ==
    ASSUME IInv, AInv, NEW r \in Requests, NEW b \in Bookings,
           NEW op \in {"web", "admin"}, NEW cart, StartCreate(r, op, b, cart)
    PROVE  AInv' /\ request'[r].stage = "check" /\ request'[r].booking = b
<1>1. /\ request'[r].stage = "check" /\ request'[r].op = op /\ request'[r].booking = b
      /\ request' = [request EXCEPT ![r] = request'[r]]
  BY BeginFields DEF StartCreate, Begin, IInv
<1>2. /\ UNCHANGED <<reservations, deleted, booking>> /\ booking[b].status = "none"
      /\ \A s \in Requests \ {r} : request[s].booking # b
  BY DEF StartCreate
<1>3. Creating(booking', reservations', deleted, request'[r])
  BY <1>1, <1>2 DEF Creating
<1> QED
  BY <1>1, <1>2, <1>3, SameArrays, AtomicStep DEF AInv

\* Where every entry is the only one of its booking, the first match of b is all that b has.
LEMMA FirstMatchFitted ==
    ASSUME NEW docs, NEW v, NEW S, Entries(S), Fitted(docs, v, S), NEW b, b # NoBooking,
           NEW i, NEW tolerance
    PROVE  FirstMatch(S, b, i, tolerance) = {e \in S : e.booking = b}
<1>1. \A e \in S : Matches(e, b, i, tolerance) <=> e.booking = b
  BY DEF Fitted, Fits, Matches
<1>2. \A e \in S : e.pos \in Int
  BY DEF Entries, Entry
<1>3. \A e, f \in S : e.booking = b /\ f.booking = b => e.pos <= f.pos
  BY <1>2 DEF Fitted
<1> QED
  BY <1>1, <1>3 DEF FirstMatch

\* Then new dates go to the entry of b, which has the old ones.
LEMMA RedatedFitted ==
    ASSUME NEW docs, NEW v, NEW S, Entries(S), Fitted(docs, v, S),
           NEW b, b # NoBooking, NEW old, NEW new, old = docs[b].cart[v]
    PROVE  /\ SameForOthers(S, Redated(S, b, old, new), b)
           /\ \A e \in Redated(S, b, old, new) :
                 e.booking = b => e.start = new.start /\ e.end = new.end
           /\ \A e, f \in Redated(S, b, old, new) :
                 e.booking = b /\ f.booking = b => e = f
           /\ Holds(S, b, old) => Holds(Redated(S, b, old, new), b, new)
<1> DEFINE moved(e) == [e EXCEPT !.start = IF old.start # new.start THEN new.start ELSE @,
                                 !.end   = IF old.end # new.end THEN new.end ELSE @]
           its == {e \in S : e.booking = b}
           T == Redated(S, b, old, new)
<1>1. FirstMatch(S, b, old, EditTolerance) = its
  BY FirstMatchFitted
<1>2. T = (S \ its) \cup {moved(e) : e \in its}
  BY <1>1 DEF Redated
<1>3. \A e \in its : moved(e).booking = b /\ moved(e).start = new.start /\ moved(e).end = new.end
  <2> TAKE e \in its
  <2>1. e \in Entry
    BY DEF Entries
  <2>2. e.booking = b /\ e.start = old.start /\ e.end = old.end
    BY DEF Fitted, Fits
  <2> DEFINE s == IF old.start # new.start THEN new.start ELSE e.start
             t == IF old.end # new.end THEN new.end ELSE e.end
  <2>3. s = new.start /\ t = new.end
    BY <2>2
  <2>4. moved(e) = [e EXCEPT !.start = s, !.end = t]
    BY <2>1 DEF Entry
  <2> HIDE DEF s, t
  <2>5. /\ [e EXCEPT !.start = s, !.end = t].booking = e.booking
        /\ [e EXCEPT !.start = s, !.end = t].start = s
        /\ [e EXCEPT !.start = s, !.end = t].end = t
    BY <2>1 DEF Entry
  <2> QED
    BY <2>2, <2>3, <2>4, <2>5
<1>4. \A e, f \in its : e = f
  BY DEF Fitted
<1>5. Holds(S, b, old) => its # {}
  BY DEF Holds
<1>6. \A e \in its : e.booking = b
  OBVIOUS
<1>7. \A e \in S \ its : e.booking # b
  OBVIOUS
<1>8. its \subseteq S
  OBVIOUS
<1> HIDE DEF moved, its, T
<1>9. \A f \in T : f \in S \ its \/ \E e \in its : f = moved(e)
  BY <1>2
<1>10. SameForOthers(S, T, b)
  BY <1>2, <1>3, <1>6, <1>9 DEF SameForOthers
<1>11. \A e \in T : e.booking = b => e.start = new.start /\ e.end = new.end
  BY <1>3, <1>7, <1>9
<1>12. \A e, f \in T : e.booking = b /\ f.booking = b => e = f
  BY <1>4, <1>7, <1>9
<1>13. Holds(S, b, old) => Holds(T, b, new)
  BY <1>2, <1>3, <1>5 DEF Holds
<1> QED
  BY <1>10, <1>11, <1>12, <1>13 DEF T

\* What a new cart of a contract does to the array of a vehicle.
LEMMA ContractArray ==
    ASSUME IInv, AInv, NEW r \in Requests, NEW b \in Bookings, NEW cart \in Cart,
           ChangeContractCart(r, "contract", b, cart), NEW v \in Vehicles
    PROVE  /\ SameForOthers(reservations[v], reservations'[v], b)
           /\ v \notin deleted => Fitted(booking', v, reservations'[v])
           /\ /\ v \in DOMAIN cart \ deleted
              /\ v \in DOMAIN booking[b].cart => Holds(reservations[v], b, booking[b].cart[v])
              => Holds(reservations'[v], b, cart[v])
<1> DEFINE old == booking[b].cart
           S == reservations[v]
           T == reservations'[v]
<1>1. /\ Entries(S) /\ old \in Cart /\ b # NoBooking
      /\ \A c \in Bookings \ {b} : booking'[c] = booking[c]
      /\ booking'[b].cart = cart
  BY ConstantsAssumption DEF IInv, GoodVehicles, BookingDocs, ChangeContractCart
<1>2. reservations'[v] =
          CASE v \in (DOMAIN old \ DOMAIN cart) \ deleted -> ReleasedFirst(S, b, old[v])
            [] v \in (DOMAIN old \cap DOMAIN cart) \ deleted /\ old[v] # cart[v] ->
                  Redated(S, b, old[v], cart[v])
            [] v \in (DOMAIN cart \ DOMAIN old) \ deleted -> Pushed(S, b, cart[v])
            [] OTHER -> S
  BY DEF ChangeContractCart
<1>3. CASE v \in deleted
  BY <1>2, <1>3 DEF SameForOthers
<1>4. CASE v \notin deleted
  <2>1. Fitted(booking, v, S)
    BY <1>4 DEF AInv
  <2>2. Entries(T)
    <3>1. IInv'
      BY ContractIInv
    <3> QED
      BY <3>1 DEF IInv, GoodVehicles
  <2>3. \A e \in S : e.booking = b => v \in DOMAIN old /\ e.start = old[v].start /\ e.end = old[v].end
    BY <2>1 DEF Fitted, Fits
  <2>4. ASSUME SameForOthers(S, T, b),
               \A e \in T : e.booking = b =>
                  v \in DOMAIN cart /\ e.start = cart[v].start /\ e.end = cart[v].end,
               \A e, f \in T : e.booking = b /\ f.booking = b => e = f
        PROVE  Fitted(booking', v, T)
    <3>1. \A e \in T : e.booking = b => Fits(booking', v, e)
      BY <1>1, <2>4 DEF Fits
    <3> QED
      BY <1>1, <2>1, <2>2, <2>4, <3>1, FittedAfter
  <2>5. CASE v \in DOMAIN old /\ v \notin DOMAIN cart
    <3>1. T = ReleasedFirst(S, b, old[v])
      BY <1>2, <1>4, <2>5
    <3>2. T = S \ {e \in S : e.booking = b}
      BY <1>1, <2>1, <3>1, FirstMatchFitted DEF ReleasedFirst
    <3>3. SameForOthers(S, T, b) /\ \A e \in T : e.booking # b
      BY <3>2 DEF SameForOthers
    <3> QED
      BY <2>4, <2>5, <3>3
  <2>6. CASE v \in DOMAIN old /\ v \in DOMAIN cart /\ old[v] # cart[v]
    <3>1. T = Redated(S, b, old[v], cart[v])
      BY <1>2, <1>4, <2>6
    <3> DEFINE R == Redated(S, b, old[v], cart[v])
    <3>2. /\ SameForOthers(S, R, b)
          /\ \A e \in R : e.booking = b => e.start = cart[v].start /\ e.end = cart[v].end
          /\ \A e, f \in R : e.booking = b /\ f.booking = b => e = f
          /\ Holds(S, b, old[v]) => Holds(R, b, cart[v])
      <4> HIDE DEF S
      <4> QED
        BY <1>1, <2>1, RedatedFitted, Zenon
    <3> HIDE DEF R
    <3>3. T = R
      BY <3>1 DEF R
    <3> QED
      BY <2>4, <2>6, <3>2, <3>3
  <2>7. CASE v \in DOMAIN old /\ v \in DOMAIN cart /\ old[v] = cart[v]
    <3>1. T = S
      BY <1>2, <2>7
    <3>2. SameForOthers(S, T, b) /\ \A e, f \in T : e.booking = b /\ f.booking = b => e = f
      BY <2>1, <3>1 DEF SameForOthers, Fitted
    <3> QED
      BY <2>3, <2>4, <2>7, <3>1, <3>2
  <2>8. CASE v \notin DOMAIN old /\ v \in DOMAIN cart
    <3>1. T = Pushed(S, b, cart[v])
      BY <1>2, <1>4, <2>8
    <3>2. \A e \in S : e.booking # b
      BY <2>3, <2>8
    <3>3. /\ SameForOthers(S, T, b) /\ Holds(T, b, cart[v])
          /\ \A e \in T : e.booking = b => e.start = cart[v].start /\ e.end = cart[v].end
          /\ \A e, f \in T : e.booking = b /\ f.booking = b => e = f
      BY <3>1, <3>2, PushedOthers, PushedHolds
    <3> QED
      BY <2>4, <2>8, <3>3
  <2>9. CASE v \notin DOMAIN old /\ v \notin DOMAIN cart
    <3>1. T = S
      BY <1>2, <2>9
    <3>2. SameForOthers(S, T, b) /\ \A e, f \in T : e.booking = b /\ f.booking = b => e = f
      BY <2>1, <3>1 DEF SameForOthers, Fitted
    <3> QED
      BY <2>3, <2>4, <2>9, <3>1, <3>2
  <2> QED
    BY <2>5, <2>6, <2>7, <2>8, <2>9
<1> QED
  BY <1>3, <1>4

\* Nobody works on a booking that clients know of.
LEMMA AnsweredIsSettled ==
    ASSUME IInv, AInv, NEW b \in Bookings, Answered(b)
    PROVE  Settled(b)
<1> SUFFICES ASSUME NEW s \in Requests, request[s].booking = b
             PROVE  FALSE
  BY DEF Settled
<1>1. request[s].op \in {"cancel", "update"}
  BY DEF Answered
<1>2. request[s].stage # "idle"
  BY ConstantsAssumption DEF AInv, Creating
<1> QED
  BY <1>1, <1>2, CreatingOne

LEMMA ContractAtomic ==
    ASSUME IInv, AInv, NEW r \in Requests, NEW b \in Bookings, NEW cart \in Cart,
           ChangeContractCart(r, "contract", b, cart)
    PROVE  AInv'
<1>1. /\ UNCHANGED <<request, deleted>> /\ request[r].stage = "idle" /\ Answered(b)
      /\ request' = [request EXCEPT ![r] = request'[r]]
  BY DEF ChangeContractCart, Change, Free, IInv
<1>2. \A s \in Requests \ {r} : request[s].booking # b
  BY <1>1, AnsweredIsSettled DEF Settled
<1>3. request'[r].booking = NoBooking /\ Creating(booking', reservations', deleted, request'[r])
  BY <1>1 DEF AInv, Creating
<1>4. \A c \in Bookings \ {b} : booking'[c] = booking[c]
  BY DEF ChangeContractCart, IInv, BookingDocs
<1> QED
  BY <1>1, <1>2, <1>3, <1>4, ContractArray, AtomicStep

\* An array loses all its entries, or its vehicle.
LEMMA VehicleAtomic ==
    ASSUME IInv, AInv, NEW r \in Requests, NEW v \in Vehicles,
           \/ UpdatePrices(r, v)
           \/ DeleteVehicle(r, v) /\ "deleteVehicle" \in Operations
    PROVE  AInv'
<1>1. UNCHANGED <<request, booking>> /\ deleted \subseteq deleted'
  BY DEF UpdatePrices, DeleteVehicle, Change
<1>2. \A w \in Vehicles : reservations'[w] \subseteq reservations[w]
  BY DEF UpdatePrices, DeleteVehicle, IInv, GoodVehicles
<1>3. \A w \in Vehicles \ deleted' : Fitted(booking', w, reservations'[w])
  BY <1>1, <1>2 DEF AInv, Fitted
<1>4. \A s \in Requests : Creating(booking', reservations', deleted', request'[s])
  <2> TAKE s \in Requests
  <2>1. Creating(booking, reservations, deleted, request[s]) /\ request[s].todo \subseteq Vehicles
    BY DEF AInv, IInv, Request
  <2> QED
    BY <1>1, <1>2, <2>1 DEF Creating
<1>5. "deleteVehicle" \notin Operations => deleted' = {}
  BY DEF AInv, UpdatePrices
<1> QED
  BY <1>1, <1>3, <1>4, <1>5 DEF AInv

LEMMA AtomicInvariance ==
    ASSUME Atomic
    PROVE  Spec => [](IInv /\ AInv)
<1>1. Init => AInv
  <2> SUFFICES ASSUME Init PROVE AInv
    OBVIOUS
  <2>1. \A r \in Requests : request[r] = Idle /\ request[r].booking = NoBooking
    BY DEF Init, Idle
  <2>2. \A r \in Requests : Creating(booking, reservations, deleted, request[r])
    BY <2>1, CreatingIdle
  <2>3. \A v \in Vehicles : Fitted(booking, v, reservations[v])
    BY DEF Init, Fitted
  <2> QED
    BY <2>1, <2>2, <2>3 DEF Init, AInv
<1>2. ASSUME IInv, AInv, NEW r \in Requests, Handle(r) \/ Ask(r) \/ Abort(r)
      PROVE  AInv'
  <2>1. ASSUME NEW v \in Vehicles,
               \/ RereadVehicle(r, v) \/ RewriteVehicle(r, v)
               \/ ReadForRelease(r, v) \/ WriteReleased(r, v)
        PROVE  FALSE
    BY <1>2, <2>1
       DEF AInv, Creating, RereadVehicle, RewriteVehicle, ReadForRelease, WriteReleased
  <2>2. ~FinishCancel(r)
    BY <1>2 DEF AInv, Creating, FinishCancel
  <2>3. CASE Handle(r) \/ Abort(r)
    BY <1>2, <2>1, <2>2, <2>3, CheckAtomic, SaveAtomic, PushAtomic DEF Handle
  <2>4. CASE Ask(r)
    <3>1. ASSUME NEW b \in Bookings, NEW op, NEW cart, StartCreate(r, op, b, cart)
          PROVE  AInv'
      <4>1. op \in {"web", "admin"}
        BY <3>1 DEF StartCreate, Atomic
      <4> QED
        BY <1>2, <3>1, <4>1, StartAtomic
    <3>2. ASSUME NEW b \in Bookings, NEW op, NEW cart \in Cart,
                 ChangeContractCart(r, op, b, cart)
          PROVE  AInv'
      <4>1. op = "contract"
        BY <3>2 DEF ChangeContractCart, Change, Atomic
      <4> QED
        BY <1>2, <3>2, <4>1, ContractAtomic
    <3>3. ASSUME NEW v \in Vehicles, UpdatePrices(r, v) \/ DeleteVehicle(r, v)
          PROVE  AInv'
      BY <1>2, <3>3, VehicleAtomic DEF DeleteVehicle, Change
    <3> QED
      BY <2>4, <3>1, <3>2, <3>3
         DEF Ask, Atomic, StartCancel, EditBookingCart, EditVehicle, Change
  <2> QED
    BY <1>2, <2>3, <2>4
<1>3. AInv /\ UNCHANGED vars => AInv'
  BY DEF AInv, Fitted, Fits, Creating, vars
<1>4. IInv /\ AInv /\ [Next]_vars => AInv'
  BY <1>2, <1>3 DEF Next
<1> QED
  BY <1>1, <1>4, IInvariance, PTL DEF Spec

\* However many requests run at once: an open booking that nobody works on holds no
\* vehicle but those of its cart, for no other dates, whatever contracts make of it.
THEOREM OnlyCartIsReserved ==
    ASSUME Atomic, "deleteVehicle" \notin Operations
    PROVE  Spec => []OnlyCartVehiclesReserved
<1>1. IInv /\ AInv => OnlyCartVehiclesReserved
  <2> SUFFICES ASSUME IInv, AInv, NEW b \in Bookings, NEW v \in Vehicles, NEW i \in Held(v, b)
               PROVE  v \in DOMAIN booking[b].cart /\ i = booking[b].cart[v]
    BY DEF OnlyCartVehiclesReserved
  <2>1. PICK e \in reservations[v] : e.booking = b /\ i = [start |-> e.start, end |-> e.end]
    BY DEF Held
  <2>2. /\ v \in DOMAIN booking[b].cart
        /\ e.start = booking[b].cart[v].start /\ e.end = booking[b].cart[v].end
    BY <2>1 DEF AInv, Fitted, Fits
  <2>3. booking[b].cart[v] \in Interval
    BY <2>2, CartType DEF IInv, BookingDocs
  <2>4. booking[b].cart[v] = [start |-> booking[b].cart[v].start, end |-> booking[b].cart[v].end]
    BY <2>3 DEF Interval
  <2> QED
    BY <2>1, <2>2, <2>4
<1> QED
  BY <1>1, AtomicInvariance, PTL

-----------------------------------------------------------------------------
(* ... and where nothing takes entries away but contracts, it holds them all. *)

Lasting == Operations \subseteq {"web", "admin", "contract", "deleteVehicle"}

\* What a handler has reserved so far.
HeldSoFar(arrays, gone, q) ==
    q.stage = "push" =>
        HeldFor(arrays, gone, q.booking, q.cart, DOMAIN q.cart \ q.todo)

HInv ==
    /\ \A b \in Bookings : AllHeld(b)
    /\ \A r \in Requests : HeldSoFar(reservations, deleted, request[r])

\* The arrays keep what they hold for others than b.
LEMMA OthersHold ==
    ASSUME NEW S, NEW T, NEW b, SameForOthers(S, T, b), NEW c, c # b, NEW j, Holds(S, c, j)
    PROVE  Holds(T, c, j)
BY DEF SameForOthers, Holds

\* A step for booking b: it is worked on still, or has all it should have.
LEMMA LastingStep ==
    ASSUME IInv, AInv, HInv, NEW r \in Requests, NEW b \in Bookings,
           \A s \in Requests \ {r} : request'[s] = request[s] /\ request[s].booking # b,
           request[r].booking \in {b, NoBooking}, UNCHANGED deleted,
           \A c \in Bookings \ {b} : booking'[c] = booking[c],
           \A v \in Vehicles : SameForOthers(reservations[v], reservations'[v], b),
           HeldSoFar(reservations', deleted, request'[r]),
           \/ request'[r].booking = b
           \/ booking'[b].status # "open"
           \/ HeldFor(reservations', deleted, b, booking'[b].cart, DOMAIN booking'[b].cart)
    PROVE  HInv'
<1>1. ASSUME NEW c \in Bookings
      PROVE  AllHeld(c)'
  <2> SUFFICES ASSUME booking'[c].status = "open", Settled(c)'
               PROVE  HeldFor(reservations', deleted', c, booking'[c].cart,
                              DOMAIN booking'[c].cart)
    BY DEF AllHeld
  <2>1. CASE c = b
    BY <2>1 DEF Settled
  <2>2. CASE c # b
    <3>1. booking'[c] = booking[c] /\ c # NoBooking
      BY <2>2, ConstantsAssumption
    <3>2. Settled(c)
      BY <2>2, <3>1 DEF Settled
    <3>3. HeldFor(reservations, deleted, c, booking[c].cart, DOMAIN booking[c].cart)
      BY <3>1, <3>2 DEF HInv, AllHeld
    <3>4. DOMAIN booking[c].cart \subseteq Vehicles
      BY CartType DEF IInv, BookingDocs
    <3> QED
      BY <2>2, <3>1, <3>3, <3>4, OthersHold DEF HeldFor
  <2> QED
    BY <2>1, <2>2
<1>2. ASSUME NEW s \in Requests \ {r}
      PROVE  HeldSoFar(reservations', deleted, request[s])
  <2>1. HeldSoFar(reservations, deleted, request[s]) /\ request[s].booking # b
    BY DEF HInv
  <2>2. DOMAIN request[s].cart \subseteq Vehicles
    BY CartType DEF IInv, Request
  <2> QED
    BY <2>1, <2>2, OthersHold DEF HeldSoFar, HeldFor
<1> QED
  BY <1>1, <1>2 DEF HInv

LEMMA CreateLasts ==
    ASSUME IInv, AInv, HInv, NEW r \in Requests,
           \/ \E v \in Vehicles : CheckVehicle(r, v) \/ RefuseVehicle(r, v)
           \/ SaveBooking(r)
    PROVE  HInv'
<1> DEFINE b == request[r].booking
<1>1. /\ request[r].stage = "check" /\ UNCHANGED <<reservations, deleted>>
      /\ \A s \in Requests \ {r} : request'[s] = request[s]
  BY DEF CheckVehicle, RefuseVehicle, SaveBooking, Return, IInv
<1>2. b \in Bookings /\ \A s \in Requests \ {r} : request[s].booking # b
  BY <1>1, CreatingOne
<1>3. \A c \in Bookings \ {b} : booking'[c] = booking[c]
  BY DEF CheckVehicle, RefuseVehicle, SaveBooking, IInv, BookingDocs
<1>4. ASSUME NEW v \in Vehicles, CheckVehicle(r, v)
      PROVE  HInv'
  <2>1. request'[r].stage = "check" /\ request'[r].booking = b
    BY <1>4, CreateTurns DEF Turned
  <2>2. HeldSoFar(reservations', deleted, request'[r])
    BY <2>1 DEF HeldSoFar
  <2> HIDE DEF b
  <2>3. request[r].booking \in {b, NoBooking}
    BY DEF b
  <2> QED
    BY <1>1, <1>2, <1>3, <2>1, <2>2, <2>3, SameArrays, LastingStep
<1>5. CASE SaveBooking(r)
  <2>1. request'[r].booking = b /\ HeldSoFar(reservations', deleted, request'[r])
    BY <1>5, CreateTurns DEF Turned, HeldSoFar, HeldFor
  <2> QED
    BY <1>1, <1>2, <1>3, <2>1, SameArrays, LastingStep
<1>6. ASSUME NEW v \in Vehicles, RefuseVehicle(r, v)
      PROVE  HInv'
  <2>1. HeldSoFar(reservations', deleted, request'[r])
    BY <1>6, ReturnTurns DEF RefuseVehicle, Idle, HeldSoFar
  <2>2. booking'[b].status # "open"
    BY <1>1, <1>6 DEF AInv, Creating, RefuseVehicle
  <2> HIDE DEF b
  <2>3. request[r].booking \in {b, NoBooking}
    BY DEF b
  <2> QED
    BY <1>1, <1>2, <1>3, <2>1, <2>2, <2>3, SameArrays, LastingStep
<1> QED
  BY <1>4, <1>5, <1>6

LEMMA PushLasts ==
    ASSUME IInv, AInv, HInv, NEW r \in Requests, NEW v \in Vehicles, PushReservation(r, v)
    PROVE  HInv'
<1> DEFINE b == request[r].booking
           cart == request[r].cart
<1>1. /\ request[r].stage = "push" /\ UNCHANGED <<booking, deleted>>
      /\ \A w \in Vehicles : SameForOthers(reservations[w], reservations'[w], b)
      /\ v \in request[r].todo
  BY PushAtomic DEF PushReservation
<1>2. /\ b \in Bookings /\ \A s \in Requests \ {r} : request[s].booking # b
      /\ cart \in Cart /\ request[r].op \in {"web", "admin"}
  BY <1>1, CreatingOne, WorksOnBooking
<1>3. \A s \in Requests \ {r} : request'[s] = request[s]
  BY <1>2 DEF PushReservation, Proceed, Return, IInv
<1>4. HeldFor(reservations', deleted, b, cart, DOMAIN cart \ (request[r].todo \ {v}))
  <2>1. HeldFor(reservations, deleted, b, cart, DOMAIN cart \ request[r].todo)
    BY <1>1 DEF HInv, HeldSoFar
  <2>2. DOMAIN cart \subseteq Vehicles
    BY <1>2, CartType
  <2> QED
    BY <2>1, <2>2, PushAtomic DEF HeldFor
<1>5. CASE request'[r] = Idle /\ request[r].todo \subseteq {v}
  <2>1. booking'[b].cart = cart
    <3>1. Creating(booking, reservations, deleted, request[r])
      BY DEF AInv
    <3>2. booking[b] = [status |-> "open", cart |-> cart]
      BY <1>1, <3>1 DEF Creating
    <3> QED
      BY <1>1, <3>2
  <2>2. HeldFor(reservations', deleted, b, booking'[b].cart, DOMAIN booking'[b].cart)
    BY <1>4, <1>5, <2>1 DEF HeldFor
  <2>3. HeldSoFar(reservations', deleted, request'[r])
    BY <1>5 DEF Idle, HeldSoFar
  <2> QED
    BY <1>1, <1>2, <1>3, <2>2, <2>3, LastingStep
<1>6. CASE Turned(r, "push", request[r].todo \ {v}, {}, request[r].copy)
  <2>1. request'[r].booking = b /\ HeldSoFar(reservations', deleted, request'[r])
    BY <1>4, <1>6 DEF Turned, HeldSoFar
  <2> QED
    BY <1>1, <1>2, <1>3, <2>1, LastingStep
<1> QED
  BY <1>5, <1>6, PushAtomic

LEMMA StartLasts ==
    ASSUME IInv, AInv, HInv, NEW r \in Requests, NEW b \in Bookings,
           NEW op \in {"web", "admin"}, NEW cart, StartCreate(r, op, b, cart)
    PROVE  HInv'
<1>1. /\ UNCHANGED <<reservations, deleted, booking>>
      /\ \A s \in Requests \ {r} : request'[s] = request[s] /\ request[s].booking # b
      /\ request[r].booking = NoBooking
  BY DEF StartCreate, Begin, IInv, Free, AInv, Creating
<1>2. HeldSoFar(reservations', deleted, request'[r]) /\ request'[r].booking = b
  BY StartAtomic DEF HeldSoFar
<1> QED
  BY <1>1, <1>2, SameArrays, LastingStep

LEMMA ContractLasts ==
    ASSUME IInv, AInv, HInv, NEW r \in Requests, NEW b \in Bookings, NEW cart \in Cart,
           ChangeContractCart(r, "contract", b, cart)
    PROVE  HInv'
<1>1. /\ UNCHANGED <<request, deleted>> /\ request[r].stage = "idle" /\ Answered(b)
      /\ booking'[b].cart = cart /\ booking'[b].status = booking[b].status
      /\ \A c \in Bookings \ {b} : booking'[c] = booking[c]
  BY DEF ChangeContractCart, Change, Free, IInv, BookingDocs
<1>2. /\ request[r].booking = NoBooking /\ \A s \in Requests : request[s].booking # b
      /\ HeldSoFar(reservations', deleted, request'[r])
  BY <1>1, AnsweredIsSettled DEF Settled, AInv, Creating, HeldSoFar
<1>3. booking[b].status = "open" => HeldFor(reservations', deleted, b, cart, DOMAIN cart)
  <2> SUFFICES ASSUME booking[b].status = "open", NEW v \in DOMAIN cart \ deleted
               PROVE  Holds(reservations'[v], b, cart[v])
    BY DEF HeldFor
  <2>1. v \in Vehicles
    BY CartType
  <2>2. v \in DOMAIN booking[b].cart => Holds(reservations[v], b, booking[b].cart[v])
    BY <1>2 DEF HInv, AllHeld, Settled, HeldFor
  <2> QED
    BY <2>1, <2>2, ContractArray
<1> QED
  BY <1>1, <1>2, <1>3, ContractArray, LastingStep

LEMMA DeleteLasts ==
    ASSUME HInv, NEW r \in Requests, NEW v \in Vehicles, DeleteVehicle(r, v)
    PROVE  HInv'
<1>1. UNCHANGED <<reservations, booking, request>> /\ deleted \subseteq deleted'
  BY DEF DeleteVehicle, Change
<1> QED
  BY <1>1 DEF HInv, AllHeld, Settled, HeldSoFar, HeldFor

\* However many requests run at once: an open booking that nobody works on holds every
\* vehicle of its cart for the dates of the cart, before and after its contract changes.
THEOREM CartStaysReserved ==
    ASSUME Lasting
    PROVE  Spec => []CartVehiclesReserved
<1>0. Atomic
  BY DEF Lasting, Atomic
<1>1. Init => HInv
  BY DEF Init, HInv, AllHeld, Idle, HeldSoFar
<1>2. ASSUME IInv, AInv, HInv, NEW r \in Requests, Handle(r) \/ Ask(r) \/ Abort(r)
      PROVE  HInv'
  <2>1. ASSUME NEW v \in Vehicles
        PROVE  /\ ~RereadVehicle(r, v) /\ ~RewriteVehicle(r, v)
               /\ ~ReadForRelease(r, v) /\ ~WriteReleased(r, v)
    BY <1>2
       DEF AInv, Creating, RereadVehicle, RewriteVehicle, ReadForRelease, WriteReleased
  <2>2. ~FinishCancel(r) /\ ~SaveBookingUserGone(r) /\ ~Abort(r)
    BY <1>2 DEF AInv, Creating, FinishCancel, SaveBookingUserGone, Abort, Lasting
  <2>3. CASE Handle(r)
    BY <1>2, <2>1, <2>2, <2>3, CreateLasts, PushLasts DEF Handle
  <2>4. CASE Ask(r)
    <3>1. ASSUME NEW b \in Bookings, NEW op, NEW cart, StartCreate(r, op, b, cart)
          PROVE  HInv'
      <4>1. op \in {"web", "admin"}
        BY <3>1 DEF StartCreate, Lasting
      <4> QED
        BY <1>2, <3>1, <4>1, StartLasts
    <3>2. ASSUME NEW b \in Bookings, NEW op, NEW cart \in Cart,
                 ChangeContractCart(r, op, b, cart)
          PROVE  HInv'
      <4>1. op = "contract"
        BY <3>2 DEF ChangeContractCart, Change, Lasting
      <4> QED
        BY <1>2, <3>2, <4>1, ContractLasts
    <3>3. ASSUME NEW v \in Vehicles, DeleteVehicle(r, v)
          PROVE  HInv'
      BY <1>2, <3>3, DeleteLasts
    <3> QED
      BY <2>4, <3>1, <3>2, <3>3
         DEF Ask, Lasting, StartCancel, EditBookingCart, EditVehicle, UpdatePrices, Change
  <2> QED
    BY <1>2, <2>2, <2>3, <2>4
<1>3. HInv /\ UNCHANGED vars => HInv'
  BY DEF HInv, AllHeld, Settled, HeldSoFar, HeldFor, Holds, vars
<1>4. IInv /\ AInv /\ HInv /\ [Next]_vars => HInv'
  BY <1>2, <1>3 DEF Next
<1>5. IInv /\ HInv => CartVehiclesReserved
  <2> SUFFICES ASSUME IInv, HInv, NEW b \in Bookings, booking[b].status = "open", Settled(b),
                      NEW v \in DOMAIN booking[b].cart \ deleted
               PROVE  booking[b].cart[v] \in Held(v, b)
    BY DEF CartVehiclesReserved
  <2>1. booking[b].cart[v] \in Interval
    BY CartType DEF IInv, BookingDocs
  <2>2. Holds(reservations[v], b, booking[b].cart[v])
    BY DEF HInv, AllHeld, HeldFor
  <2> QED
    BY <2>1, <2>2, HoldsIsHeld
<1> QED
  BY <1>0, <1>1, <1>4, <1>5, AtomicInvariance, PTL DEF Spec
=============================================================================
