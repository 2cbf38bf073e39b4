------------------------ MODULE ContractTimeline_proofs ------------------------
(***************************************************************************)
(* What holds of the timeline of a contract for any number of entries,     *)
(* movements, deletions that run at once and bodies of requests:           *)
(*                                                                         *)
(*   LinksHold          entries and movements name each other (IInv)       *)
(*   TimelineIsRecord   entries are only added, and only marked            *)
(*   DeletionsAreWhole  a deletion that ends has taken all with it         *)
(*   GoneTogether       an entry and its movement go together              *)
(*   CommissionsGo      the commission of an extension goes with it        *)
(*   ReservationsFollow vehicles are reserved as the cart says             *)
(*   CartFollows        the cart is the one that the timeline shows        *)
(*   PaidIsNet          what was paid is what the contract comes to        *)
(*                                                                         *)
(* Each has an inductive invariant of its own beside IInv.  Most hold only *)
(* as long as certain things have not happened; since past never shrinks,  *)
(* what has not happened after a step had not happened before it.          *)
(***************************************************************************)
EXTENDS ContractTimeline, FiniteSetTheorems, SequenceTheorems, WellFoundedInduction,
        TLAPS
-----------------------------------------------------------------------------
(* The least and the greatest of some places. *)

\* What Min returns of a set of places, if it has one.
LEMMA LeastPlace ==
    ASSUME NEW T \in SUBSET Nat, T # {}
    PROVE  Min(T) \in T /\ \A y \in T : Min(T) <= y
<1>1. PICK x \in T : \A y \in T : ~(<<y, x>> \in OpToRel(<, Nat))
  BY NatLessThanWellFounded, WFMin, Zenon
<1>2. \A y \in T : ~(y < x)
  BY <1>1 DEF OpToRel
<1>3. \A y \in T : x <= y
  BY <1>2
<1> QED
  BY <1>3 DEF Min

\* What Max returns of a set of places with a bound.
LEMMA GreatestPlace ==
    ASSUME NEW S \in SUBSET Nat, S # {}, NEW n \in Nat, \A x \in S : x <= n
    PROVE  Max(S) \in S /\ \A x \in S : x <= Max(S)
<1> DEFINE T == {n - x : x \in S}
<1>1. \A x \in S : n - x \in Nat
  OBVIOUS
<1>2. T \in SUBSET Nat /\ T # {}
  BY <1>1
<1>3. Min(T) \in T /\ \A y \in T : Min(T) <= y
  <2> HIDE DEF T
  <2> QED
    BY <1>2, LeastPlace
<1>4. PICK m \in S : Min(T) = n - m
  BY <1>3
<1> HIDE DEF T
<1>5. \A x \in S : m >= x
  <2> TAKE x \in S
  <2>1. n - x \in T
    BY DEF T
  <2>2. Min(T) <= n - x
    BY <2>1, <1>3
  <2> QED
    BY <2>2, <1>4
<1> QED
  BY <1>5 DEF Max

-----------------------------------------------------------------------------
(* Entries, carts and what changes them have their types. *)

\* The timeline is a sequence of entries.
LEMMA EntryAt ==
    ASSUME NEW hist \in Seq(Entry), NEW e \in DOMAIN hist
    PROVE  /\ hist[e] \in Entry
           /\ e \in Nat /\ e >= 1 /\ e <= Len(hist)
BY Zenon, LenProperties, ElementOfSeq, SMT

LEMMA EntryFields ==
    ASSUME NEW x \in Entry
    PROVE  /\ x.action \in Actions /\ x.event \in Events /\ x.amount \in Int
           /\ x.deleted \in BOOLEAN /\ x.vehicle \in Vehicles \cup {"none"}
           /\ x.older \in Nat /\ x.cart \in Cart /\ x.movement \in Nat /\ x.sets \in Cart
BY DEF Entry

\* Marking an entry changes nothing of it but the mark, and nothing of the others.
LEMMA MarkedFields ==
    ASSUME NEW hist \in Seq(Entry), NEW e \in DOMAIN hist
    PROVE  /\ MarkDeleted(hist, e) \in Seq(Entry)
           /\ Len(MarkDeleted(hist, e)) = Len(hist)
           /\ DOMAIN MarkDeleted(hist, e) = DOMAIN hist
           /\ \A i \in DOMAIN hist :
                /\ i # e => MarkDeleted(hist, e)[i] = hist[i]
                /\ MarkDeleted(hist, e)[i].action = hist[i].action
                /\ MarkDeleted(hist, e)[i].event = hist[i].event
                /\ MarkDeleted(hist, e)[i].amount = hist[i].amount
                /\ MarkDeleted(hist, e)[i].older = hist[i].older
                /\ MarkDeleted(hist, e)[i].cart = hist[i].cart
                /\ MarkDeleted(hist, e)[i].vehicle = hist[i].vehicle
                /\ MarkDeleted(hist, e)[i].movement = hist[i].movement
                /\ MarkDeleted(hist, e)[i].sets = hist[i].sets
                /\ MarkDeleted(hist, e)[i].deleted = (i = e \/ hist[i].deleted)
<1> DEFINE gone == [hist[e] EXCEPT !.deleted = TRUE]
<1>0. DOMAIN hist = 1 .. Len(hist) /\ Len(hist) \in Nat
  BY LenProperties
<1>1. hist[e] \in Entry
  BY EntryAt
<1>2. /\ gone \in Entry
      /\ gone.action = hist[e].action
      /\ gone.event = hist[e].event
      /\ gone.amount = hist[e].amount
      /\ gone.older = hist[e].older
      /\ gone.cart = hist[e].cart
      /\ gone.vehicle = hist[e].vehicle
      /\ gone.movement = hist[e].movement
      /\ gone.sets = hist[e].sets
      /\ gone.deleted = TRUE
  BY <1>1 DEF Entry
<1>3. MarkDeleted(hist, e) = [hist EXCEPT ![e] = gone]
  BY DEF MarkDeleted
<1>4. \A i \in DOMAIN hist : hist[i].deleted \in BOOLEAN
  BY EntryAt, EntryFields
<1> HIDE DEF gone
<1>5. /\ MarkDeleted(hist, e) \in Seq(Entry)
      /\ Len(MarkDeleted(hist, e)) = Len(hist)
      /\ \A i \in DOMAIN hist : MarkDeleted(hist, e)[i] = IF i = e THEN gone ELSE hist[i]
  BY <1>0, <1>2, <1>3, ExceptSeq
<1>6. DOMAIN MarkDeleted(hist, e) = DOMAIN hist
  BY <1>0, <1>5, LenProperties
<1> QED
  BY <1>2, <1>4, <1>5, <1>6

LEMMA Empties ==
    NoCart \in Cart /\ \A S : <<>> \in Seq(S)
BY EmptySeq DEF NoCart, Cart

LEMMA One ==
    ASSUME NEW S, NEW x \in S
    PROVE  <<x>> \in Seq(S) /\ Len(<<x>>) = 1 /\ <<x>>[1] = x /\ <<x>> # <<>>
OBVIOUS

LEMMA ItemsType ==
    ASSUME NEW cart \in Cart
    PROVE  /\ Items(cart) \subseteq CartItem
           /\ VehiclesOf(cart) \subseteq Vehicles
           /\ IsFiniteSet(VehiclesOf(cart))
           /\ \A v \in VehiclesOf(cart) : DatesIn(cart, v) \in Dates
<1>1. DOMAIN cart = 1 .. Len(cart) /\ Len(cart) \in Nat
      /\ \A i \in DOMAIN cart : cart[i] \in CartItem
  BY LenProperties, ElementOfSeq DEF Cart
<1>2. Items(cart) \subseteq CartItem
  BY <1>1 DEF Items
<1>3. VehiclesOf(cart) \subseteq Vehicles
  BY <1>2 DEF VehiclesOf, CartItem
<1>4. \A v \in VehiclesOf(cart) : DatesIn(cart, v) \in Dates
  <2> TAKE v \in VehiclesOf(cart)
  <2>1. \E item \in Items(cart) : item.vehicle = v
    BY DEF VehiclesOf
  <2>2. (CHOOSE item \in Items(cart) : item.vehicle = v) \in Items(cart)
    BY <2>1, Zenon
  <2>3. (CHOOSE item \in Items(cart) : item.vehicle = v) \in CartItem
    BY <1>2, <2>2
  <2> QED
    BY <2>3 DEF DatesIn, CartItem
<1>5. IsFiniteSet(VehiclesOf(cart))
  <2> DEFINE name == [i \in DOMAIN cart |-> cart[i].vehicle]
  <2>1. name \in Surjection(DOMAIN cart, VehiclesOf(cart))
    BY DEF VehiclesOf, Items, Surjection
  <2>2. IsFiniteSet(DOMAIN cart)
    BY <1>1, FS_Interval
  <2> HIDE DEF name
  <2> QED
    BY <2>1, <2>2, FS_Surjection
<1> QED
  BY <1>2, <1>3, <1>4, <1>5

LEMMA FirstVehicleType ==
    ASSUME NEW cart \in Cart
    PROVE  FirstVehicle(cart) \in Vehicles \cup {"none"}
<1>1. CASE cart = NoCart
  BY <1>1 DEF FirstVehicle
<1>2. CASE cart # NoCart
  <2>1. Len(cart) \in Nat \ {0}
    BY <1>2, EmptySeq DEF NoCart, Cart
  <2>2. cart[1] \in CartItem
    BY <2>1, ElementOfSeq DEF Cart
  <2> QED
    BY <1>2, <2>2 DEF FirstVehicle, CartItem
<1> QED
  BY <1>1, <1>2

LEMMA NoteFields ==
    ASSUME versions \in Seq(Cart), NEW event \in Events, NEW amount \in Int
    PROVE  /\ Note(event, amount) \in Entry
           /\ Note(event, amount).action = "NOTE_ADDED"
           /\ Note(event, amount).event = event /\ Note(event, amount).amount = amount
           /\ Note(event, amount).cart = NoCart /\ Note(event, amount).sets = NoCart
           /\ Note(event, amount).deleted = FALSE /\ Note(event, amount).movement = 0
           /\ Note(event, amount).older = Len(versions)
<1>1. "NOTE_ADDED" \in Actions /\ "none" \in Vehicles \cup {"none"}
  BY DEF Actions
<1>2. NoCart \in Cart /\ Len(versions) \in Nat
  BY Empties, LenProperties
<1> QED
  BY <1>1, <1>2 DEF Note, NewEntry, Entry

\* Reservations by vehicle.
LEMMA RedatedType ==
    ASSUME NEW reservations \in [Vehicles -> Seq(Dates)], NEW old \in Cart,
           NEW new \in Cart, NEW change \in BOOLEAN
    PROVE  UpdateVehicleReservations(reservations, old, new, change)
             \in [Vehicles -> Seq(Dates)]
<1> DEFINE after(v) == UpdateVehicleReservations(reservations, old, new, change)[v]
<1>1. ASSUME NEW v \in Vehicles
      PROVE  after(v) \in Seq(Dates)
  <2>1. reservations[v] \in Seq(Dates)
    OBVIOUS
  <2>2. reservations[v] # <<>> => Tail(reservations[v]) \in Seq(Dates)
    BY <2>1, HeadTailProperties
  <2>3. v \in VehiclesOf(new) =>
          /\ Append(reservations[v], DatesIn(new, v)) \in Seq(Dates)
          /\ <<DatesIn(new, v)>> \in Seq(Dates)
    BY <2>1, ItemsType, AppendProperties
  <2>4. v \in VehiclesOf(new) /\ reservations[v] # <<>> =>
          <<DatesIn(new, v)>> \o Tail(reservations[v]) \in Seq(Dates)
    BY <2>2, <2>3, ConcatProperties
  <2> QED
    BY <2>1, <2>2, <2>3, <2>4 DEF UpdateVehicleReservations
<1>2. UpdateVehicleReservations(reservations, old, new, change) = [v \in Vehicles |-> after(v)]
  BY DEF UpdateVehicleReservations
<1> HIDE DEF after
<1> QED
  BY <1>1, <1>2

\* The notes of the dates that changed: some, all alike.
LEMMA DateEditsType ==
    ASSUME versions \in Seq(Cart), NEW reservations, NEW old \in Cart, NEW new \in Cart,
           NEW change \in BOOLEAN
    PROVE  /\ DateEdits(reservations, old, new, change) \in Seq(Entry)
           /\ \A i \in DOMAIN DateEdits(reservations, old, new, change) :
                DateEdits(reservations, old, new, change)[i] = Note(DateEdit, 0)
<1> DEFINE edited == {v \in VehiclesOf(old) \cap VehiclesOf(new) :
                        DatesIn(old, v) # DatesIn(new, v) /\ reservations[v] # <<>>}
           notes == [i \in 1 .. Cardinality(edited) |-> Note(DateEdit, 0)]
<1>1. IsFiniteSet(edited)
  BY ItemsType, FS_Subset
<1>2. Cardinality(edited) \in Nat
  BY <1>1, FS_CardinalityType
<1>0. DateEdit \in Events /\ 0 \in Int
  BY DEF Events
<1>3. Note(DateEdit, 0) \in Entry
  BY <1>0, NoteFields, Zenon
<1>4. notes \in Seq(Entry)
  BY <1>2, <1>3
<1>5. \A i \in DOMAIN notes : notes[i] = Note(DateEdit, 0)
  OBVIOUS
<1>6. DateEdits(reservations, old, new, change) = IF change THEN <<>> ELSE notes
  BY DEF DateEdits
<1> HIDE DEF notes
<1>7. CASE change
  <2>1. DateEdits(reservations, old, new, change) = <<>>
    BY <1>6, <1>7
  <2> QED
    BY <2>1, EmptySeq
<1>8. CASE ~change
  BY <1>4, <1>5, <1>6, <1>8
<1> QED
  BY <1>7, <1>8
-----------------------------------------------------------------------------
(* What a change of the contract adds to its timeline. *)

\* The entries of new that old does not have.
Added(old, new) == DOMAIN new \ DOMAIN old

\* Entries are added at the end, by a request that saw n versions of the cart.
Grown(old, new, n) ==
    /\ new \in Seq(Entry)
    /\ Len(old) <= Len(new)
    /\ \A i \in DOMAIN old : i \in DOMAIN new /\ new[i] = old[i]
    /\ \A i \in Added(old, new) : i > Len(old) /\ ~new[i].deleted /\ new[i].older = n

\* The three parts of what ApplyUpdate appends.
EntryOf(u, charge) ==
    IF IsExtensionPayment(u)
    THEN <<NewEntry("EXTENSION_UPDATED", Extension, u.amount, FirstVehicle(u.cart),
                    NoCart, u.cart)>>
    ELSE IF charge
    THEN <<NewEntry("NOTE_ADDED", u.event, u.amount, FirstVehicle(u.cart), NoCart, u.cart)>>
    ELSE <<>>

Edits(u) == u.cart # NoCart /\ ~u.newEnd /\ ~OnlyMoney(u)

EditOf(u, charge) ==
    IF Edits(u)
    THEN <<NewEntry("BOOKING_MODIFIED", NoEvent, 0, "none", u.cart,
                    IF EntryOf(u, charge) = <<>> THEN u.cart ELSE NoCart)>>
    ELSE <<>>

NotesOf(u) ==
    IF u.cart # NoCart THEN DateEdits(held, booking.cart, u.cart, u.event = VehicleChange)
    ELSE <<>>

OldOf(u) == IF u.cart # NoCart /\ u.cart # booking.cart THEN booking.cart ELSE NoCart

\* new is hist and then a, b and c, of which a and b have one entry at most.
JoinedAs(new, hist, a, b, c) ==
    /\ new \in Seq(Entry)
    /\ Len(new) = Len(hist) + Len(a) + Len(b) + Len(c)
    /\ \A i \in DOMAIN hist : i \in DOMAIN new /\ new[i] = hist[i]
    /\ a # <<>> => Len(hist) + 1 \in DOMAIN new /\ new[Len(hist) + 1] = a[1]
    /\ a = <<>> /\ b # <<>> => Len(hist) + 1 \in DOMAIN new /\ new[Len(hist) + 1] = b[1]
    /\ \A i \in Added(hist, new) :
         /\ i > Len(hist)
         /\ \/ a # <<>> /\ i = Len(hist) + 1 /\ new[i] = a[1]
            \/ b # <<>> /\ i = Len(hist) + Len(a) + 1 /\ new[i] = b[1]
            \/ \E k \in DOMAIN c : new[i] = c[k]

\* Appending three parts, the first two of at most one entry, puts each where it says.
LEMMA Joined ==
    ASSUME NEW hist \in Seq(Entry), NEW a \in Seq(Entry), NEW b \in Seq(Entry),
           NEW c \in Seq(Entry), Len(a) <= 1, Len(b) <= 1
    PROVE  JoinedAs(hist \o a \o b \o c, hist, a, b, c)
<1> DEFINE new == hist \o a \o b \o c
<1>0. /\ Len(hist) \in Nat /\ DOMAIN hist = 1 .. Len(hist)
      /\ Len(a) \in Nat /\ Len(b) \in Nat /\ Len(c) \in Nat /\ DOMAIN c = 1 .. Len(c)
      /\ (a = <<>> <=> Len(a) = 0) /\ (b = <<>> <=> Len(b) = 0)
  BY LenProperties, EmptySeq
<1> DEFINE one == hist \o a
           two == one \o b
<1>1. /\ one \in Seq(Entry) /\ Len(one) = Len(hist) + Len(a)
      /\ \A i \in 1 .. Len(one) : one[i] = IF i <= Len(hist) THEN hist[i] ELSE a[i - Len(hist)]
  BY ConcatProperties
<1> HIDE DEF one
<1>2. /\ two \in Seq(Entry) /\ Len(two) = Len(one) + Len(b)
      /\ \A i \in 1 .. Len(two) : two[i] = IF i <= Len(one) THEN one[i] ELSE b[i - Len(one)]
  BY <1>1, ConcatProperties
<1>3. new = two \o c
  BY DEF one
<1> HIDE DEF two, new
<1>3a. two \in Seq(Entry)
  BY <1>2
<1>3b. /\ two \o c \in Seq(Entry) /\ Len(two \o c) = Len(two) + Len(c)
       /\ \A i \in 1 .. Len(two) + Len(c) :
            (two \o c)[i] = IF i <= Len(two) THEN two[i] ELSE c[i - Len(two)]
  BY <1>3a, ConcatProperties
<1>4. /\ new \in Seq(Entry) /\ Len(new) = Len(two) + Len(c)
      /\ \A i \in 1 .. Len(new) : new[i] = IF i <= Len(two) THEN two[i] ELSE c[i - Len(two)]
  BY <1>3, <1>3b
<1>5. DOMAIN new = 1 .. Len(new)
  BY <1>4, LenProperties
<1>6. \A i \in DOMAIN hist : i \in DOMAIN new /\ new[i] = hist[i]
  BY <1>0, <1>1, <1>2, <1>4, <1>5
<1>7. a # <<>> => Len(hist) + 1 \in DOMAIN new /\ new[Len(hist) + 1] = a[1]
  BY <1>0, <1>1, <1>2, <1>4, <1>5
<1>8. a = <<>> /\ b # <<>> => Len(hist) + 1 \in DOMAIN new /\ new[Len(hist) + 1] = b[1]
  BY <1>0, <1>1, <1>2, <1>4, <1>5
<1>9. ASSUME NEW i \in Added(hist, new)
      PROVE  /\ i > Len(hist)
             /\ \/ a # <<>> /\ i = Len(hist) + 1 /\ new[i] = a[1]
                \/ b # <<>> /\ i = Len(hist) + Len(a) + 1 /\ new[i] = b[1]
                \/ \E k \in DOMAIN c : new[i] = c[k]
  <2>1. i \in 1 .. Len(new) /\ i > Len(hist) /\ i \in Nat
    BY <1>0, <1>4, <1>5 DEF Added
  <2>2. CASE i <= Len(one)
    <3>1. a # <<>> /\ i = Len(hist) + 1
      BY <1>0, <1>1, <2>1, <2>2
    <3> QED
      BY <1>7, <2>1, <3>1
  <2>3. CASE i > Len(one) /\ i <= Len(two)
    <3>1. b # <<>> /\ i = Len(hist) + Len(a) + 1
      BY <1>0, <1>1, <1>2, <2>1, <2>3
    <3>2. new[i] = b[1]
      BY <1>0, <1>1, <1>2, <1>4, <2>1, <2>3, <3>1
    <3> QED
      BY <2>1, <3>1, <3>2
  <2>4. CASE i > Len(two)
    <3>1. i - Len(two) \in DOMAIN c /\ new[i] = c[i - Len(two)]
      BY <1>0, <1>1, <1>2, <1>4, <2>1, <2>4
    <3> QED
      BY <2>1, <3>1
  <2> QED
    BY <1>0, <1>1, <1>2, <2>1, <2>2, <2>3, <2>4
<1> QED
  <2>1. Len(new) = Len(hist) + Len(a) + Len(b) + Len(c)
    BY <1>0, <1>1, <1>2, <1>4
  <2>2. JoinedAs(new, hist, a, b, c)
    BY <1>4, <1>6, <1>7, <1>8, <1>9, <2>1 DEF JoinedAs
  <2> QED
    BY <2>2 DEF new

LEMMA BodyType ==
    ASSUME NEW u \in Updates
    PROVE  /\ u.extensionReason \in BOOLEAN /\ u.event \in Events /\ u.paid \in BOOLEAN
           /\ u.amount \in Int /\ u.newEnd \in BOOLEAN /\ u.cart \in Cart
           /\ u.approved \in BOOLEAN /\ u.seller \in BOOLEAN
<1>1. u \in UpdateBody
  BY ConstantsAssumption
<1> QED
  BY <1>1 DEF UpdateBody

\* The parts have their types and say what the request said.
LEMMA PartsType ==
    ASSUME TypeOK, NEW u \in Updates, NEW charge \in BOOLEAN
    PROVE  /\ EntryOf(u, charge) \in Seq(Entry) /\ Len(EntryOf(u, charge)) <= 1
           /\ EditOf(u, charge) \in Seq(Entry) /\ Len(EditOf(u, charge)) <= 1
           /\ NotesOf(u) \in Seq(Entry)
           /\ \A i \in DOMAIN NotesOf(u) : NotesOf(u)[i] = Note(DateEdit, 0)
           /\ EntryOf(u, charge) # <<>> <=> IsExtensionPayment(u) \/ charge
           /\ EntryOf(u, charge) # <<>> =>
                LET x == EntryOf(u, charge)[1]
                IN  /\ x.action = (IF IsExtensionPayment(u) THEN "EXTENSION_UPDATED"
                                   ELSE "NOTE_ADDED")
                    /\ IsExtensionPayment(u) => x.event = Extension
                    /\ x.amount = u.amount /\ x.sets = u.cart /\ x.cart = NoCart
                    /\ x.deleted = FALSE /\ x.movement = 0 /\ x.older = Len(versions)
           /\ EditOf(u, charge) # <<>> <=> Edits(u)
           /\ EditOf(u, charge) # <<>> =>
                LET x == EditOf(u, charge)[1]
                IN  /\ x.action = "BOOKING_MODIFIED" /\ x.event = NoEvent
                    /\ x.cart = u.cart
                    /\ x.sets = IF EntryOf(u, charge) = <<>> THEN u.cart ELSE NoCart
                    /\ x.deleted = FALSE /\ x.movement = 0 /\ x.older = Len(versions)
<1>1. /\ versions \in Seq(Cart) /\ booking.cart \in Cart
      /\ u.cart \in Cart /\ NoCart \in Cart /\ u.amount \in Int /\ 0 \in Int
      /\ u.event \in Events /\ Extension \in Events /\ NoEvent \in Events
      /\ {"EXTENSION_UPDATED", "NOTE_ADDED", "BOOKING_MODIFIED"} \subseteq Actions
      /\ FirstVehicle(u.cart) \in Vehicles \cup {"none"} /\ "none" \in Vehicles \cup {"none"}
  BY BodyType, Empties, FirstVehicleType DEF TypeOK, Events, Actions
<1>0. Len(versions) \in Nat
  BY <1>1, LenProperties
<1> DEFINE ext == NewEntry("EXTENSION_UPDATED", Extension, u.amount, FirstVehicle(u.cart),
                           NoCart, u.cart)
           pay == NewEntry("NOTE_ADDED", u.event, u.amount, FirstVehicle(u.cart), NoCart, u.cart)
           edit(sets) == NewEntry("BOOKING_MODIFIED", NoEvent, 0, "none", u.cart, sets)
           first == IF EntryOf(u, charge) = <<>> THEN u.cart ELSE NoCart
<1>2. /\ ext \in Entry /\ ext.action = "EXTENSION_UPDATED" /\ ext.event = Extension
      /\ ext.amount = u.amount /\ ext.sets = u.cart /\ ext.cart = NoCart
      /\ ext.deleted = FALSE /\ ext.movement = 0 /\ ext.older = Len(versions)
  BY <1>0, <1>1 DEF NewEntry, Entry
<1>3. /\ pay \in Entry /\ pay.action = "NOTE_ADDED"
      /\ pay.amount = u.amount /\ pay.sets = u.cart /\ pay.cart = NoCart
      /\ pay.deleted = FALSE /\ pay.movement = 0 /\ pay.older = Len(versions)
  BY <1>0, <1>1 DEF NewEntry, Entry
<1>4. /\ edit(first) \in Entry /\ edit(first).action = "BOOKING_MODIFIED"
      /\ edit(first).event = NoEvent /\ edit(first).cart = u.cart /\ edit(first).sets = first
      /\ edit(first).deleted = FALSE /\ edit(first).movement = 0
      /\ edit(first).older = Len(versions)
  <2>1. first \in Cart
    BY <1>1
  <2> QED
    BY <1>0, <1>1, <2>1 DEF NewEntry, Entry
<1>5. EntryOf(u, charge) = IF IsExtensionPayment(u) THEN <<ext>>
                           ELSE IF charge THEN <<pay>> ELSE <<>>
  BY DEF EntryOf
<1>6. EditOf(u, charge) = IF Edits(u) THEN <<edit(first)>> ELSE <<>>
  BY DEF EditOf
<1>7. /\ NotesOf(u) \in Seq(Entry)
      /\ \A i \in DOMAIN NotesOf(u) : NotesOf(u)[i] = Note(DateEdit, 0)
  <2>1. CASE u.cart = NoCart
    <3>1. NotesOf(u) = <<>>
      BY <2>1 DEF NotesOf
    <3> QED
      BY <3>1, Empties
  <2>2. CASE u.cart # NoCart
    <3>1. NotesOf(u) = DateEdits(held, booking.cart, u.cart, u.event = VehicleChange)
      BY <2>2 DEF NotesOf
    <3>2. /\ DateEdits(held, booking.cart, u.cart, u.event = VehicleChange) \in Seq(Entry)
          /\ \A i \in DOMAIN DateEdits(held, booking.cart, u.cart, u.event = VehicleChange) :
               DateEdits(held, booking.cart, u.cart, u.event = VehicleChange)[i]
                 = Note(DateEdit, 0)
      <4> DEFINE change == u.event = VehicleChange
      <4>1. versions \in Seq(Cart) /\ booking.cart \in Cart /\ u.cart \in Cart
            /\ change \in BOOLEAN
        BY <1>1
      <4> HIDE DEF change
      <4>2. /\ DateEdits(held, booking.cart, u.cart, change) \in Seq(Entry)
            /\ \A i \in DOMAIN DateEdits(held, booking.cart, u.cart, change) :
                 DateEdits(held, booking.cart, u.cart, change)[i] = Note(DateEdit, 0)
        BY <4>1, DateEditsType, Zenon
      <4> QED
        BY <4>2 DEF change
    <3> QED
      BY <3>1, <3>2
  <2> QED
    BY <2>1, <2>2
<1> HIDE DEF ext, pay, edit
<1>8. /\ <<ext>> \in Seq(Entry) /\ Len(<<ext>>) = 1 /\ <<ext>>[1] = ext /\ <<ext>> # <<>>
      /\ <<pay>> \in Seq(Entry) /\ Len(<<pay>>) = 1 /\ <<pay>>[1] = pay /\ <<pay>> # <<>>
      /\ <<edit(first)>> \in Seq(Entry) /\ Len(<<edit(first)>>) = 1
      /\ <<edit(first)>>[1] = edit(first) /\ <<edit(first)>> # <<>>
      /\ <<>> \in Seq(Entry) /\ Len(<<>>) = 0
  BY <1>2, <1>3, <1>4, One, Empties, EmptySeq
<1>9. CASE IsExtensionPayment(u)
  BY <1>2, <1>4, <1>5, <1>6, <1>7, <1>8, <1>9
<1>10. CASE ~IsExtensionPayment(u) /\ charge
  BY <1>3, <1>4, <1>5, <1>6, <1>7, <1>8, <1>10
<1>11. CASE ~IsExtensionPayment(u) /\ ~charge
  BY <1>4, <1>5, <1>6, <1>7, <1>8, <1>11
<1> QED
  BY <1>9, <1>10, <1>11

\* ApplyUpdate in terms of the parts it appends.
LEMMA UpdateWrites ==
    ASSUME NEW u, NEW charge, ApplyUpdate(u, charge)
    PROVE  /\ history' = history \o EntryOf(u, charge) \o EditOf(u, charge) \o NotesOf(u)
           /\ booking' = [(IF EntryOf(u, charge) # <<>> THEN Charged(booking, u) ELSE booking)
                            EXCEPT !.cart = IF u.cart # NoCart THEN u.cart ELSE @]
           /\ versions' = IF u.cart # NoCart THEN Append(versions, u.cart) ELSE versions
           /\ held' = IF u.cart # NoCart
                      THEN UpdateVehicleReservations(held, booking.cart, u.cart,
                                                     u.event = VehicleChange)
                      ELSE held
           /\ snapshots' = IF EntryOf(u, charge) # <<>>
                           THEN [e \in DOMAIN snapshots \cup {Len(history) + 1} |->
                                   IF e = Len(history) + 1 THEN OldOf(u) ELSE snapshots[e]]
                           ELSE snapshots
           /\ approved' = (u.approved \/ approved)
           /\ commissions' = IF u.seller /\ u.amount # 0
                             THEN commissions \cup {Len(history) + 1} ELSE commissions
           /\ past \cup Overlapping \subseteq past'
           /\ EntryOf(u, charge) = <<>> /\ ~Edits(u) /\ u.cart # NoCart
                => "silent change" \in past'
           /\ u.event = VehicleChange => "vehicle change" \in past'
           /\ u.seller /\ ~IsExtensionPayment(u) => "other commission" \in past'
BY DEF ApplyUpdate, EntryOf, EditOf, Edits, NotesOf, OldOf

\* What a change of the contract adds: an entry for what is charged, which shows the
\* cart of the request, or else one for the change, which does, and some that do not.
LEMMA UpdateAdds ==
    ASSUME TypeOK, NEW u \in Updates, NEW charge \in BOOLEAN, ApplyUpdate(u, charge)
    PROVE  /\ Grown(history, history', Len(versions))
           /\ \A i \in Added(history, history') :
                /\ history'[i].movement = 0
                /\ history'[i].action = "BOOKING_MODIFIED" => u.cart # NoCart
                /\ i # Len(history) + 1 => history'[i].sets = NoCart
                /\ Restorable(history'[i]) =>
                     i = Len(history) + 1 /\ EntryOf(u, charge) # <<>>
                /\ EntryOf(u, charge) = <<>> /\ ~Edits(u) => history'[i].sets = NoCart
           /\ EntryOf(u, charge) # <<>> \/ Edits(u) =>
                /\ Len(history) + 1 \in Added(history, history')
                /\ history'[Len(history) + 1].sets = u.cart
           /\ IsExtensionPayment(u) =>
                /\ Len(history) + 1 \in Added(history, history')
                /\ IsExtension(history'[Len(history) + 1])
<1> DEFINE a == EntryOf(u, charge)
           b == EditOf(u, charge)
           c == NotesOf(u)
           new == history'
           place == Len(history) + 1
<1>1. new = history \o a \o b \o c
  BY UpdateWrites
<1>2. /\ history \in Seq(Entry) /\ versions \in Seq(Cart)
      /\ Len(history) \in Nat /\ DOMAIN history = 1 .. Len(history)
  BY LenProperties DEF TypeOK
<1>3. /\ a \in Seq(Entry) /\ Len(a) <= 1 /\ b \in Seq(Entry) /\ Len(b) <= 1
      /\ c \in Seq(Entry) /\ \A i \in DOMAIN c : c[i] = Note(DateEdit, 0)
      /\ a # <<>> <=> IsExtensionPayment(u) \/ charge
      /\ a # <<>> => /\ a[1].action = (IF IsExtensionPayment(u) THEN "EXTENSION_UPDATED"
                                       ELSE "NOTE_ADDED")
                     /\ IsExtensionPayment(u) => a[1].event = Extension
                     /\ a[1].sets = u.cart
                     /\ a[1].deleted = FALSE /\ a[1].movement = 0
                     /\ a[1].older = Len(versions)
      /\ b # <<>> <=> Edits(u)
      /\ b # <<>> => /\ b[1].action = "BOOKING_MODIFIED" /\ b[1].event = NoEvent
                     /\ b[1].sets = (IF a = <<>> THEN u.cart ELSE NoCart)
                     /\ b[1].deleted = FALSE /\ b[1].movement = 0
                     /\ b[1].older = Len(versions)
  BY PartsType
<1>4. /\ Note(DateEdit, 0).action = "NOTE_ADDED" /\ Note(DateEdit, 0).event = DateEdit
      /\ Note(DateEdit, 0).sets = NoCart /\ Note(DateEdit, 0).deleted = FALSE
      /\ Note(DateEdit, 0).movement = 0 /\ Note(DateEdit, 0).older = Len(versions)
  BY DEF Note, NewEntry
<1> HIDE DEF a, b, c, new
<1>5. /\ new \in Seq(Entry)
      /\ Len(new) = Len(history) + Len(a) + Len(b) + Len(c)
      /\ \A i \in DOMAIN history : i \in DOMAIN new /\ new[i] = history[i]
      /\ a # <<>> => place \in DOMAIN new /\ new[place] = a[1]
      /\ a = <<>> /\ b # <<>> => place \in DOMAIN new /\ new[place] = b[1]
      /\ \A i \in Added(history, new) :
           /\ i > Len(history)
           /\ \/ a # <<>> /\ i = Len(history) + 1 /\ new[i] = a[1]
              \/ b # <<>> /\ i = Len(history) + Len(a) + 1 /\ new[i] = b[1]
              \/ \E k \in DOMAIN c : new[i] = c[k]
  <2>1. /\ history \in Seq(Entry) /\ a \in Seq(Entry) /\ b \in Seq(Entry)
        /\ c \in Seq(Entry) /\ Len(a) <= 1 /\ Len(b) <= 1
    BY <1>2, <1>3
  <2>2. JoinedAs(history \o a \o b \o c, history, a, b, c)
    BY <2>1, Joined
  <2> QED
    BY <1>1, <2>1, <2>2 DEF JoinedAs
<1>6. place \notin DOMAIN history
  BY <1>2
<1>7. /\ Len(a) \in Nat /\ Len(b) \in Nat /\ Len(c) \in Nat /\ (a = <<>> => Len(a) = 0)
  BY <1>3, LenProperties
<1>8. ASSUME NEW i \in Added(history, new)
      PROVE  /\ ~new[i].deleted /\ new[i].movement = 0 /\ new[i].older = Len(versions)
             /\ new[i].action = "BOOKING_MODIFIED" => u.cart # NoCart
             /\ i # place => new[i].sets = NoCart
             /\ Restorable(new[i]) => i = place /\ a # <<>>
             /\ a = <<>> /\ ~Edits(u) => new[i].sets = NoCart
  <2>1. CASE a # <<>> /\ i = place /\ new[i] = a[1]
    BY <1>3, <2>1
  <2>2. CASE b # <<>> /\ i = Len(history) + Len(a) + 1 /\ new[i] = b[1]
    <3>1. a = <<>> => i = place
      BY <1>2, <1>7, <2>2
    <3>2. Edits(u) /\ u.cart # NoCart
      BY <1>3, <2>2 DEF Edits
    <3>3. ~Restorable(new[i])
      BY <1>3, <2>2 DEF Restorable, IsExtension, IsVehicleChange, Extension,
                        VehicleChange, NoEvent
    <3> QED
      BY <1>3, <2>2, <3>1, <3>2, <3>3
  <2>3. CASE \E k \in DOMAIN c : new[i] = c[k]
    <3>1. new[i] = Note(DateEdit, 0)
      BY <1>3, <2>3
    <3>2. ~Restorable(new[i])
      BY <1>4, <3>1 DEF Restorable, IsExtension, IsVehicleChange, Extension,
                        VehicleChange, DateEdit
    <3> QED
      BY <1>4, <3>1, <3>2
  <2> QED
    BY <1>5, <2>1, <2>2, <2>3
<1>9. Grown(history, new, Len(versions))
  <2>1. Len(history) <= Len(new)
    BY <1>2, <1>5, <1>7
  <2> QED
    BY <1>5, <1>8, <2>1 DEF Grown
<1>10. a # <<>> \/ Edits(u) => place \in Added(history, new) /\ new[place].sets = u.cart
  BY <1>3, <1>5, <1>6 DEF Added
<1>11. IsExtensionPayment(u) => place \in Added(history, new) /\ IsExtension(new[place])
  BY <1>3, <1>5, <1>6 DEF Added, IsExtension
<1> QED
  BY <1>8, <1>9, <1>10, <1>11 DEF a, new

LEMMA ChargedType ==
    ASSUME TypeOK, NEW u \in Updates
    PROVE  Charged(booking, u)
             \in [cart : Cart, total : Int, totalPaid : Int, deliveryCost : Int]
<1>1. /\ booking \in [cart : Cart, total : Int, totalPaid : Int, deliveryCost : Int]
      /\ u.amount \in Int
  BY BodyType DEF TypeOK
<1>2. ASSUME NEW t \in Int, NEW p \in Int
      PROVE  [booking EXCEPT !.total = t, !.totalPaid = p]
               \in [cart : Cart, total : Int, totalPaid : Int, deliveryCost : Int]
  BY <1>1
<1>3. ASSUME NEW p \in Int
      PROVE  [booking EXCEPT !.totalPaid = p]
               \in [cart : Cart, total : Int, totalPaid : Int, deliveryCost : Int]
  BY <1>1
<1> DEFINE newDelivery == u.event = Delivery /\ booking.deliveryCost = 0
           extra == u.event \notin {Delivery, NoEvent}
           t == IF newDelivery THEN booking.total + u.amount ELSE booking.total
           p == IF (newDelivery \/ extra) /\ IsApproved(u)
                THEN booking.totalPaid + u.amount ELSE booking.totalPaid
           q == (IF booking.totalPaid # 0 THEN booking.totalPaid ELSE booking.total) + u.amount
<1>4. t \in Int /\ p \in Int /\ q \in Int
  BY <1>1
<1>5. Charged(booking, u) = IF IsExtensionPayment(u)
                            THEN IF u.approved THEN [booking EXCEPT !.totalPaid = q]
                                 ELSE booking
                            ELSE [booking EXCEPT !.total = t, !.totalPaid = p]
  BY DEF Charged
<1> HIDE DEF t, p, q
<1> QED
  BY <1>1, <1>2, <1>3, <1>4, <1>5

LEMMA DiscountedType ==
    ASSUME NEW b \in [cart : Cart, total : Int, totalPaid : Int, deliveryCost : Int],
           NEW amount \in Int
    PROVE  /\ Discounted(b, amount)
                \in [cart : Cart, total : Int, totalPaid : Int, deliveryCost : Int]
           /\ Discounted(b, amount).cart = b.cart
BY DEF Discounted, MaxZero

LEMMA WithoutDeliveryType ==
    ASSUME NEW b \in [cart : Cart, total : Int, totalPaid : Int, deliveryCost : Int],
           NEW original \in BOOLEAN
    PROVE  /\ WithoutDelivery(b, original)
                \in [cart : Cart, total : Int, totalPaid : Int, deliveryCost : Int]
           /\ WithoutDelivery(b, original).cart = b.cart
<1> DEFINE t == IF original THEN MaxZero(b.total - b.deliveryCost) ELSE b.total
           p == MaxZero(b.totalPaid - b.deliveryCost)
<1>1. t \in Int /\ p \in Int
  BY DEF MaxZero
<1>2. WithoutDelivery(b, original) = [b EXCEPT !.totalPaid = p, !.total = t, !.deliveryCost = 0]
  BY DEF WithoutDelivery
<1> HIDE DEF t, p
<1>3. ASSUME NEW x \in [cart : Cart, total : Int, totalPaid : Int, deliveryCost : Int],
             NEW n \in Int
      PROVE  /\ [x EXCEPT !.total = n]
                  \in [cart : Cart, total : Int, totalPaid : Int, deliveryCost : Int]
             /\ [x EXCEPT !.total = n].cart = x.cart
             /\ [x EXCEPT !.deliveryCost = n]
                  \in [cart : Cart, total : Int, totalPaid : Int, deliveryCost : Int]
             /\ [x EXCEPT !.deliveryCost = n].cart = x.cart
             /\ [x EXCEPT !.totalPaid = n]
                  \in [cart : Cart, total : Int, totalPaid : Int, deliveryCost : Int]
             /\ [x EXCEPT !.totalPaid = n].cart = x.cart
  OBVIOUS
<1>4. WithoutDelivery(b, original)
        = [[[b EXCEPT !.totalPaid = p] EXCEPT !.total = t] EXCEPT !.deliveryCost = 0]
  BY <1>2
<1> DEFINE paid == [b EXCEPT !.totalPaid = p]
           less == [paid EXCEPT !.total = t]
<1>5. /\ paid \in [cart : Cart, total : Int, totalPaid : Int, deliveryCost : Int]
      /\ paid.cart = b.cart
  BY <1>1, <1>3
<1> HIDE DEF paid
<1>6. /\ less \in [cart : Cart, total : Int, totalPaid : Int, deliveryCost : Int]
      /\ less.cart = b.cart
  BY <1>1, <1>3, <1>5
<1> HIDE DEF less
<1>7. WithoutDelivery(b, original) = [less EXCEPT !.deliveryCost = 0]
  BY <1>4 DEF less, paid
<1> QED
  BY <1>3, <1>6, <1>7
-----------------------------------------------------------------------------
(* What no step undoes. *)

\* new is old with more entries and with more of them deleted.
Later(old, new) ==
    /\ old \in Seq(Entry) /\ new \in Seq(Entry)
    /\ Len(old) <= Len(new)
    /\ \A e \in DOMAIN old :
         /\ e \in DOMAIN new
         /\ new[e].action = old[e].action /\ new[e].event = old[e].event
         /\ new[e].amount = old[e].amount /\ new[e].older = old[e].older
         /\ new[e].cart = old[e].cart /\ new[e].sets = old[e].sets
         /\ new[e].vehicle = old[e].vehicle
         /\ new[e].movement = old[e].movement
         /\ old[e].deleted => new[e].deleted

\* The movements of old, deleted or not, and new ones that name entries after place n.
LaterMoves(old, new, n) ==
    /\ \A m \in DOMAIN old : m \in DOMAIN new /\ new[m].entry = old[m].entry
    /\ \A m \in DOMAIN new \ DOMAIN old : new[m].entry > n

\* Entries and movements name each other, and a deleted movement leaves no entry.
Linked(hist, moves) ==
    /\ \A m \in DOMAIN moves :
         /\ moves[m].entry \in DOMAIN hist
         /\ moves[m].deleted => hist[moves[m].entry].deleted
    /\ \A m, n \in DOMAIN moves : moves[m].entry = moves[n].entry => m = n
    /\ \A e \in DOMAIN hist :
         hist[e].movement # 0 =>
           /\ hist[e].movement \in DOMAIN moves
           /\ moves[hist[e].movement].entry = e

\* A deletion has an entry, and found the movement that names it, if one does.
Placed(x, hist, moves) ==
    /\ x.stage = "idle" => x = Idle
    /\ x.stage # "idle" =>
         /\ x.entry \in DOMAIN hist
         /\ x.todo \subseteq DOMAIN hist
         /\ x.movement # 0 => x.movement \in DOMAIN moves /\ moves[x.movement].entry = x.entry
         /\ \A m \in DOMAIN moves : moves[m].entry = x.entry => m = x.movement
    /\ x.stage \in {"mark", "unlink"} => x.todo = {}
    /\ x.stage = "unlink" => hist[x.entry].deleted

\* What an entry remembers is there.
Remembered ==
    /\ DOMAIN snapshots \subseteq DOMAIN history
    /\ \A e \in DOMAIN history : history[e].older <= Len(versions)

IInv ==
    /\ TypeOK
    /\ Remembered
    /\ Linked(history, movements)
    /\ \A h \in Handlers : Placed(handler[h], history, movements)

LEMMA SameIsLater ==
    ASSUME NEW hist \in Seq(Entry)
    PROVE  Later(hist, hist)
BY LenProperties DEF Later

LEMMA GrownIsLater ==
    ASSUME NEW old \in Seq(Entry), NEW new, NEW n, Grown(old, new, n)
    PROVE  Later(old, new)
BY DEF Grown, Later

LEMMA MarkedIsLater ==
    ASSUME NEW hist \in Seq(Entry), NEW e \in DOMAIN hist
    PROVE  Later(hist, MarkDeleted(hist, e))
<1>1. Len(hist) \in Nat
  BY LenProperties
<1> DEFINE new == MarkDeleted(hist, e)
<1>2. /\ new \in Seq(Entry) /\ Len(new) = Len(hist) /\ DOMAIN new = DOMAIN hist
      /\ \A i \in DOMAIN hist :
           /\ new[i].action = hist[i].action /\ new[i].event = hist[i].event
           /\ new[i].amount = hist[i].amount /\ new[i].older = hist[i].older
           /\ new[i].cart = hist[i].cart /\ new[i].sets = hist[i].sets
           /\ new[i].vehicle = hist[i].vehicle /\ new[i].movement = hist[i].movement
           /\ new[i].deleted = (i = e \/ hist[i].deleted)
  BY MarkedFields
<1> HIDE DEF new
<1>3. \A i \in DOMAIN hist : hist[i].deleted => new[i].deleted
  BY <1>2, Zenon
<1>4. Later(hist, new)
  BY <1>1, <1>2, <1>3 DEF Later
<1> QED
  BY <1>4 DEF new

LEMMA LaterTwice ==
    ASSUME NEW a, NEW b, NEW c, Later(a, b), Later(b, c)
    PROVE  Later(a, c)
<1>1. Len(a) \in Nat /\ Len(b) \in Nat /\ Len(c) \in Nat
  BY LenProperties DEF Later
<1> QED
  BY <1>1 DEF Later

LEMMA SameMoves ==
    ASSUME NEW moves, NEW n
    PROVE  LaterMoves(moves, moves, n)
BY DEF LaterMoves

\* A deletion keeps its entry and movement when the timeline and the movements grow.
LEMMA PlacedLater ==
    ASSUME NEW x, NEW old, NEW new, NEW moves, NEW later,
           Placed(x, old, moves), Later(old, new), LaterMoves(moves, later, Len(old))
    PROVE  Placed(x, new, later)
<1>1. DOMAIN old = 1 .. Len(old) /\ Len(old) \in Nat
  BY LenProperties DEF Later
<1>2. CASE x.stage = "idle"
  BY <1>2 DEF Placed
<1>3. CASE x.stage # "idle"
  <2>1. /\ x.entry \in DOMAIN old /\ x.entry \in DOMAIN new
        /\ x.todo \subseteq DOMAIN old /\ x.todo \subseteq DOMAIN new
    BY <1>3 DEF Placed, Later
  <2>2. x.movement # 0 => x.movement \in DOMAIN later /\ later[x.movement].entry = x.entry
    BY <1>3 DEF Placed, LaterMoves
  <2>3. ASSUME NEW m \in DOMAIN later, later[m].entry = x.entry
        PROVE  m = x.movement
    <3>1. ~(later[m].entry > Len(old))
      BY <1>1, <2>1, <2>3
    <3>2. m \in DOMAIN moves /\ moves[m].entry = x.entry
      BY <2>3, <3>1 DEF LaterMoves
    <3> QED
      BY <1>3, <3>2 DEF Placed
  <2>4. x.stage = "unlink" => new[x.entry].deleted
    BY <1>3, <2>1 DEF Placed, Later
  <2> QED
    BY <1>3, <2>1, <2>2, <2>3, <2>4 DEF Placed
<1> QED
  BY <1>2, <1>3

\* Entries without a movement may be added, and entries deleted.
LEMMA LinkedLater ==
    ASSUME NEW old, NEW new, NEW moves, Linked(old, moves), Later(old, new),
           \A e \in Added(old, new) : new[e].movement = 0
    PROVE  Linked(new, moves)
<1>1. \A m \in DOMAIN moves : /\ moves[m].entry \in DOMAIN new
                              /\ moves[m].deleted => new[moves[m].entry].deleted
  BY DEF Linked, Later
<1>2. \A e \in DOMAIN new :
         new[e].movement # 0 =>
           new[e].movement \in DOMAIN moves /\ moves[new[e].movement].entry = e
  <2> TAKE e \in DOMAIN new
  <2> HAVE new[e].movement # 0
  <2>1. e \in DOMAIN old
    BY DEF Added
  <2>2. new[e].movement = old[e].movement
    BY <2>1 DEF Later
  <2> QED
    BY <2>1, <2>2 DEF Linked
<1> QED
  BY <1>1, <1>2 DEF Linked

\* Movements may be deleted with their entry, and restored.
LEMMA LinkedMoves ==
    ASSUME NEW hist, NEW moves, NEW later, Linked(hist, moves),
           DOMAIN later = DOMAIN moves,
           \A m \in DOMAIN moves :
             /\ later[m].entry = moves[m].entry
             /\ later[m].deleted => moves[m].deleted \/ hist[moves[m].entry].deleted
    PROVE  Linked(hist, later)
BY DEF Linked

\* What the entries remember is still there when more of it is there.
LEMMA RememberedLater ==
    ASSUME TypeOK, Remembered, Later(history, history'), versions' \in Seq(Cart),
           Len(versions) <= Len(versions'),
           \A e \in Added(history, history') : history'[e].older = Len(versions),
           DOMAIN snapshots' \subseteq DOMAIN history'
    PROVE  Remembered'
<1>1. Len(versions) \in Nat /\ Len(versions') \in Nat
  BY LenProperties DEF TypeOK
<1>2. \A e \in DOMAIN history' : history'[e].older <= Len(versions')
  <2> TAKE e \in DOMAIN history'
  <2>1. CASE e \in DOMAIN history
    <3>1. history'[e].older = history[e].older /\ history[e].older <= Len(versions)
      BY <2>1 DEF Later, Remembered
    <3>2. history[e].older \in Nat
      BY <2>1, EntryAt, EntryFields DEF TypeOK
    <3> QED
      BY <1>1, <3>1, <3>2
  <2>2. CASE e \notin DOMAIN history
    BY <1>1, <2>2 DEF Added
  <2> QED
    BY <2>1, <2>2
<1> QED
  BY <1>2 DEF Remembered

\* The cart before an entry is a cart, wherever it is found.
LEMMA OldCartType ==
    ASSUME NEW hist \in Seq(Entry), NEW e \in DOMAIN hist, versions \in Seq(Cart),
           snapshots \in [DOMAIN snapshots -> Cart], DOMAIN snapshots \subseteq DOMAIN hist,
           hist[e].older <= Len(versions)
    PROVE  OldCart(hist, e) \in Cart
<1> DEFINE before == {i \in DOMAIN snapshots : i < e}
           modified == {i \in Live(hist) : i < e /\ hist[i].action = "BOOKING_MODIFIED"}
           kept == IF e \in DOMAIN snapshots THEN snapshots[e] ELSE NoCart
<1>1. DOMAIN hist = 1 .. Len(hist) /\ Len(hist) \in Nat /\ e \in Nat
  BY LenProperties
<1>2. hist[e].older > 0 => versions[hist[e].older] \in Cart
  <2>1. hist[e].older \in Nat
    BY EntryAt, EntryFields
  <2> QED
    BY <2>1, LenProperties, ElementOfSeq
<1>3. kept \in Cart
  BY Empties
<1>4. modified # {} => hist[Max(modified)].cart \in Cart
  <2> HAVE modified # {}
  <2>1. modified \in SUBSET Nat /\ \A x \in modified : x <= e
    BY <1>1 DEF Live
  <2>2. Max(modified) \in modified
    <3> HIDE DEF modified
    <3> QED
      BY <1>1, <2>1, GreatestPlace
  <2>3. Max(modified) \in DOMAIN hist
    BY <2>2 DEF Live
  <2> QED
    BY <2>3, EntryAt, EntryFields
<1>5. before # {} => snapshots[Max(before)] \in Cart
  <2> HAVE before # {}
  <2>1. before \in SUBSET Nat /\ \A x \in before : x <= e
    BY <1>1
  <2>2. Max(before) \in before
    <3> HIDE DEF before
    <3> QED
      BY <1>1, <2>1, GreatestPlace
  <2> QED
    BY <2>2
<1>6. OldCart(hist, e) = IF hist[e].older > 0 THEN versions[hist[e].older]
                         ELSE IF kept # NoCart THEN kept
                         ELSE IF modified # {} THEN hist[Max(modified)].cart
                         ELSE IF before # {} THEN snapshots[Max(before)]
                         ELSE NoCart
  BY DEF OldCart
<1> HIDE DEF kept, modified, before
<1> QED
  BY <1>2, <1>3, <1>4, <1>5, <1>6, Empties
-----------------------------------------------------------------------------
(* Every step keeps the invariant, and the timeline only grows. *)

Booking == [cart : Cart, total : Int, totalPaid : Int, deliveryCost : Int]

LEMMA BookingWith ==
    ASSUME NEW b \in Booking, NEW cart \in Cart, NEW p \in Int, NEW d \in Int
    PROVE  /\ [b EXCEPT !.cart = cart] \in Booking
           /\ [b EXCEPT !.cart = cart, !.totalPaid = p, !.deliveryCost = d] \in Booking
           /\ [b EXCEPT !.cart = cart, !.totalPaid = p, !.deliveryCost = d].cart = cart
<1>1. [b EXCEPT !.cart = cart] \in Booking /\ [b EXCEPT !.cart = cart].cart = cart
  BY DEF Booking
<1>2. ASSUME NEW x \in Booking
      PROVE  /\ [x EXCEPT !.totalPaid = p] \in Booking
             /\ [x EXCEPT !.totalPaid = p].cart = x.cart
             /\ [x EXCEPT !.deliveryCost = d] \in Booking
             /\ [x EXCEPT !.deliveryCost = d].cart = x.cart
  BY DEF Booking
<1> DEFINE one == [b EXCEPT !.cart = cart]
           two == [one EXCEPT !.totalPaid = p]
<1>3. one \in Booking /\ one.cart = cart
  BY <1>1
<1> HIDE DEF one
<1>4. two \in Booking /\ two.cart = cart
  BY <1>2, <1>3
<1> HIDE DEF two
<1>5. [b EXCEPT !.cart = cart, !.totalPaid = p, !.deliveryCost = d]
        = [two EXCEPT !.deliveryCost = d]
  BY DEF one, two
<1> QED
  BY <1>1, <1>2, <1>4, <1>5

\* A restoration leaves a note, or nothing when it fails.
LEMMA Restores ==
    ASSUME TypeOK, NEW hist \in Seq(Entry), NEW e \in DOMAIN hist, OldCart(hist, e) \in Cart,
           RestoreCart(hist, e) \/ RestoreFails(hist, e)
    PROVE  /\ Grown(hist, history', Len(versions))
           /\ \A i \in Added(hist, history') :
                /\ history'[i].movement = 0 /\ history'[i].sets = NoCart
                /\ history'[i].action # "BOOKING_MODIFIED" /\ ~Restorable(history'[i])
           /\ Len(history') > Len(hist) \/ Len(history') = Len(hist)
           /\ booking' \in Booking
           /\ versions' \in Seq(Cart) /\ Len(versions) <= Len(versions')
           /\ held' \in [Vehicles -> Seq(Dates)]
<1>0. /\ booking \in Booking /\ versions \in Seq(Cart) /\ held \in [Vehicles -> Seq(Dates)]
      /\ Len(versions) \in Nat /\ Len(hist) \in Nat /\ DOMAIN hist = 1 .. Len(hist)
  BY LenProperties DEF TypeOK, Booking
<1>1. CASE RestoreFails(hist, e)
  <2>1. history' = hist /\ booking' = booking /\ versions' = versions /\ held' = held
    BY <1>1 DEF RestoreFails
  <2> QED
    BY <1>0, <2>1 DEF Grown, Added
<1>2. CASE RestoreCart(hist, e)
  <2> DEFINE old == OldCart(hist, e)
             note == Note(NoEvent, 0)
             paid == IF hist[e].amount > 0 THEN MaxZero(booking.totalPaid - hist[e].amount)
                     ELSE booking.totalPaid
  <2>0. /\ versions' = Append(versions, old)
        /\ held' = UpdateVehicleReservations(held, old, old, FALSE)
        /\ history' = Append(hist, note)
        /\ \E strip \in BOOLEAN :
             booking' = [booking EXCEPT !.cart = old, !.totalPaid = paid,
                                        !.deliveryCost = IF strip THEN 0
                                                         ELSE booking.deliveryCost]
    BY <1>2 DEF RestoreCart
  <2>1. /\ note \in Entry /\ note.deleted = FALSE /\ note.movement = 0
        /\ note.older = Len(versions) /\ note.sets = NoCart
        /\ note.action = "NOTE_ADDED" /\ note.event = NoEvent
    <3>1. NoEvent \in Events /\ 0 \in Int
      BY DEF Events
    <3> QED
      BY <1>0, <3>1, NoteFields, Zenon
  <2>2. ~Restorable(note)
    BY <2>1 DEF Restorable, IsExtension, IsVehicleChange, Extension, VehicleChange, NoEvent
  <2>3. hist[e].amount \in Int
    BY EntryAt, EntryFields
  <2>4. paid \in Int
    BY <1>0, <2>3 DEF MaxZero, Booking
  <2>5. booking.deliveryCost \in Int
    BY <1>0 DEF Booking
  <2> HIDE DEF old, note, paid
  <2>6. old \in Cart
    BY DEF old
  <2>7. booking' \in Booking
    <3>1. PICK strip \in BOOLEAN :
             booking' = [booking EXCEPT !.cart = old, !.totalPaid = paid,
                                        !.deliveryCost = IF strip THEN 0
                                                         ELSE booking.deliveryCost]
      BY <2>0
    <3> DEFINE d == IF strip THEN 0 ELSE booking.deliveryCost
    <3>2. d \in Int /\ booking \in Booking
      BY <1>0, <2>5
    <3>3. booking' = [booking EXCEPT !.cart = old, !.totalPaid = paid, !.deliveryCost = d]
      BY <3>1
    <3> HIDE DEF d
    <3> QED
      BY <2>4, <2>6, <3>2, <3>3, BookingWith
  <2>8. versions' \in Seq(Cart) /\ Len(versions') = Len(versions) + 1
    BY <1>0, <2>0, <2>6, AppendProperties
  <2>9. held' \in [Vehicles -> Seq(Dates)]
    BY <1>0, <2>0, <2>6, RedatedType
  <2>10. /\ history' \in Seq(Entry) /\ Len(history') = Len(hist) + 1
         /\ \A i \in 1 .. Len(hist) : history'[i] = hist[i]
         /\ history'[Len(hist) + 1] = note
    BY <2>0, <2>1, AppendProperties
  <2>11. DOMAIN history' = 1 .. Len(hist) + 1
    BY <2>10, LenProperties
  <2>12. Grown(hist, history', Len(versions))
    BY <1>0, <2>1, <2>10, <2>11 DEF Grown, Added
  <2>13. \A i \in Added(hist, history') : history'[i] = note
    BY <1>0, <2>10, <2>11 DEF Added
  <2>14. \A i \in Added(hist, history') :
           /\ history'[i].movement = 0 /\ history'[i].sets = NoCart
           /\ history'[i].action # "BOOKING_MODIFIED" /\ ~Restorable(history'[i])
    BY <2>1, <2>2, <2>13
  <2>15. Len(history') > Len(hist) /\ Len(versions) <= Len(versions')
    BY <1>0, <2>8, <2>10
  <2> QED
    BY <2>7, <2>8, <2>9, <2>12, <2>14, <2>15
<1> QED
  BY <1>1, <1>2

\* The first entries are of the creation and of a delivery.
LEMMA CreateAdds ==
    ASSUME TypeOK, CreateContract
    PROVE  /\ Grown(history, history', Len(versions))
           /\ \A i \in Added(history, history') :
                /\ history'[i].movement = 0
                /\ history'[i].action # "BOOKING_MODIFIED" /\ ~Restorable(history'[i])
                /\ i # 1 => history'[i].sets = NoCart
           /\ 1 \in DOMAIN history' /\ history'[1].sets = booking.cart
<1> DEFINE made == NewEntry("CONTRACT_CREATED", NoEvent, 0, "none", NoCart, booking.cart)
           sent == NewEntry("NOTE_ADDED", Delivery, booking.deliveryCost,
                            FirstVehicle(booking.cart), NoCart, NoCart)
           rest == IF booking.deliveryCost > 0 THEN <<sent>> ELSE <<>>
<1>1. history = <<>> /\ history' = <<made>> \o rest
  BY DEF CreateContract
<1>2. /\ Len(versions) \in Nat /\ booking.cart \in Cart /\ NoCart \in Cart
      /\ booking.deliveryCost \in Int
      /\ FirstVehicle(booking.cart) \in Vehicles \cup {"none"}
      /\ NoEvent \in Events /\ Delivery \in Events
      /\ "CONTRACT_CREATED" \in Actions /\ "NOTE_ADDED" \in Actions
  BY LenProperties, Empties, FirstVehicleType DEF TypeOK, Events, Actions
<1>3. /\ made \in Entry /\ made.deleted = FALSE /\ made.movement = 0
      /\ made.older = Len(versions) /\ made.sets = booking.cart
      /\ made.action = "CONTRACT_CREATED" /\ made.event = NoEvent
  BY <1>2 DEF NewEntry, Entry
<1>4. /\ sent \in Entry /\ sent.deleted = FALSE /\ sent.movement = 0
      /\ sent.older = Len(versions) /\ sent.sets = NoCart
      /\ sent.action = "NOTE_ADDED" /\ sent.event = Delivery
  BY <1>2 DEF NewEntry, Entry
<1>5. ~Restorable(made) /\ ~Restorable(sent)
  BY <1>3, <1>4 DEF Restorable, IsExtension, IsVehicleChange, Extension, VehicleChange,
                    NoEvent, Delivery
<1> HIDE DEF made, sent
<1>6. /\ <<made>> \in Seq(Entry) /\ Len(<<made>>) = 1 /\ <<made>>[1] = made
      /\ rest \in Seq(Entry) /\ Len(rest) \in {0, 1}
      /\ Len(rest) = 1 => rest[1] = sent
  BY <1>3, <1>4, One, Empties, EmptySeq
<1> HIDE DEF rest
<1>7. /\ history' \in Seq(Entry) /\ Len(history') = 1 + Len(rest)
      /\ \A i \in 1 .. Len(history') : history'[i] = IF i = 1 THEN made ELSE sent
  <2>1. /\ <<made>> \o rest \in Seq(Entry) /\ Len(<<made>> \o rest) = 1 + Len(rest)
        /\ \A i \in 1 .. 1 + Len(rest) :
             (<<made>> \o rest)[i] = IF i <= 1 THEN <<made>>[i] ELSE rest[i - 1]
    BY <1>6, ConcatProperties
  <2> QED
    BY <1>1, <1>6, <2>1
<1>8. DOMAIN history' = 1 .. Len(history') /\ DOMAIN history = {} /\ Len(history) = 0
  BY <1>1, <1>7, LenProperties, EmptySeq
<1>9. \A i \in DOMAIN history' : history'[i] = IF i = 1 THEN made ELSE sent
  BY <1>6, <1>7, <1>8
<1>10. 1 \in DOMAIN history' /\ history'[1] = made
  BY <1>6, <1>7, <1>8
<1>11. Grown(history, history', Len(versions))
  BY <1>3, <1>4, <1>6, <1>7, <1>8, <1>9 DEF Grown, Added
<1> QED
  BY <1>3, <1>4, <1>5, <1>9, <1>10, <1>11 DEF Added

LEMMA InitHolds ==
    Init => IInv
<1> SUFFICES ASSUME Init PROVE IInv
  OBVIOUS
<1>1. PICK cart \in Carts, hasDelivery \in BOOLEAN, paid \in {0, Total} :
        booking = [cart |-> cart, total |-> Total, totalPaid |-> paid,
                   deliveryCost |-> IF hasDelivery THEN DeliveryCost ELSE 0]
  BY DEF Init
<1>2. booking \in [cart : Cart, total : Int, totalPaid : Int, deliveryCost : Int]
  BY <1>1, ConstantsAssumption
<1>3. held \in [Vehicles -> Seq(Dates)]
  <2>1. \A v \in Vehicles :
          [i \in 1 .. Cardinality({j \in DOMAIN booking.cart : booking.cart[j].vehicle = v})
             |-> (CHOOSE item \in {booking.cart[j] : j \in DOMAIN booking.cart} :
                    item.vehicle = v).dates] \in Seq(Dates)
    <3> TAKE v \in Vehicles
    <3> DEFINE places == {j \in DOMAIN booking.cart : booking.cart[j].vehicle = v}
               named == (CHOOSE item \in {booking.cart[j] : j \in DOMAIN booking.cart} :
                           item.vehicle = v)
    <3>1. booking.cart \in Cart
      BY <1>2
    <3>2. /\ Len(booking.cart) \in Nat /\ DOMAIN booking.cart = 1 .. Len(booking.cart)
          /\ \A j \in DOMAIN booking.cart : booking.cart[j] \in CartItem
      BY <3>1, LenProperties, ElementOfSeq DEF Cart
    <3>3. Cardinality(places) \in Nat
      <4>1. IsFiniteSet(DOMAIN booking.cart)
        BY <3>2, FS_Interval
      <4>2. places \in SUBSET DOMAIN booking.cart
        OBVIOUS
      <4> HIDE DEF places
      <4> QED
        BY <4>1, <4>2, FS_Subset, FS_CardinalityType
    <3>4. CASE places = {}
      <4>1. Cardinality(places) = 0
        BY <3>4, FS_EmptySet
      <4>2. ASSUME NEW d, NEW n, n = 0
            PROVE  [i \in 1 .. n |-> d] \in Seq(Dates)
        BY <4>2
      <4> QED
        BY <4>1, <4>2
    <3>5. CASE places # {}
      <4>1. \E item \in {booking.cart[j] : j \in DOMAIN booking.cart} : item.vehicle = v
        BY <3>5
      <4>2. named \in {booking.cart[j] : j \in DOMAIN booking.cart}
        BY <4>1
      <4>3. named \in CartItem
        BY <3>2, <4>2
      <4>4. named.dates \in Dates
        BY <4>3 DEF CartItem
      <4>5. ASSUME NEW d \in Dates, NEW n \in Nat
            PROVE  [i \in 1 .. n |-> d] \in Seq(Dates)
        OBVIOUS
      <4> QED
        BY <3>3, <4>4, <4>5
    <3> QED
      BY <3>4, <3>5
  <2>2. held = [v \in Vehicles |->
                  [i \in 1 .. Cardinality({j \in DOMAIN booking.cart :
                                             booking.cart[j].vehicle = v})
                     |-> (CHOOSE item \in {booking.cart[j] : j \in DOMAIN booking.cart} :
                            item.vehicle = v).dates]]
    BY DEF Init
  <2> QED
    BY <2>1, <2>2
<1>4. /\ history = <<>> /\ versions = <<>> /\ movements = <<>> /\ commissions = {}
      /\ snapshots = [e \in {} |-> NoCart] /\ handler = [h \in Handlers |-> Idle]
      /\ approved \in BOOLEAN /\ requests = 0
  BY DEF Init
<1>5. \A S : <<>> \in Seq(S)
  BY EmptySeq
<1>6. snapshots \in [DOMAIN snapshots -> Cart] /\ DOMAIN snapshots = {}
  BY <1>4
<1>7. Idle \in [stage : {"idle", "restore", "mark", "unlink"}, entry : Nat,
                movement : Nat, todo : SUBSET Nat]
  BY DEF Idle
<1>8. requests \in 0 .. MaxRequests
  BY <1>4, ConstantsAssumption
<1>9. TypeOK
  BY <1>2, <1>3, <1>4, <1>5, <1>6, <1>7, <1>8 DEF TypeOK
<1>10. DOMAIN history = {} /\ DOMAIN movements = {}
  BY <1>4
<1>11. Linked(history, movements) /\ Remembered
  BY <1>6, <1>10 DEF Linked, Remembered
<1>12. \A h \in Handlers : Placed(handler[h], history, movements)
  BY <1>4, <1>10 DEF Placed, Idle
<1> QED
  BY <1>9, <1>11, <1>12 DEF IInv

\* What IInv says, as the steps need it.
LEMMA IInvFacts ==
    ASSUME IInv
    PROVE  /\ history \in Seq(Entry) /\ DOMAIN history = 1 .. Len(history)
           /\ Len(history) \in Nat
           /\ versions \in Seq(Cart) /\ Len(versions) \in Nat
           /\ movements \in Seq([entry : Nat, amount : Int, deleted : BOOLEAN])
           /\ Len(movements) \in Nat /\ DOMAIN movements = 1 .. Len(movements)
           /\ \A m \in DOMAIN movements :
                /\ movements[m] \in [entry : Nat, amount : Int, deleted : BOOLEAN]
                /\ movements[m].entry \in DOMAIN history
           /\ \A e \in DOMAIN history : history[e] \in Entry
           /\ \A e \in DOMAIN history : OldCart(history, e) \in Cart
<1>1. /\ history \in Seq(Entry) /\ versions \in Seq(Cart)
      /\ movements \in Seq([entry : Nat, amount : Int, deleted : BOOLEAN])
      /\ snapshots \in [DOMAIN snapshots -> Cart]
  BY DEF IInv, TypeOK
<1>2. \A e \in DOMAIN history : OldCart(history, e) \in Cart
  BY <1>1, OldCartType DEF IInv, Remembered
<1>3. /\ Len(movements) \in Nat /\ DOMAIN movements = 1 .. Len(movements)
      /\ \A m \in DOMAIN movements :
           movements[m] \in [entry : Nat, amount : Int, deleted : BOOLEAN]
  BY <1>1, LenProperties, ElementOfSeq
<1> QED
  BY <1>1, <1>2, <1>3, LenProperties, ElementOfSeq DEF IInv, Linked

\* The steps that only add entries, and those that only delete them.
LEMMA KeptWithHistory ==
    ASSUME IInv, TypeOK', Later(history, history'),
           movements' = movements, handler' = handler,
           \A e \in Added(history, history') :
             history'[e].movement = 0 /\ history'[e].older = Len(versions),
           Len(versions) <= Len(versions'),
           DOMAIN snapshots' \subseteq DOMAIN history'
    PROVE  IInv'
<1>1. Remembered'
  BY RememberedLater DEF IInv, TypeOK
<1>2. Linked(history', movements')
  BY LinkedLater DEF IInv
<1>3. \A h \in Handlers : Placed(handler'[h], history', movements')
  BY PlacedLater, SameMoves DEF IInv
<1> QED
  BY <1>1, <1>2, <1>3 DEF IInv

LEMMA SnapshotsStay ==
    ASSUME IInv, Later(history, history'), snapshots' = snapshots
    PROVE  DOMAIN snapshots' \subseteq DOMAIN history'
BY DEF IInv, Remembered, Later

LEMMA CreateKeeps ==
    ASSUME IInv, CreateContract
    PROVE  IInv' /\ Later(history, history')
<1>1. TypeOK /\ history \in Seq(Entry)
  BY IInvFacts DEF IInv
<1>2. /\ Grown(history, history', Len(versions))
      /\ \A i \in Added(history, history') : history'[i].movement = 0
  BY <1>1, CreateAdds
<1>3. Later(history, history')
  BY <1>1, <1>2, GrownIsLater
<1>4. UNCHANGED <<booking, approved, versions, snapshots, held, commissions, movements,
                  handler, requests, past>>
  BY DEF CreateContract
<1>5. TypeOK'
  BY <1>1, <1>2, <1>4 DEF TypeOK, Grown
<1>6. \A e \in Added(history, history') : history'[e].older = Len(versions)
  BY <1>2 DEF Grown
<1>7. Len(versions) <= Len(versions')
  BY <1>4, IInvFacts
<1> QED
  BY <1>2, <1>3, <1>4, <1>5, <1>6, <1>7, SnapshotsStay, KeptWithHistory

LEMMA ServeType ==
    ASSUME TypeOK, NEW op, Serve(op)
    PROVE  requests' \in 0 .. MaxRequests
BY ConstantsAssumption DEF TypeOK, Serve

\* A request that changes nothing.
LEMMA NothingKeeps ==
    ASSUME IInv, requests' \in 0 .. MaxRequests,
           UNCHANGED <<booking, approved, history, versions, snapshots, held, commissions,
                       movements, handler>>
    PROVE  IInv' /\ Later(history, history')
<1>1. TypeOK'
  BY DEF IInv, TypeOK
<1>2. Remembered'
  BY DEF IInv, Remembered
<1> QED
  BY <1>1, <1>2, IInvFacts, SameIsLater DEF IInv

LEMMA ApplyKeeps ==
    ASSUME IInv, NEW u \in Updates, NEW charge \in BOOLEAN, ApplyUpdate(u, charge),
           requests' \in 0 .. MaxRequests, UNCHANGED <<movements, handler>>
    PROVE  IInv' /\ Later(history, history')
<1>1. TypeOK /\ history \in Seq(Entry) /\ versions \in Seq(Cart) /\ Len(versions) \in Nat
      /\ DOMAIN history = 1 .. Len(history) /\ Len(history) \in Nat
  BY IInvFacts DEF IInv
<1>2. /\ Grown(history, history', Len(versions))
      /\ \A i \in Added(history, history') : history'[i].movement = 0
      /\ EntryOf(u, charge) # <<>> => Len(history) + 1 \in Added(history, history')
  BY <1>1, UpdateAdds
<1>3. Later(history, history')
  BY <1>1, <1>2, GrownIsLater
<1>4. u.cart \in Cart /\ u.approved \in BOOLEAN /\ booking.cart \in Cart
      /\ booking \in Booking
  BY <1>1, BodyType DEF TypeOK, Booking
<1>5. booking' \in Booking
  <2> DEFINE b == IF EntryOf(u, charge) # <<>> THEN Charged(booking, u) ELSE booking
             cart == IF u.cart # NoCart THEN u.cart ELSE b.cart
  <2>1. b \in Booking
    BY <1>1, <1>4, ChargedType DEF Booking
  <2>2. cart \in Cart
    BY <1>4, <2>1 DEF Booking
  <2>3. booking' = [b EXCEPT !.cart = cart]
    BY UpdateWrites
  <2> HIDE DEF b, cart
  <2>4. [b EXCEPT !.cart = cart] \in Booking
    BY <2>1, <2>2 DEF Booking
  <2> QED
    BY <2>3, <2>4
<1>6. versions' \in Seq(Cart) /\ Len(versions) <= Len(versions')
  <2>1. versions' = IF u.cart # NoCart THEN Append(versions, u.cart) ELSE versions
    BY UpdateWrites
  <2> QED
    BY <1>1, <1>4, <2>1, AppendProperties
<1>7. held' \in [Vehicles -> Seq(Dates)]
  <2> DEFINE change == u.event = VehicleChange
  <2>1. held' = IF u.cart # NoCart
                THEN UpdateVehicleReservations(held, booking.cart, u.cart, change)
                ELSE held
    BY UpdateWrites
  <2>2. change \in BOOLEAN /\ held \in [Vehicles -> Seq(Dates)]
    BY <1>1 DEF TypeOK
  <2> HIDE DEF change
  <2> QED
    BY <1>4, <2>1, <2>2, RedatedType
<1>8. /\ snapshots' \in [DOMAIN snapshots' -> Cart]
      /\ DOMAIN snapshots' \subseteq DOMAIN history'
  <2>1. OldOf(u) \in Cart
    BY <1>4, Empties DEF OldOf
  <2>2. snapshots \in [DOMAIN snapshots -> Cart] /\ DOMAIN snapshots \subseteq DOMAIN history'
    BY <1>1, <1>3 DEF TypeOK, IInv, Remembered, Later
  <2>3. CASE EntryOf(u, charge) = <<>>
    <3>1. snapshots' = snapshots
      BY <2>3, UpdateWrites
    <3> QED
      BY <2>2, <3>1
  <2>4. CASE EntryOf(u, charge) # <<>>
    <3>1. snapshots' = [e \in DOMAIN snapshots \cup {Len(history) + 1} |->
                          IF e = Len(history) + 1 THEN OldOf(u) ELSE snapshots[e]]
      BY <2>4, UpdateWrites
    <3>2. Len(history) + 1 \in DOMAIN history'
      BY <1>2, <2>4 DEF Added
    <3> QED
      BY <2>1, <2>2, <3>1, <3>2
  <2> QED
    BY <2>3, <2>4
<1>9. approved' \in BOOLEAN /\ commissions' \subseteq Nat
  <2>1. /\ approved' = (u.approved \/ approved)
        /\ commissions' = IF u.seller /\ u.amount # 0
                          THEN commissions \cup {Len(history) + 1} ELSE commissions
    BY UpdateWrites
  <2> QED
    BY <1>1, <1>4, <2>1 DEF TypeOK
<1>10. TypeOK'
  BY <1>1, <1>2, <1>5, <1>6, <1>7, <1>8, <1>9 DEF TypeOK, Booking, Grown
<1>11. \A e \in Added(history, history') :
         history'[e].movement = 0 /\ history'[e].older = Len(versions)
  BY <1>2 DEF Grown
<1> QED
  BY <1>3, <1>6, <1>8, <1>10, <1>11, KeptWithHistory

LEMMA UpdateKeeps ==
    ASSUME IInv, NEW u \in Updates, Update(u)
    PROVE  IInv' /\ Later(history, history')
<1>1. requests' \in 0 .. MaxRequests /\ UNCHANGED <<movements, handler>>
  BY ServeType DEF Update, IInv
<1>2. PICK today \in BOOLEAN :
        LET duplicate == today /\ IsCharge(u) /\ ~u.confirmed /\ Duplicates(u) # {}
        IN  \/ /\ duplicate /\ u.cart = NoCart
               /\ UNCHANGED <<booking, approved, history, versions, snapshots, held,
                              commissions, past>>
            \/ ApplyUpdate(u, IsCharge(u) /\ ~duplicate)
  BY DEF Update
<1> DEFINE charge == IsCharge(u) /\ ~(today /\ IsCharge(u) /\ ~u.confirmed
                                      /\ Duplicates(u) # {})
<1>3. CASE UNCHANGED <<booking, approved, history, versions, snapshots, held, commissions>>
  BY <1>1, <1>3, NothingKeeps
<1>4. CASE ApplyUpdate(u, charge)
  <2>1. charge \in BOOLEAN
    OBVIOUS
  <2> HIDE DEF charge
  <2> QED
    BY <1>1, <1>4, <2>1, ApplyKeeps
<1> QED
  BY <1>2, <1>3, <1>4

\* A step that marks an entry, or none, and adds nothing.
LEMMA MarkKeeps ==
    ASSUME IInv, NEW h \in Handlers, Mark(h)
    PROVE  IInv' /\ Later(history, history')
<1> DEFINE e == handler[h].entry
           x == [handler[h] EXCEPT !.stage = "unlink"]
<1>1. /\ handler[h].stage = "mark" /\ history' = MarkDeleted(history, e)
      /\ handler' = [handler EXCEPT ![h].stage = "unlink"]
      /\ UNCHANGED <<booking, approved, versions, snapshots, held, commissions, movements,
                     requests, past>>
  BY DEF Mark
<1>2. handler[h] \in [stage : {"idle", "restore", "mark", "unlink"}, entry : Nat,
                      movement : Nat, todo : SUBSET Nat]
      /\ handler \in [Handlers -> [stage : {"idle", "restore", "mark", "unlink"},
                                   entry : Nat, movement : Nat, todo : SUBSET Nat]]
  BY DEF IInv, TypeOK
<1>3. e \in DOMAIN history /\ handler[h].todo = {} /\ Placed(handler[h], history, movements)
  BY <1>1 DEF IInv, Placed
<1>4. /\ x \in [stage : {"idle", "restore", "mark", "unlink"}, entry : Nat,
                movement : Nat, todo : SUBSET Nat]
      /\ x.stage = "unlink" /\ x.entry = e /\ x.movement = handler[h].movement
      /\ x.todo = handler[h].todo
  BY <1>2
<1>5. handler' = [handler EXCEPT ![h] = x]
  BY <1>1
<1> HIDE DEF x
<1>6. /\ Later(history, history') /\ history' \in Seq(Entry)
      /\ DOMAIN history' = DOMAIN history /\ history'[e].deleted
  <2> HIDE DEF e
  <2>1. Later(history, MarkDeleted(history, e)) /\ MarkDeleted(history, e) \in Seq(Entry)
        /\ DOMAIN MarkDeleted(history, e) = DOMAIN history
        /\ MarkDeleted(history, e)[e].deleted = TRUE
    BY <1>3, IInvFacts, MarkedFields, MarkedIsLater
  <2> QED
    BY <1>1, <2>1 DEF e
<1>7. TypeOK'
  BY <1>1, <1>2, <1>4, <1>5, <1>6 DEF IInv, TypeOK
<1>8. \A i \in Added(history, history') : FALSE
  BY <1>6 DEF Added
<1>9. Remembered'
  <2>1. Len(versions) <= Len(versions') /\ versions' \in Seq(Cart)
        /\ DOMAIN snapshots' \subseteq DOMAIN history'
    BY <1>1, <1>6, IInvFacts, SnapshotsStay
  <2> QED
    BY <1>6, <1>8, <2>1, RememberedLater DEF IInv
<1>10. Linked(history', movements')
  BY <1>1, <1>6, <1>8, LinkedLater DEF IInv
<1>11. \A k \in Handlers : Placed(handler'[k], history', movements')
  <2> TAKE k \in Handlers
  <2>1. Placed(handler[k], history', movements')
    BY <1>1, <1>6, PlacedLater, SameMoves DEF IInv
  <2>2. CASE k = h
    <3>1. handler'[k] = x
      BY <1>2, <1>5, <2>2
    <3> QED
      BY <1>1, <1>3, <1>4, <1>6, <2>1, <2>2, <3>1 DEF Placed
  <2>3. CASE k # h
    BY <1>2, <1>5, <2>1, <2>3
  <2> QED
    BY <2>2, <2>3
<1> QED
  BY <1>6, <1>7, <1>9, <1>10, <1>11 DEF IInv
Handling == [stage : {"idle", "restore", "mark", "unlink"}, entry : Nat, movement : Nat,
             todo : SUBSET Nat]

\* One deletion goes on, the others wait.
LEMMA OneTurns ==
    ASSUME IInv, NEW h \in Handlers, NEW x \in Handling, handler' = [handler EXCEPT ![h] = x],
           Later(history, history'), LaterMoves(movements, movements', Len(history)),
           Placed(x, history', movements')
    PROVE  /\ handler' \in [Handlers -> Handling]
           /\ handler'[h] = x
           /\ \A k \in Handlers : k # h => handler'[k] = handler[k]
           /\ \A k \in Handlers : Placed(handler'[k], history', movements')
<1>1. handler \in [Handlers -> Handling]
  BY DEF IInv, TypeOK, Handling
<1>2. /\ handler' \in [Handlers -> Handling] /\ handler'[h] = x
      /\ \A k \in Handlers : k # h => handler'[k] = handler[k]
  BY <1>1
<1>3. \A k \in Handlers : Placed(handler[k], history', movements')
  BY PlacedLater DEF IInv
<1> QED
  BY <1>2, <1>3

LEMMA StartKeeps ==
    ASSUME IInv, NEW h \in Handlers, NEW e \in DOMAIN history, StartDelete(h, e)
    PROVE  IInv' /\ Later(history, history')
<1>1. /\ requests' \in 0 .. MaxRequests
      /\ UNCHANGED <<booking, approved, history, versions, snapshots, held, commissions,
                     movements>>
  BY ServeType DEF StartDelete, IInv
<1>2. CASE UNCHANGED handler
  BY <1>1, <1>2, NothingKeeps
<1>3. CASE /\ ~history[e].deleted
           /\ handler' = [handler EXCEPT ![h] = [stage |-> "restore", entry |-> e,
                            movement |-> MovementOf(e), todo |-> FallWith(e)]]
  <2> DEFINE x == [stage |-> "restore", entry |-> e, movement |-> MovementOf(e),
                   todo |-> FallWith(e)]
             naming == {m \in DOMAIN movements :
                          movements[m].entry = e /\ ~movements[m].deleted}
  <2>1. \A m \in DOMAIN movements : movements[m].entry = e => m \in naming
    BY <1>3 DEF IInv, Linked
  <2>2. MovementOf(e) = IF history[e].movement # 0 THEN history[e].movement
                        ELSE IF naming # {} THEN Min(naming) ELSE 0
    BY DEF MovementOf
  <2>3. naming # {} => Min(naming) \in naming
    <3>1. naming \in SUBSET Nat
      BY IInvFacts
    <3> HIDE DEF naming
    <3> QED
      BY <3>1, LeastPlace
  <2>4. \A m \in naming : m \in DOMAIN movements /\ movements[m].entry = e
    OBVIOUS
  <2> HIDE DEF naming
  <2>5. /\ history[e].movement # 0 => /\ history[e].movement \in DOMAIN movements
                                      /\ movements[history[e].movement].entry = e
        /\ \A m, n \in DOMAIN movements : movements[m].entry = movements[n].entry => m = n
    BY DEF IInv, Linked
  <2>6. /\ MovementOf(e) # 0 => /\ MovementOf(e) \in DOMAIN movements
                                /\ movements[MovementOf(e)].entry = e
        /\ \A m \in DOMAIN movements : movements[m].entry = e => m = MovementOf(e)
    BY <2>1, <2>2, <2>3, <2>4, <2>5
  <2>7. FallWith(e) \subseteq DOMAIN history /\ e \in Nat /\ MovementOf(e) \in Nat
        /\ DOMAIN history \subseteq Nat
    <3>1. DOMAIN movements \subseteq Nat /\ DOMAIN history \subseteq Nat /\ e \in Nat
      BY IInvFacts
    <3> QED
      BY <2>6, <3>1 DEF FallWith, Live
  <2>8. x \in Handling
    BY <2>7 DEF Handling
  <2>9. Placed(x, history, movements)
    BY <2>6, <2>7 DEF Placed
  <2>10. handler' = [handler EXCEPT ![h] = x]
    BY <1>3
  <2> HIDE DEF x
  <2>11. Later(history, history') /\ LaterMoves(movements, movements', Len(history))
         /\ Placed(x, history', movements')
    BY <1>1, <2>9, IInvFacts, SameIsLater, SameMoves
  <2>12. /\ handler' \in [Handlers -> Handling]
         /\ \A k \in Handlers : Placed(handler'[k], history', movements')
    BY <2>8, <2>10, <2>11, OneTurns
  <2>13. TypeOK'
    BY <1>1, <2>12 DEF IInv, TypeOK, Handling
  <2>14. Remembered' /\ Linked(history', movements')
    BY <1>1 DEF IInv, Remembered
  <2> QED
    BY <2>11, <2>12, <2>13, <2>14 DEF IInv
<1> QED
  BY <1>2, <1>3 DEF StartDelete

LEMMA AbortKeeps ==
    ASSUME IInv, NEW h \in Handlers, Abort(h)
    PROVE  IInv' /\ Later(history, history')
<1>1. /\ handler' = [handler EXCEPT ![h] = Idle]
      /\ UNCHANGED <<booking, approved, history, versions, snapshots, held, commissions,
                     movements, requests>>
  BY DEF Abort
<1>2. Idle \in Handling /\ Placed(Idle, history', movements')
  BY DEF Idle, Handling, Placed
<1>3. Later(history, history') /\ LaterMoves(movements, movements', Len(history))
  BY <1>1, IInvFacts, SameIsLater, SameMoves
<1>4. /\ handler' \in [Handlers -> Handling]
      /\ \A k \in Handlers : Placed(handler'[k], history', movements')
  BY <1>1, <1>2, <1>3, OneTurns
<1>5. TypeOK'
  BY <1>1, <1>4 DEF IInv, TypeOK, Handling
<1>6. Remembered' /\ Linked(history', movements')
  BY <1>1 DEF IInv, Remembered
<1> QED
  BY <1>3, <1>4, <1>5, <1>6 DEF IInv

\* What a handler that is not idle has.
LEMMA HandlingFacts ==
    ASSUME IInv, NEW h \in Handlers, handler[h].stage # "idle"
    PROVE  /\ handler \in [Handlers -> Handling] /\ handler[h] \in Handling
           /\ handler[h].entry \in DOMAIN history
           /\ handler[h].todo \subseteq DOMAIN history
           /\ Placed(handler[h], history, movements)
           /\ handler[h].todo # {} =>
                Min(handler[h].todo) \in handler[h].todo /\ Min(handler[h].todo) \in DOMAIN history
<1>1. /\ handler \in [Handlers -> Handling] /\ handler[h] \in Handling
      /\ handler[h].entry \in DOMAIN history /\ handler[h].todo \subseteq DOMAIN history
      /\ Placed(handler[h], history, movements)
  BY DEF IInv, TypeOK, Handling, Placed
<1>2. handler[h].todo \in SUBSET Nat
  BY <1>1 DEF Handling
<1> QED
  BY <1>1, <1>2, LeastPlace

LEMMA CascadeKeeps ==
    ASSUME IInv, NEW h \in Handlers, Cascade(h)
    PROVE  IInv' /\ Later(history, history')
<1> DEFINE falling == handler[h].todo
           next == Min(falling)
           marked == MarkDeleted(history, next)
           x == [handler[h] EXCEPT !.todo = @ \ {next}]
<1>1. /\ handler[h].stage = "restore" /\ falling # {}
      /\ RestoreCart(marked, next) \/ RestoreFails(marked, next)
      /\ handler' = [handler EXCEPT ![h].todo = @ \ {next}]
      /\ UNCHANGED <<approved, snapshots, commissions, movements, requests>>
  BY DEF Cascade
<1>2. /\ handler \in [Handlers -> Handling] /\ handler[h] \in Handling
      /\ Placed(handler[h], history, movements) /\ next \in DOMAIN history
      /\ handler[h].todo \subseteq DOMAIN history
  BY <1>1, HandlingFacts
<1>3. handler' = [handler EXCEPT ![h] = x]
  BY <1>1
<1>4. /\ x \in Handling /\ x.stage = "restore" /\ x.entry = handler[h].entry
      /\ x.movement = handler[h].movement /\ x.todo \subseteq handler[h].todo
  BY <1>1, <1>2 DEF Handling
<1> HIDE DEF x, next
<1>5. /\ marked \in Seq(Entry) /\ DOMAIN marked = DOMAIN history /\ Len(marked) = Len(history)
      /\ Later(history, marked) /\ marked[next].older = history[next].older
      /\ \A i \in DOMAIN history : marked[i].older = history[i].older
  BY <1>2, IInvFacts, MarkedFields, MarkedIsLater
<1>6. TypeOK /\ OldCart(marked, next) \in Cart
  <2>1. /\ versions \in Seq(Cart) /\ snapshots \in [DOMAIN snapshots -> Cart]
        /\ DOMAIN snapshots \subseteq DOMAIN marked /\ next \in DOMAIN marked
        /\ marked[next].older <= Len(versions)
    BY <1>2, <1>5 DEF IInv, TypeOK, Remembered
  <2> HIDE DEF marked
  <2> QED
    BY <1>5, <2>1, OldCartType DEF IInv
<1> HIDE DEF marked
<1>7. /\ Grown(marked, history', Len(versions))
      /\ \A i \in Added(marked, history') : history'[i].movement = 0
      /\ booking' \in Booking /\ versions' \in Seq(Cart) /\ Len(versions) <= Len(versions')
      /\ held' \in [Vehicles -> Seq(Dates)]
  BY <1>1, <1>2, <1>5, <1>6, Restores
<1>8. Later(history, history')
  BY <1>5, <1>7, GrownIsLater, LaterTwice
<1>9. \A i \in Added(history, history') :
         history'[i].movement = 0 /\ history'[i].older = Len(versions)
  BY <1>5, <1>7 DEF Added, Grown
<1>10. LaterMoves(movements, movements', Len(history))
  BY <1>1, SameMoves
<1>11. Placed(x, history', movements')
  <2>1. Placed(handler[h], history', movements')
    BY <1>2, <1>8, <1>10, PlacedLater
  <2> QED
    BY <1>1, <1>4, <2>1 DEF Placed
<1>12. /\ handler' \in [Handlers -> Handling]
       /\ \A k \in Handlers : Placed(handler'[k], history', movements')
  BY <1>3, <1>4, <1>8, <1>10, <1>11, OneTurns
<1>13. TypeOK'
  BY <1>1, <1>6, <1>7, <1>12 DEF TypeOK, Handling, Booking, Grown
<1>14. Remembered'
  BY <1>1, <1>7, <1>8, <1>9, SnapshotsStay, RememberedLater DEF IInv
<1>15. Linked(history', movements')
  BY <1>1, <1>8, <1>9, LinkedLater DEF IInv
<1> QED
  BY <1>8, <1>12, <1>13, <1>14, <1>15 DEF IInv

LEMMA RestoreKeeps ==
    ASSUME IInv, NEW h \in Handlers, Restore(h)
    PROVE  IInv' /\ Later(history, history')
<1> DEFINE e == handler[h].entry
           x == [handler[h] EXCEPT !.stage = "mark"]
<1>1. /\ handler[h].stage = "restore" /\ handler[h].todo = {}
      /\ handler' = [handler EXCEPT ![h].stage = "mark"]
      /\ commissions' = IF IsExtension(history[e]) THEN commissions \ {e} ELSE commissions
      /\ UNCHANGED <<approved, snapshots, movements, requests>>
      /\ \/ RestoreCart(history, e) \/ RestoreFails(history, e)
         \/ /\ UNCHANGED booking \/ \E soon \in BOOLEAN :
                                       booking' = WithoutDelivery(booking, e = 2 \/ soon)
            /\ UNCHANGED <<history, versions, held>>
  BY DEF Restore
<1>2. /\ handler \in [Handlers -> Handling] /\ handler[h] \in Handling
      /\ Placed(handler[h], history, movements) /\ e \in DOMAIN history
  BY <1>1, HandlingFacts
<1>3. handler' = [handler EXCEPT ![h] = x]
  BY <1>1
<1>4. /\ x \in Handling /\ x.stage = "mark" /\ x.entry = e
      /\ x.movement = handler[h].movement /\ x.todo = handler[h].todo
  BY <1>1, <1>2 DEF Handling
<1> HIDE DEF x, e
<1>5. /\ Grown(history, history', Len(versions))
      /\ \A i \in Added(history, history') : history'[i].movement = 0
      /\ booking' \in Booking /\ versions' \in Seq(Cart) /\ Len(versions) <= Len(versions')
      /\ held' \in [Vehicles -> Seq(Dates)]
  <2>1. TypeOK /\ history \in Seq(Entry) /\ OldCart(history, e) \in Cart
        /\ booking \in Booking
    BY <1>2, IInvFacts DEF IInv, TypeOK, Booking
  <2>2. CASE RestoreCart(history, e) \/ RestoreFails(history, e)
    BY <1>2, <2>1, <2>2, Restores
  <2>3. CASE /\ UNCHANGED booking \/ \E soon \in BOOLEAN :
                                       booking' = WithoutDelivery(booking, e = 2 \/ soon)
             /\ UNCHANGED <<history, versions, held>>
    <3>1. booking' \in Booking
      <4>1. ASSUME NEW soon \in BOOLEAN, booking' = WithoutDelivery(booking, e = 2 \/ soon)
            PROVE  booking' \in Booking
        <5> DEFINE original == e = 2 \/ soon
        <5>1. original \in BOOLEAN
          OBVIOUS
        <5>2. booking' = WithoutDelivery(booking, original)
          BY <4>1
        <5> HIDE DEF original
        <5> QED
          BY <2>1, <5>1, <5>2, WithoutDeliveryType DEF Booking
      <4> QED
        BY <2>1, <2>3, <4>1
    <3>2. Grown(history, history', Len(versions)) /\ Added(history, history') = {}
      BY <2>1, <2>3, IInvFacts DEF Grown, Added
    <3> QED
      BY <2>1, <2>3, <3>1, <3>2, IInvFacts DEF TypeOK
  <2> QED
    BY <1>1, <2>2, <2>3
<1>6. Later(history, history')
  BY <1>5, IInvFacts, GrownIsLater
<1>7. \A i \in Added(history, history') :
         history'[i].movement = 0 /\ history'[i].older = Len(versions)
  BY <1>5 DEF Grown
<1>8. LaterMoves(movements, movements', Len(history))
  BY <1>1, SameMoves
<1>9. Placed(x, history', movements')
  <2>1. Placed(handler[h], history', movements')
    BY <1>2, <1>6, <1>8, PlacedLater
  <2> QED
    BY <1>1, <1>4, <2>1 DEF Placed, e
<1>10. /\ handler' \in [Handlers -> Handling]
       /\ \A k \in Handlers : Placed(handler'[k], history', movements')
  BY <1>3, <1>4, <1>6, <1>8, <1>9, OneTurns
<1>11. commissions' \subseteq Nat
  BY <1>1 DEF IInv, TypeOK
<1>12. TypeOK'
  BY <1>1, <1>5, <1>10, <1>11 DEF IInv, TypeOK, Handling, Booking, Grown
<1>13. Remembered'
  BY <1>1, <1>5, <1>6, <1>7, SnapshotsStay, RememberedLater DEF IInv
<1>14. Linked(history', movements')
  BY <1>1, <1>6, <1>7, LinkedLater DEF IInv
<1> QED
  BY <1>6, <1>10, <1>12, <1>13, <1>14 DEF IInv

\* Movements that are changed in place are a sequence still.
LEMMA MovementsType ==
    ASSUME NEW moves \in Seq([entry : Nat, amount : Int, deleted : BOOLEAN]),
           NEW later, DOMAIN later = DOMAIN moves, later = [m \in DOMAIN moves |-> later[m]],
           \A m \in DOMAIN moves : later[m] \in [entry : Nat, amount : Int, deleted : BOOLEAN]
    PROVE  later \in Seq([entry : Nat, amount : Int, deleted : BOOLEAN])
<1>1. DOMAIN moves = 1 .. Len(moves) /\ Len(moves) \in Nat
  BY LenProperties
<1> QED
  BY <1>1

LEMMA UnlinkKeeps ==
    ASSUME IInv, NEW h \in Handlers, Unlink(h)
    PROVE  IInv' /\ Later(history, history')
<1> DEFINE e == handler[h].entry
           own == history[e].movement
           found == handler[h].movement
<1>1. /\ handler[h].stage = "unlink"
      /\ movements' = [m \in DOMAIN movements |->
                         IF m \in {own, found}
                         THEN [movements[m] EXCEPT !.deleted = TRUE] ELSE movements[m]]
      /\ snapshots' = [i \in DOMAIN snapshots \ {e} |-> snapshots[i]]
      /\ handler' = [handler EXCEPT ![h] = Idle]
      /\ UNCHANGED <<booking, approved, history, versions, held, commissions, requests, past>>
  BY DEF Unlink
<1>2. /\ e \in DOMAIN history /\ Placed(handler[h], history, movements)
      /\ history[e].deleted
  BY <1>1, HandlingFacts DEF Placed
<1>3. \A m \in DOMAIN movements :
         /\ m \in DOMAIN movements'
         /\ movements'[m] \in [entry : Nat, amount : Int, deleted : BOOLEAN]
         /\ movements'[m].entry = movements[m].entry
         /\ m \notin {own, found} => movements'[m] = movements[m]
  <2>1. \A m \in DOMAIN movements :
           /\ movements[m] \in [entry : Nat, amount : Int, deleted : BOOLEAN]
           /\ [movements[m] EXCEPT !.deleted = TRUE]
                \in [entry : Nat, amount : Int, deleted : BOOLEAN]
           /\ [movements[m] EXCEPT !.deleted = TRUE].entry = movements[m].entry
    BY IInvFacts
  <2> QED
    BY <1>1, <2>1
<1>4. \A m \in DOMAIN movements : m \in {own, found} => movements[m].entry = e
  BY <1>1, <1>2, IInvFacts DEF IInv, Linked, Placed
<1>5. /\ DOMAIN movements' = DOMAIN movements
      /\ movements' \in Seq([entry : Nat, amount : Int, deleted : BOOLEAN])
  <2>1. DOMAIN movements' = DOMAIN movements
        /\ movements' = [m \in DOMAIN movements |-> movements'[m]]
    BY <1>1
  <2> QED
    BY <1>3, <2>1, IInvFacts, MovementsType
<1> HIDE DEF e, own, found
<1>6. Linked(history', movements')
  <2>1. \A m \in DOMAIN movements :
          /\ movements'[m].entry = movements[m].entry
          /\ movements'[m].deleted => movements[m].deleted \/ history[movements[m].entry].deleted
    BY <1>2, <1>3, <1>4
  <2> QED
    BY <1>1, <1>5, <2>1, LinkedMoves DEF IInv
<1>7. Idle \in Handling /\ Placed(Idle, history', movements')
  BY DEF Idle, Handling, Placed
<1>8. Later(history, history') /\ LaterMoves(movements, movements', Len(history))
  BY <1>1, <1>3, <1>5, IInvFacts, SameIsLater DEF LaterMoves
<1>9. /\ handler' \in [Handlers -> Handling]
      /\ \A k \in Handlers : Placed(handler'[k], history', movements')
  BY <1>1, <1>7, <1>8, OneTurns
<1>10. /\ snapshots' \in [DOMAIN snapshots' -> Cart] /\ DOMAIN snapshots' \subseteq DOMAIN history
  <2>1. snapshots \in [DOMAIN snapshots -> Cart] /\ DOMAIN snapshots \subseteq DOMAIN history
    BY DEF IInv, TypeOK, Remembered
  <2> QED
    BY <1>1, <2>1
<1>11. TypeOK'
  BY <1>1, <1>5, <1>9, <1>10 DEF IInv, TypeOK, Handling
<1>12. Remembered'
  BY <1>1, <1>10 DEF IInv, Remembered
<1> QED
  BY <1>6, <1>8, <1>9, <1>11, <1>12 DEF IInv

LEMMA DeleteMovementKeeps ==
    ASSUME IInv, NEW m \in DOMAIN movements, DeleteMovement(m)
    PROVE  IInv' /\ Later(history, history')
<1> DEFINE e == movements[m].entry
<1>1. /\ requests' \in 0 .. MaxRequests
      /\ UNCHANGED <<booking, approved, versions, snapshots, held, commissions, handler>>
  BY ServeType DEF DeleteMovement, IInv
<1>2. CASE UNCHANGED <<history, movements>>
  BY <1>1, <1>2, NothingKeeps
<1>3. CASE /\ movements' = [movements EXCEPT ![m].deleted = TRUE]
           /\ history' = MarkDeleted(history, e)
  <2>1. /\ e \in DOMAIN history /\ history \in Seq(Entry)
        /\ movements \in Seq([entry : Nat, amount : Int, deleted : BOOLEAN])
        /\ \A n \in DOMAIN movements :
             movements[n] \in [entry : Nat, amount : Int, deleted : BOOLEAN]
    BY IInvFacts
  <2> HIDE DEF e
  <2>2. /\ Later(history, history') /\ history' \in Seq(Entry) /\ DOMAIN history' = DOMAIN history
        /\ history'[e].deleted
    BY <1>3, <2>1, MarkedFields, MarkedIsLater
  <2>3. /\ DOMAIN movements' = DOMAIN movements
        /\ \A n \in DOMAIN movements :
             /\ movements'[n] \in [entry : Nat, amount : Int, deleted : BOOLEAN]
             /\ movements'[n].entry = movements[n].entry
             /\ n # m => movements'[n] = movements[n]
    BY <1>3, <2>1
  <2>4. movements' \in Seq([entry : Nat, amount : Int, deleted : BOOLEAN])
    <3>1. movements' = [n \in DOMAIN movements |-> movements'[n]]
      BY <1>3
    <3> QED
      BY <2>1, <2>3, <3>1, MovementsType
  <2>5. Added(history, history') = {}
    BY <2>2 DEF Added
  <2>6. Linked(history', movements)
    BY <2>2, <2>5, LinkedLater DEF IInv
  <2>7. Linked(history', movements')
    <3>1. \A n \in DOMAIN movements :
            /\ movements'[n].entry = movements[n].entry
            /\ movements'[n].deleted => \/ movements[n].deleted
                                        \/ history'[movements[n].entry].deleted
      BY <2>2, <2>3 DEF e
    <3> QED
      BY <2>3, <2>6, <3>1, LinkedMoves
  <2>8. LaterMoves(movements, movements', Len(history))
    BY <2>3 DEF LaterMoves
  <2>9. \A k \in Handlers : Placed(handler'[k], history', movements')
    BY <1>1, <2>2, <2>8, PlacedLater DEF IInv
  <2>10. TypeOK'
    BY <1>1, <2>2, <2>4 DEF IInv, TypeOK
  <2>11. Remembered'
    BY <1>1, <2>2, <2>5, IInvFacts, SnapshotsStay, RememberedLater DEF IInv
  <2> QED
    BY <2>2, <2>7, <2>9, <2>10, <2>11 DEF IInv
<1> QED
  BY <1>2, <1>3 DEF DeleteMovement

LEMMA RestoreMovementKeeps ==
    ASSUME IInv, NEW m \in DOMAIN movements, RestoreMovement(m)
    PROVE  IInv' /\ Later(history, history')
<1>1. /\ requests' \in 0 .. MaxRequests
      /\ UNCHANGED <<booking, approved, history, versions, snapshots, held, commissions,
                     handler>>
  BY ServeType DEF RestoreMovement, IInv
<1>2. CASE UNCHANGED movements
  BY <1>1, <1>2, NothingKeeps
<1>3. CASE movements' = [movements EXCEPT ![m].deleted = FALSE]
  <2>1. /\ movements \in Seq([entry : Nat, amount : Int, deleted : BOOLEAN])
        /\ \A n \in DOMAIN movements :
             movements[n] \in [entry : Nat, amount : Int, deleted : BOOLEAN]
    BY IInvFacts
  <2>2. /\ DOMAIN movements' = DOMAIN movements
        /\ \A n \in DOMAIN movements :
             /\ movements'[n] \in [entry : Nat, amount : Int, deleted : BOOLEAN]
             /\ movements'[n].entry = movements[n].entry
             /\ movements'[n].deleted => movements[n].deleted
    BY <1>3, <2>1
  <2>3. movements' \in Seq([entry : Nat, amount : Int, deleted : BOOLEAN])
    <3>1. movements' = [n \in DOMAIN movements |-> movements'[n]]
      BY <1>3
    <3> QED
      BY <2>1, <2>2, <3>1, MovementsType
  <2>4. Linked(history', movements')
    BY <1>1, <2>2, LinkedMoves DEF IInv
  <2>5. Later(history, history') /\ LaterMoves(movements, movements', Len(history))
    BY <1>1, <2>2, IInvFacts, SameIsLater DEF LaterMoves
  <2>6. \A k \in Handlers : Placed(handler'[k], history', movements')
    BY <1>1, <2>5, PlacedLater DEF IInv
  <2>7. TypeOK' /\ Remembered'
    BY <1>1, <2>3 DEF IInv, TypeOK, Remembered
  <2> QED
    BY <2>4, <2>5, <2>6, <2>7 DEF IInv
<1> QED
  BY <1>2, <1>3 DEF RestoreMovement

\* An event adds its entry, or two; one of them may have the next movement.
LEMMA ReportAdds ==
    ASSUME TypeOK, NEW r \in Reports, ReportEvent(r)
    PROVE  /\ Grown(history, history', Len(versions))
           /\ Len(history) + 1 \in Added(history, history')
           /\ \A i \in Added(history, history') :
                /\ history'[i].sets = NoCart /\ history'[i].action # "BOOKING_MODIFIED"
                /\ history'[i].movement # 0 =>
                     /\ i = Len(history) + 1
                     /\ history'[i].movement = Len(movements) + 1
                     /\ movements' # movements
           /\ \/ movements' = movements
              \/ movements' = Append(movements, [entry |-> Len(history) + 1,
                                                 amount |-> r.amount, deleted |-> FALSE])
           /\ booking' \in Booking /\ booking'.cart = booking.cart
<1> DEFINE entry == [Note(r.event, r.amount) EXCEPT !.vehicle = r.vehicle]
           linked == [entry EXCEPT !.movement = Len(movements) + 1]
           movement == [entry |-> Len(history) + 1, amount |-> r.amount, deleted |-> FALSE]
<1>0. /\ history \in Seq(Entry) /\ Len(history) \in Nat /\ DOMAIN history = 1 .. Len(history)
      /\ Len(movements) \in Nat /\ versions \in Seq(Cart) /\ booking \in Booking
      /\ r.event \in Events /\ r.amount \in Int /\ r.vehicle \in Vehicles \cup {"none"}
      /\ movements \in Seq([entry : Nat, amount : Int, deleted : BOOLEAN])
  <2>1. r \in ReportBody
    BY ConstantsAssumption
  <2> QED
    BY <2>1, LenProperties DEF TypeOK, Booking, ReportBody
<1>1. /\ \/ history' = Append(history, linked) /\ movements' = Append(movements, movement)
         \/ history' = history \o <<entry, entry>>
              /\ movements' \in {movements, Append(movements, movement)}
         \/ history' = Append(history, entry)
              /\ movements' \in {movements, Append(movements, movement)}
      /\ \/ booking' = Discounted(booking, r.amount)
         \/ booking' = Discounted(Discounted(booking, r.amount), r.amount)
  BY DEF ReportEvent
<1>2. /\ entry \in Entry /\ entry.sets = NoCart /\ entry.action = "NOTE_ADDED"
      /\ entry.deleted = FALSE /\ entry.movement = 0 /\ entry.older = Len(versions)
  <2> DEFINE note == Note(r.event, r.amount)
  <2>1. /\ note \in Entry /\ note.sets = NoCart /\ note.action = "NOTE_ADDED"
        /\ note.deleted = FALSE /\ note.movement = 0 /\ note.older = Len(versions)
    BY <1>0, NoteFields, Zenon
  <2>2. entry = [note EXCEPT !.vehicle = r.vehicle]
    OBVIOUS
  <2> HIDE DEF note
  <2> QED
    BY <1>0, <2>1, <2>2 DEF Entry
<1> HIDE DEF entry
<1>3. /\ linked \in Entry /\ linked.sets = NoCart /\ linked.action = "NOTE_ADDED"
      /\ linked.deleted = FALSE /\ linked.movement = Len(movements) + 1
      /\ linked.older = Len(versions)
  <2>1. ASSUME NEW x \in Entry, NEW n \in Nat
        PROVE  LET y == [x EXCEPT !.movement = n]
               IN  /\ y \in Entry /\ y.movement = n
                   /\ y.sets = x.sets /\ y.action = x.action /\ y.deleted = x.deleted
                   /\ y.older = x.older
    BY DEF Entry
  <2>2. Len(movements) + 1 \in Nat
    BY <1>0
  <2> QED
    BY <1>2, <2>1, <2>2
<1> HIDE DEF linked, movement
<1>4. Append(movements, movement) # movements
  <2>1. Append(movements, movement) = Append(movements, movement)
    OBVIOUS
  <2>2. movement \in [entry : Nat, amount : Int, deleted : BOOLEAN]
    BY <1>0 DEF movement
  <2>3. Len(Append(movements, movement)) = Len(movements) + 1
    BY <1>0, <2>2, AppendProperties
  <2> QED
    BY <1>0, <2>3
<1>5. booking' \in Booking /\ booking'.cart = booking.cart
  <2> DEFINE once == Discounted(booking, r.amount)
  <2>1. once \in Booking /\ once.cart = booking.cart
    BY <1>0, DiscountedType DEF Booking
  <2> HIDE DEF once
  <2>2. Discounted(once, r.amount) \in Booking /\ Discounted(once, r.amount).cart = booking.cart
    BY <1>0, <2>1, DiscountedType DEF Booking
  <2> QED
    BY <1>1, <2>1, <2>2 DEF once
<1>6. ASSUME NEW x \in Entry, ~x.deleted, x.older = Len(versions), history' = Append(history, x)
      PROVE  /\ Grown(history, history', Len(versions))
             /\ Added(history, history') = {Len(history) + 1}
             /\ history'[Len(history) + 1] = x
  <2>1. /\ history' \in Seq(Entry) /\ Len(history') = Len(history) + 1
        /\ \A i \in 1 .. Len(history) : history'[i] = history[i]
        /\ history'[Len(history) + 1] = x
    BY <1>0, <1>6, AppendProperties
  <2>2. DOMAIN history' = 1 .. Len(history) + 1
    BY <2>1, LenProperties
  <2>3. Added(history, history') = {Len(history) + 1}
    BY <1>0, <2>2 DEF Added
  <2> QED
    BY <1>0, <1>6, <2>1, <2>2, <2>3 DEF Grown
<1>7. CASE history' = Append(history, linked) /\ movements' = Append(movements, movement)
  <2>1. /\ Grown(history, history', Len(versions))
        /\ Added(history, history') = {Len(history) + 1}
        /\ history'[Len(history) + 1] = linked
    BY <1>3, <1>6, <1>7
  <2> QED
    BY <1>3, <1>4, <1>5, <1>7, <2>1 DEF movement
<1>8. CASE history' = Append(history, entry)
             /\ movements' \in {movements, Append(movements, movement)}
  <2>1. /\ Grown(history, history', Len(versions))
        /\ Added(history, history') = {Len(history) + 1}
        /\ history'[Len(history) + 1] = entry
    BY <1>2, <1>6, <1>8
  <2> QED
    BY <1>2, <1>5, <1>8, <2>1 DEF movement
<1>9. CASE history' = history \o <<entry, entry>>
             /\ movements' \in {movements, Append(movements, movement)}
  <2> DEFINE two == <<entry, entry>>
  <2>1. two \in Seq(Entry) /\ Len(two) = 2 /\ \A i \in 1 .. 2 : two[i] = entry
    BY <1>2
  <2>2. history' = history \o two
    BY <1>9
  <2> HIDE DEF two
  <2>3. /\ history' \in Seq(Entry) /\ Len(history') = Len(history) + 2
        /\ \A i \in 1 .. Len(history) + 2 :
             history'[i] = IF i <= Len(history) THEN history[i] ELSE two[i - Len(history)]
    <3>1. /\ history \o two \in Seq(Entry) /\ Len(history \o two) = Len(history) + Len(two)
          /\ \A i \in 1 .. Len(history) + Len(two) :
               (history \o two)[i] = IF i <= Len(history) THEN history[i]
                                     ELSE two[i - Len(history)]
      BY <1>0, <2>1, ConcatProperties
    <3> QED
      BY <2>1, <2>2, <3>1
  <2>4. DOMAIN history' = 1 .. Len(history) + 2
    BY <2>3, LenProperties
  <2>5. \A i \in Added(history, history') : i > Len(history) /\ history'[i] = entry
    BY <1>0, <2>1, <2>3, <2>4 DEF Added
  <2>6. Len(history) + 1 \in Added(history, history')
    BY <1>0, <2>4 DEF Added
  <2>7. Grown(history, history', Len(versions))
    BY <1>0, <1>2, <2>3, <2>4, <2>5 DEF Grown
  <2> QED
    BY <1>2, <1>5, <1>9, <2>5, <2>6, <2>7 DEF movement
<1> QED
  BY <1>1, <1>7, <1>8, <1>9

LEMMA ReportKeeps ==
    ASSUME IInv, NEW r \in Reports, ReportEvent(r)
    PROVE  IInv' /\ Later(history, history')
<1> DEFINE movement == [entry |-> Len(history) + 1, amount |-> r.amount, deleted |-> FALSE]
           place == Len(history) + 1
           next == Len(movements) + 1
<1>1. /\ UNCHANGED <<approved, versions, snapshots, held, commissions, handler>>
      /\ requests' \in 0 .. MaxRequests
  BY ServeType DEF ReportEvent, IInv
<1>2. /\ Grown(history, history', Len(versions))
      /\ place \in Added(history, history')
      /\ \A i \in Added(history, history') :
           history'[i].movement # 0 =>
             i = place /\ history'[i].movement = next /\ movements' # movements
      /\ movements' = movements \/ movements' = Append(movements, movement)
      /\ booking' \in Booking
  BY ReportAdds DEF IInv
<1>3. Later(history, history') /\ history' \in Seq(Entry)
  BY <1>2, IInvFacts, GrownIsLater DEF Grown
<1>4. movement \in [entry : Nat, amount : Int, deleted : BOOLEAN] /\ movement.entry = place
      /\ movement.deleted = FALSE
  <2>1. r \in ReportBody
    BY ConstantsAssumption
  <2> QED
    BY <2>1, IInvFacts DEF ReportBody
<1> HIDE DEF movement
<1>5. /\ movements' \in Seq([entry : Nat, amount : Int, deleted : BOOLEAN])
      /\ \A m \in DOMAIN movements : m \in DOMAIN movements' /\ movements'[m] = movements[m]
      /\ \A m \in DOMAIN movements' \ DOMAIN movements :
           m = next /\ movements'[m] = movement
      /\ movements' # movements => next \in DOMAIN movements' /\ movements'[next] = movement
  <2>1. CASE movements' = movements
    BY <2>1, IInvFacts
  <2>2. CASE movements' = Append(movements, movement)
    <3>1. /\ movements' \in Seq([entry : Nat, amount : Int, deleted : BOOLEAN])
          /\ Len(movements') = Len(movements) + 1
          /\ \A m \in 1 .. Len(movements) : movements'[m] = movements[m]
          /\ movements'[Len(movements) + 1] = movement
      BY <1>4, <2>2, IInvFacts, AppendProperties
    <3>2. DOMAIN movements' = 1 .. Len(movements) + 1
      BY <3>1, LenProperties
    <3> QED
      BY <3>1, <3>2, IInvFacts
  <2> QED
    BY <1>2, <2>1, <2>2
<1>6. /\ place \in DOMAIN history' /\ place > Len(history) /\ place \notin DOMAIN history
      /\ \A e \in DOMAIN history : e # place
      /\ next \notin DOMAIN movements
  BY <1>2, IInvFacts DEF Added
<1>7. Linked(history', movements')
  <2>1. \A m \in DOMAIN movements' :
          /\ movements'[m].entry \in DOMAIN history'
          /\ movements'[m].deleted => history'[movements'[m].entry].deleted
    <3> TAKE m \in DOMAIN movements'
    <3>1. CASE m \in DOMAIN movements
      <4>1. movements'[m] = movements[m]
        BY <1>5, <3>1
      <4>2. /\ movements[m].entry \in DOMAIN history
            /\ movements[m].deleted => history[movements[m].entry].deleted
        BY <3>1 DEF IInv, Linked
      <4> QED
        BY <1>3, <4>1, <4>2 DEF Later
    <3>2. CASE m \notin DOMAIN movements
      BY <1>4, <1>5, <1>6, <3>2
    <3> QED
      BY <3>1, <3>2
  <2>2. \A m, n \in DOMAIN movements' : movements'[m].entry = movements'[n].entry => m = n
    <3>1. \A m \in DOMAIN movements : movements[m].entry \in DOMAIN history
      BY DEF IInv, Linked
    <3>2. \A m, n \in DOMAIN movements : movements[m].entry = movements[n].entry => m = n
      BY DEF IInv, Linked
    <3> TAKE m, n \in DOMAIN movements'
    <3> HAVE movements'[m].entry = movements'[n].entry
    <3>3. \A k \in DOMAIN movements' :
            \/ /\ k \in DOMAIN movements /\ movements'[k].entry = movements[k].entry
               /\ movements'[k].entry # place
            \/ k = next /\ movements'[k].entry = place
      BY <1>4, <1>5, <1>6, <3>1
    <3> QED
      BY <3>2, <3>3
  <2>3. \A e \in DOMAIN history' :
          history'[e].movement # 0 =>
            /\ history'[e].movement \in DOMAIN movements'
            /\ movements'[history'[e].movement].entry = e
    <3> TAKE e \in DOMAIN history'
    <3> HAVE history'[e].movement # 0
    <3>1. CASE e \in DOMAIN history
      <4>1. history'[e].movement = history[e].movement
        BY <1>3, <3>1 DEF Later
      <4>2. /\ history[e].movement \in DOMAIN movements
            /\ movements[history[e].movement].entry = e
        BY <3>1, <4>1 DEF IInv, Linked
      <4> QED
        BY <1>5, <4>1, <4>2
    <3>2. CASE e \notin DOMAIN history
      <4>1. e = place /\ history'[e].movement = next /\ movements' # movements
        BY <1>2, <3>2 DEF Added
      <4> QED
        BY <1>4, <1>5, <4>1
    <3> QED
      BY <3>1, <3>2
  <2> QED
    BY <2>1, <2>2, <2>3 DEF Linked
<1>8. LaterMoves(movements, movements', Len(history))
  BY <1>4, <1>5, <1>6 DEF LaterMoves
<1>9. \A k \in Handlers : Placed(handler'[k], history', movements')
  BY <1>1, <1>3, <1>8, PlacedLater DEF IInv
<1>10. TypeOK'
  BY <1>1, <1>2, <1>3, <1>5 DEF IInv, TypeOK, Booking
<1>11. Remembered'
  <2>1. \A i \in Added(history, history') : history'[i].older = Len(versions)
    BY <1>2 DEF Grown
  <2> QED
    BY <1>1, <1>3, <2>1, IInvFacts, SnapshotsStay, RememberedLater DEF IInv
<1> QED
  BY <1>3, <1>7, <1>9, <1>10, <1>11 DEF IInv

LEMMA RestoreEntryKeeps ==
    ASSUME IInv, NEW e \in DOMAIN history, RestoreEntry(e)
    PROVE  IInv' /\ Later(history, history')
BY NothingKeeps, ServeType DEF RestoreEntry, IInv

LEMMA NextKeeps ==
    ASSUME IInv, [Next]_vars
    PROVE  IInv' /\ Later(history, history')
<1>1. CASE CreateContract
  BY <1>1, CreateKeeps
<1>2. CASE \E u \in Updates : Update(u)
  BY <1>2, UpdateKeeps
<1>3. CASE \E r \in Reports : ReportEvent(r)
  BY <1>3, ReportKeeps
<1>4. CASE \E h \in Handlers, e \in DOMAIN history : StartDelete(h, e)
  BY <1>4, StartKeeps
<1>5. CASE \E h \in Handlers : Handle(h) \/ Abort(h)
  BY <1>5, CascadeKeeps, RestoreKeeps, MarkKeeps, UnlinkKeeps, AbortKeeps DEF Handle
<1>6. CASE \E m \in DOMAIN movements : DeleteMovement(m) \/ RestoreMovement(m)
  BY <1>6, DeleteMovementKeeps, RestoreMovementKeeps
<1>7. CASE \E e \in DOMAIN history : RestoreEntry(e)
  BY <1>7, RestoreEntryKeeps
<1>8. CASE UNCHANGED vars
  <2>1. requests' \in 0 .. MaxRequests
    BY <1>8 DEF vars, IInv, TypeOK
  <2> QED
    BY <1>8, <2>1, NothingKeeps DEF vars
<1> QED
  BY <1>1, <1>2, <1>3, <1>4, <1>5, <1>6, <1>7, <1>8 DEF Next

\* Whatever runs at once and wherever it is killed: what is stored has its type, entries
\* and movements name each other, no movement is deleted whose entry stands, and a
\* deletion has the movement of its entry (deleteHistoryWithMovement).
THEOREM LinksHold == Spec => []IInv
<1>1. IInv /\ [Next]_vars => IInv'
  BY NextKeeps
<1> QED
  BY InitHolds, <1>1, PTL DEF Spec

\* The timeline, the carts, the reservations and the movements have their types.
THEOREM TypesHold == Spec => []TypeOK
<1>1. IInv => TypeOK
  BY DEF IInv
<1> QED
  BY LinksHold, <1>1, PTL

\* The timeline is a record: no step takes an entry back, changes what it says or brings
\* a deleted one back (contract_history, softDeleteHistoryEntry, restoreHistoryEntry).
THEOREM TimelineIsRecord == Spec => TimelineOnlyGrows
<1>1. ASSUME IInv, [Next]_vars
      PROVE  /\ Len(history) <= Len(history')
             /\ \A e \in DOMAIN history :
                  /\ Records(history[e], history'[e])
                  /\ history[e].deleted => history'[e].deleted
  <2>1. Later(history, history')
    BY <1>1, NextKeeps
  <2>2. ASSUME NEW old \in Entry, NEW new \in Entry,
               new.action = old.action, new.event = old.event, new.amount = old.amount,
               new.older = old.older, new.cart = old.cart, new.sets = old.sets,
               new.vehicle = old.vehicle
        PROVE  Records(old, new)
    BY <2>2 DEF Records, Entry
  <2>3. ASSUME NEW e \in DOMAIN history
        PROVE  Records(history[e], history'[e])
    <3>1. history[e] \in Entry /\ history'[e] \in Entry
      BY <2>1, EntryAt DEF Later
    <3> QED
      BY <2>1, <2>2, <3>1 DEF Later
  <2> QED
    BY <2>1, <2>3 DEF Later
<1>2. IInv /\ [Next]_vars =>
        [/\ Len(history) <= Len(history')
         /\ \A e \in DOMAIN history :
              /\ Records(history[e], history'[e])
              /\ history[e].deleted => history'[e].deleted]_vars
  BY <1>1
<1> QED
  BY LinksHold, <1>2, PTL DEF Spec, TimelineOnlyGrows
-----------------------------------------------------------------------------
(* What happened is not forgotten. *)

\* What has happened is not forgotten.
LEMMA PastGrows ==
    ASSUME [Next]_vars
    PROVE  past \subseteq past'
<1>1. CASE \E u \in Updates : Update(u)
  <2>1. PICK u \in Updates : Update(u)
    BY <1>1
  <2>2. \/ past' = past \/ \E charge \in BOOLEAN : ApplyUpdate(u, charge)
    BY <2>1 DEF Update
  <2> QED
    BY <2>2, UpdateWrites
<1>2. CASE \E r \in Reports : ReportEvent(r)
  BY <1>2 DEF ReportEvent
<1>3. CASE \E h \in Handlers, e \in DOMAIN history : StartDelete(h, e)
  BY <1>3 DEF StartDelete
<1>4. CASE \E h \in Handlers : Handle(h) \/ Abort(h)
  BY <1>4 DEF Handle, Abort, Cascade, Restore, Mark, Unlink
<1>5. CASE \E m \in DOMAIN movements : DeleteMovement(m) \/ RestoreMovement(m)
  BY <1>5 DEF DeleteMovement, RestoreMovement
<1>6. CASE CreateContract \/ (\E e \in DOMAIN history : RestoreEntry(e)) \/ UNCHANGED vars
  BY <1>6 DEF CreateContract, RestoreEntry, vars
<1> QED
  BY <1>1, <1>2, <1>3, <1>4, <1>5, <1>6 DEF Next

\* What has never happened had not happened before either.
LEMMA NeverBefore ==
    ASSUME [Next]_vars, NEW things, Never(things)'
    PROVE  Never(things)
BY PastGrows DEF Never

\* A change of the contract or an event that is reported while an entry is being deleted
\* is remembered.
LEMMA UpdateStep ==
    ASSUME IInv, NEW u \in Updates, Update(u)
    PROVE  /\ handler' = handler /\ movements' = movements
           /\ \/ /\ UNCHANGED <<booking, history, versions, snapshots, held, commissions, past>>
              \/ \E charge \in BOOLEAN :
                   /\ ApplyUpdate(u, charge)
                   /\ Grown(history, history', Len(versions))
                   /\ Overlapping \subseteq past'
<1>1. TypeOK
  BY DEF IInv
<1>2. \A charge \in BOOLEAN : ApplyUpdate(u, charge) =>
        Grown(history, history', Len(versions)) /\ Overlapping \subseteq past'
  <2> TAKE charge \in BOOLEAN
  <2> HAVE ApplyUpdate(u, charge)
  <2>1. past \cup Overlapping \subseteq past'
    BY UpdateWrites
  <2> QED
    BY <1>1, <2>1, UpdateAdds
<1>3. PICK today \in BOOLEAN :
        LET duplicate == today /\ IsCharge(u) /\ ~u.confirmed /\ Duplicates(u) # {}
        IN  \/ UNCHANGED <<booking, history, versions, snapshots, held, commissions, past>>
            \/ ApplyUpdate(u, IsCharge(u) /\ ~duplicate)
  BY DEF Update
<1> DEFINE charge == IsCharge(u) /\ ~(today /\ IsCharge(u) /\ ~u.confirmed
                                      /\ Duplicates(u) # {})
<1>4. charge \in BOOLEAN
  OBVIOUS
<1>5. \/ UNCHANGED <<booking, history, versions, snapshots, held, commissions, past>>
      \/ ApplyUpdate(u, charge)
  BY <1>3
<1>6. handler' = handler /\ movements' = movements
  BY DEF Update
<1> HIDE DEF charge
<1> QED
  BY <1>2, <1>4, <1>5, <1>6

\* An event that is reported while an entry is being deleted is remembered.
LEMMA ReportStep ==
    ASSUME IInv, NEW r \in Reports, ReportEvent(r)
    PROVE  /\ handler' = handler
           /\ UNCHANGED <<versions, snapshots, held, commissions>>
           /\ Grown(history, history', Len(versions))
           /\ Overlapping \subseteq past'
           /\ \/ movements' = movements
              \/ \E amount \in Int :
                   movements' = Append(movements, [entry |-> Len(history) + 1,
                                                   amount |-> amount, deleted |-> FALSE])
<1>1. Grown(history, history', Len(versions)) /\ TypeOK
  BY ReportAdds DEF IInv
<1>2. Overlapping \subseteq past' /\ handler' = handler
      /\ UNCHANGED <<versions, snapshots, held, commissions>>
  BY DEF ReportEvent
<1>3. r.amount \in Int
  BY ConstantsAssumption DEF ReportBody
<1>4. \/ movements' = movements
      \/ movements' = Append(movements, [entry |-> Len(history) + 1,
                                         amount |-> r.amount, deleted |-> FALSE])
  BY <1>1, ReportAdds
<1> QED
  BY <1>1, <1>2, <1>3, <1>4

\* The movements after an event of a report.
LEMMA ReportMoves ==
    ASSUME IInv, NEW r \in Reports, ReportEvent(r)
    PROVE  /\ \A m \in DOMAIN movements : m \in DOMAIN movements' /\ movements'[m] = movements[m]
           /\ \A m \in DOMAIN movements' \ DOMAIN movements :
                /\ movements'[m].entry \in Added(history, history')
                /\ movements'[m].deleted = FALSE
<1>1. Len(history) + 1 \in Added(history, history')
  BY ReportAdds DEF IInv
<1>2. CASE movements' = movements
  BY <1>2
<1>3. ASSUME NEW amount \in Int,
             movements' = Append(movements, [entry |-> Len(history) + 1,
                                             amount |-> amount, deleted |-> FALSE])
      PROVE  /\ \A m \in DOMAIN movements :
                  m \in DOMAIN movements' /\ movements'[m] = movements[m]
             /\ \A m \in DOMAIN movements' \ DOMAIN movements :
                  /\ movements'[m].entry \in Added(history, history')
                  /\ movements'[m].deleted = FALSE
  <2> DEFINE movement == [entry |-> Len(history) + 1, amount |-> amount, deleted |-> FALSE]
  <2>1. /\ movement \in [entry : Nat, amount : Int, deleted : BOOLEAN]
        /\ movement.entry = Len(history) + 1 /\ movement.deleted = FALSE
    BY IInvFacts
  <2>2. movements' = Append(movements, movement)
    BY <1>3
  <2> HIDE DEF movement
  <2>3. /\ movements' \in Seq([entry : Nat, amount : Int, deleted : BOOLEAN])
        /\ Len(movements') = Len(movements) + 1
        /\ \A m \in 1 .. Len(movements) : movements'[m] = movements[m]
        /\ movements'[Len(movements) + 1] = movement
    BY <2>1, <2>2, IInvFacts, AppendProperties
  <2>4. DOMAIN movements' = 1 .. Len(movements) + 1
    BY <2>3, LenProperties
  <2>5. \A m \in DOMAIN movements' \ DOMAIN movements : movements'[m] = movement
    BY <2>3, <2>4, IInvFacts
  <2>6. \A m \in DOMAIN movements : m \in DOMAIN movements' /\ movements'[m] = movements[m]
    BY <2>3, <2>4, IInvFacts
  <2> QED
    BY <1>1, <2>1, <2>5, <2>6
<1> QED
  BY <1>2, <1>3, ReportStep

\* Without an overlap nothing is being deleted when a request is served.
LEMMA NoOverlap ==
    ASSUME IInv, Overlapping \subseteq past', Never({"overlap"})'
    PROVE  \A h \in Handlers : handler[h].stage = "idle"
BY DEF Overlapping, Busy, Never

\* Only a step of the deletion itself, or its death, ends it.
LEMMA DeletionSteps ==
    ASSUME IInv, NEW h \in Handlers, [Next]_vars, handler'[h] # handler[h]
    PROVE  \/ \E e \in DOMAIN history : StartDelete(h, e)
           \/ Handle(h) \/ Abort(h)
<1>0. handler \in [Handlers -> Handling]
  BY DEF IInv, TypeOK, Handling
<1>1. handler' # handler
  OBVIOUS
<1>2. CASE \E k \in Handlers, e \in DOMAIN history : StartDelete(k, e)
  <2>1. PICK k \in Handlers, e \in DOMAIN history : StartDelete(k, e)
    BY <1>2
  <2>2. k # h => handler'[h] = handler[h]
    BY <1>0, <2>1 DEF StartDelete
  <2> QED
    BY <2>1, <2>2
<1>3. CASE \E k \in Handlers : Handle(k) \/ Abort(k)
  <2>1. PICK k \in Handlers : Handle(k) \/ Abort(k)
    BY <1>3
  <2>2. k # h => handler'[h] = handler[h]
    BY <1>0, <2>1 DEF Handle, Abort, Cascade, Restore, Mark, Unlink
  <2> QED
    BY <2>1, <2>2
<1>4. CASE CreateContract \/ (\E u \in Updates : Update(u)) \/ (\E r \in Reports : ReportEvent(r))
           \/ (\E m \in DOMAIN movements : DeleteMovement(m) \/ RestoreMovement(m))
           \/ (\E e \in DOMAIN history : RestoreEntry(e)) \/ UNCHANGED vars
  BY <1>1, <1>4 DEF CreateContract, Update, ReportEvent, DeleteMovement, RestoreMovement,
                    RestoreEntry, vars
<1> QED
  BY <1>2, <1>3, <1>4 DEF Next
-----------------------------------------------------------------------------
(* Deletions are whole. *)

\* What is to fall with an entry waits for its turn.
WholeInv ==
    Never({"overlap"}) =>
        \A h \in Handlers :
            handler[h].stage # "idle" => FallWith(handler[h].entry) \subseteq handler[h].todo

\* Nothing new falls with e unless an extension or a change of vehicle is added.
LEMMA FallsLess ==
    ASSUME IInv, Later(history, history'), NEW e \in DOMAIN history,
           \A i \in Added(history, history') : ~Restorable(history'[i])
    PROVE  /\ FallWith(e)' \subseteq FallWith(e)
           /\ \A i \in FallWith(e)' : ~history'[i].deleted
<1> SUFFICES ASSUME NEW i \in FallWith(e)'
             PROVE  i \in FallWith(e) /\ ~history'[i].deleted
  OBVIOUS
<1>1. /\ i \in DOMAIN history' /\ ~history'[i].deleted /\ i > e
      /\ \/ IsVehicleChange(history'[e]) /\ IsExtension(history'[i])
         \/ IsExtension(history'[e]) /\ IsVehicleChange(history'[i])
  BY DEF FallWith, Live
<1>2. i \in DOMAIN history
  BY <1>1 DEF Added, Restorable
<1>3. ~history[i].deleted
  BY <1>1, <1>2 DEF Later
<1>4. /\ IsVehicleChange(history'[e]) <=> IsVehicleChange(history[e])
      /\ IsExtension(history'[e]) <=> IsExtension(history[e])
      /\ IsVehicleChange(history'[i]) <=> IsVehicleChange(history[i])
      /\ IsExtension(history'[i]) <=> IsExtension(history[i])
  BY <1>2 DEF Later, IsVehicleChange, IsExtension
<1> QED
  BY <1>1, <1>2, <1>3, <1>4 DEF FallWith, Live

\* Steps after which no more is to fall with what is being deleted.
LEMMA WholeStays ==
    ASSUME IInv, WholeInv, [Next]_vars,
           \A i \in Added(history, history') : ~Restorable(history'[i]),
           \A k \in Handlers :
             handler'[k].stage # "idle" =>
               /\ handler[k].stage # "idle" /\ handler'[k].entry = handler[k].entry
               /\ \A i \in handler[k].todo \ handler'[k].todo : history'[i].deleted
    PROVE  WholeInv'
<1> SUFFICES ASSUME Never({"overlap"})', NEW k \in Handlers, handler'[k].stage # "idle"
             PROVE  FallWith(handler[k].entry)' \subseteq handler'[k].todo
  BY DEF WholeInv
<1>1. Never({"overlap"})
  BY NeverBefore
<1>2. handler[k].stage # "idle"
  OBVIOUS
<1>3. FallWith(handler[k].entry) \subseteq handler[k].todo /\ handler[k].entry \in DOMAIN history
  BY <1>1, <1>2, HandlingFacts DEF WholeInv
<1>4. Later(history, history')
  BY NextKeeps
<1>5. /\ FallWith(handler[k].entry)' \subseteq FallWith(handler[k].entry)
      /\ \A i \in FallWith(handler[k].entry)' : ~history'[i].deleted
  BY <1>3, <1>4, FallsLess
<1> QED
  BY <1>3, <1>5

\* Every step keeps what a deletion is still to take with it.
LEMMA WholeNext ==
    ASSUME IInv, WholeInv, [Next]_vars
    PROVE  WholeInv'
<1>0. /\ handler \in [Handlers -> Handling] /\ history \in Seq(Entry)
      /\ DOMAIN history = 1 .. Len(history)
  BY IInvFacts DEF IInv, TypeOK, Handling
<1>1. ASSUME \A k \in Handlers : handler[k].stage = "idle", handler' = handler
      PROVE  WholeInv'
  BY <1>1 DEF WholeInv
<1>2. ASSUME history' = history,
             \A k \in Handlers : handler'[k].stage # "idle" =>
               /\ handler[k].stage # "idle" /\ handler'[k].entry = handler[k].entry
               /\ handler[k].todo \subseteq handler'[k].todo
      PROVE  WholeInv'
  BY <1>2, WholeStays DEF Added
<1>3. CASE CreateContract
  <2>1. DOMAIN history = {} /\ handler' = handler
    BY <1>3 DEF CreateContract
  <2>2. \A k \in Handlers : handler[k].stage = "idle"
    BY <2>1, HandlingFacts
  <2> QED
    BY <1>1, <2>1, <2>2
<1>4. ASSUME NEW u \in Updates, Update(u)
      PROVE  WholeInv'
  <2>1. CASE history' = history
    BY <1>2, <1>4, <2>1, UpdateStep
  <2>2. CASE Overlapping \subseteq past'
    BY <1>1, <1>4, <2>2, UpdateStep, NoOverlap DEF WholeInv
  <2> QED
    BY <1>4, <2>1, <2>2, UpdateStep
<1>5. ASSUME NEW r \in Reports, ReportEvent(r)
      PROVE  WholeInv'
  BY <1>1, <1>5, ReportStep, NoOverlap DEF WholeInv
<1>6. ASSUME NEW h \in Handlers, NEW e \in DOMAIN history, StartDelete(h, e)
      PROVE  WholeInv'
  <2>1. history' = history
    BY <1>6 DEF StartDelete
  <2>2. CASE handler' = handler
    BY <1>2, <2>1, <2>2
  <2>3. CASE handler' = [handler EXCEPT ![h] = [stage |-> "restore", entry |-> e,
                           movement |-> MovementOf(e), todo |-> FallWith(e)]]
    <3> SUFFICES ASSUME Never({"overlap"})', NEW k \in Handlers, handler'[k].stage # "idle"
                 PROVE  FallWith(handler[k].entry)' \subseteq handler'[k].todo
      BY DEF WholeInv
    <3>1. Never({"overlap"})
      BY NeverBefore
    <3>2. CASE k = h
      <4>1. handler'[k].entry = e /\ handler'[k].todo = FallWith(e)
        BY <1>0, <2>3, <3>2
      <4> QED
        BY <2>1, <4>1 DEF FallWith, Live
    <3>3. CASE k # h
      <4>1. handler'[k] = handler[k]
        BY <1>0, <2>3, <3>3
      <4> QED
        BY <2>1, <3>1, <4>1 DEF WholeInv, FallWith, Live
    <3> QED
      BY <3>2, <3>3
  <2> QED
    BY <1>6, <2>2, <2>3 DEF StartDelete
<1>7. ASSUME NEW h \in Handlers, Cascade(h)
      PROVE  WholeInv'
  <2> DEFINE next == Min(handler[h].todo)
             marked == MarkDeleted(history, next)
  <2>1. /\ handler[h].stage = "restore" /\ handler[h].todo # {}
        /\ RestoreCart(marked, next) \/ RestoreFails(marked, next)
        /\ handler' = [handler EXCEPT ![h].todo = @ \ {next}]
    BY <1>7 DEF Cascade
  <2>2. next \in DOMAIN history
    BY <2>1, HandlingFacts
  <2> HIDE DEF next
  <2>3. /\ marked \in Seq(Entry) /\ DOMAIN marked = DOMAIN history
        /\ marked[next].deleted = TRUE /\ marked[next].older = history[next].older
    BY <1>0, <2>2, MarkedFields
  <2> HIDE DEF marked
  <2>4. TypeOK /\ OldCart(marked, next) \in Cart
    BY <2>2, <2>3, OldCartType DEF IInv, TypeOK, Remembered
  <2>5. /\ Grown(marked, history', Len(versions))
        /\ \A i \in Added(marked, history') : ~Restorable(history'[i])
    BY <2>1, <2>2, <2>3, <2>4, Restores
  <2>6. history'[next].deleted
    BY <2>2, <2>3, <2>5 DEF Grown
  <2>7. \A i \in Added(history, history') : ~Restorable(history'[i])
    BY <2>3, <2>5 DEF Added
  <2>8. /\ handler'[h].entry = handler[h].entry /\ handler'[h].todo = handler[h].todo \ {next}
        /\ \A k \in Handlers : k # h => handler'[k] = handler[k]
    BY <1>0, <2>1 DEF Handling
  <2>9. \A k \in Handlers :
          handler'[k].stage # "idle" =>
            /\ handler[k].stage # "idle" /\ handler'[k].entry = handler[k].entry
            /\ \A i \in handler[k].todo \ handler'[k].todo : history'[i].deleted
    BY <2>1, <2>6, <2>8
  <2> QED
    BY <2>7, <2>9, WholeStays
<1>8. ASSUME NEW h \in Handlers, Restore(h)
      PROVE  WholeInv'
  <2> DEFINE e == handler[h].entry
  <2>1. /\ handler[h].stage = "restore" /\ handler' = [handler EXCEPT ![h].stage = "mark"]
        /\ RestoreCart(history, e) \/ RestoreFails(history, e) \/ history' = history
    BY <1>8 DEF Restore
  <2>2. e \in DOMAIN history
    BY <2>1, HandlingFacts
  <2>3. /\ handler'[h].entry = e /\ handler'[h].todo = handler[h].todo
        /\ \A k \in Handlers : k # h => handler'[k] = handler[k]
    BY <1>0, <2>1 DEF Handling
  <2> HIDE DEF e
  <2>4. \A i \in Added(history, history') : ~Restorable(history'[i])
    <3>1. CASE history' = history
      BY <3>1 DEF Added
    <3>2. CASE RestoreCart(history, e) \/ RestoreFails(history, e)
      BY <1>0, <2>2, <3>2, IInvFacts, Restores DEF IInv
    <3> QED
      BY <2>1, <3>1, <3>2
  <2> QED
    BY <2>1, <2>3, <2>4, WholeStays DEF e
<1>9. ASSUME NEW h \in Handlers, Mark(h)
      PROVE  WholeInv'
  <2> DEFINE e == handler[h].entry
  <2>1. /\ handler[h].stage = "mark" /\ handler' = [handler EXCEPT ![h].stage = "unlink"]
        /\ history' = MarkDeleted(history, e)
    BY <1>9 DEF Mark
  <2>2. e \in DOMAIN history
    BY <2>1, HandlingFacts
  <2>3. /\ handler'[h].entry = e /\ handler'[h].todo = handler[h].todo
        /\ \A k \in Handlers : k # h => handler'[k] = handler[k]
    BY <1>0, <2>1 DEF Handling
  <2> HIDE DEF e
  <2>4. Added(history, history') = {}
    BY <1>0, <2>1, <2>2, MarkedFields DEF Added
  <2> QED
    BY <2>1, <2>3, <2>4, WholeStays DEF e
<1>10. ASSUME NEW h \in Handlers, Unlink(h) \/ Abort(h)
       PROVE  WholeInv'
  <2>1. handler' = [handler EXCEPT ![h] = Idle] /\ history' = history
    BY <1>10 DEF Unlink, Abort
  <2>2. handler'[h].stage = "idle" /\ \A k \in Handlers : k # h => handler'[k] = handler[k]
    BY <1>0, <2>1 DEF Idle
  <2> QED
    BY <1>2, <2>1, <2>2
<1>11. ASSUME NEW m \in DOMAIN movements, DeleteMovement(m)
       PROVE  WholeInv'
  <2>1. handler' = handler
    BY <1>11 DEF DeleteMovement
  <2>2. Added(history, history') = {}
    <3>1. CASE history' = history
      BY <3>1 DEF Added
    <3>2. CASE history' = MarkDeleted(history, movements[m].entry)
      <4>1. movements[m].entry \in DOMAIN history
        BY IInvFacts
      <4> QED
        BY <1>0, <3>2, <4>1, MarkedFields DEF Added
    <3> QED
      BY <1>11, <3>1, <3>2 DEF DeleteMovement
  <2> QED
    BY <2>1, <2>2, WholeStays
<1>12. CASE \/ \E m \in DOMAIN movements : RestoreMovement(m)
            \/ \E e \in DOMAIN history : RestoreEntry(e)
            \/ UNCHANGED vars
  <2>1. history' = history /\ handler' = handler
    BY <1>12 DEF RestoreMovement, RestoreEntry, vars
  <2> QED
    BY <1>2, <2>1
<1> QED
  BY <1>3, <1>4, <1>5, <1>6, <1>7, <1>8, <1>9, <1>10, <1>11, <1>12 DEF Next, Handle

\* When a deletion is done (softDeleteHistoryEntry, deleteHistoryWithMovement) its entry
\* is gone, what was to fall with it is gone, and so is the movement that names it,
\* whatever other deletions ran and whatever became of movements in between.
THEOREM DeletionsAreWhole == Spec => DeletionIsWhole
<1>1. Init => WholeInv
  BY DEF Init, WholeInv, Idle
<1>2. ASSUME IInv, WholeInv, [Next]_vars, NEW h \in Handlers,
             handler[h].stage = "unlink" /\ handler'[h].stage = "idle"
               /\ Never({"overlap"}) /\ "abort" \notin past'
      PROVE  LET e == handler[h].entry
             IN  /\ history'[e].deleted
                 /\ FallWith(e) = {}
                 /\ \A m \in DOMAIN movements' :
                      movements'[m].entry = e => movements'[m].deleted
  <2> DEFINE e == handler[h].entry
  <2>1. Unlink(h)
    <3>1. handler'[h] # handler[h]
      BY <1>2
    <3> QED
      BY <1>2, <3>1, DeletionSteps DEF StartDelete, Handle, Abort, Cascade, Restore, Mark
  <2>2. /\ Placed(handler[h], history, movements) /\ handler[h].todo = {}
        /\ history[e].deleted /\ history' = history
    BY <1>2, <2>1, HandlingFacts DEF Placed, Unlink
  <2>3. FallWith(e) = {}
    BY <1>2, <2>2 DEF WholeInv
  <2>4. ASSUME NEW m \in DOMAIN movements', movements'[m].entry = e
        PROVE  movements'[m].deleted
    <3>1. /\ m \in DOMAIN movements
          /\ movements' = [n \in DOMAIN movements |->
                             IF n \in {history[e].movement, handler[h].movement}
                             THEN [movements[n] EXCEPT !.deleted = TRUE] ELSE movements[n]]
      BY <2>1, <2>4 DEF Unlink
    <3>2. \A n \in DOMAIN movements :
            /\ movements[n] \in [entry : Nat, amount : Int, deleted : BOOLEAN]
            /\ [movements[n] EXCEPT !.deleted = TRUE].entry = movements[n].entry
            /\ [movements[n] EXCEPT !.deleted = TRUE].deleted = TRUE
      BY <1>2, IInvFacts
    <3>3. movements[m].entry = e
      BY <2>4, <3>1, <3>2
    <3>4. m = handler[h].movement
      BY <1>2, <2>2, <3>1, <3>3 DEF Placed
    <3> QED
      BY <3>1, <3>2, <3>4
  <2> QED
    BY <2>2, <2>3, <2>4
<1>3. IInv /\ WholeInv /\ [Next]_vars =>
        [\A h \in Handlers :
           handler[h].stage = "unlink" /\ handler'[h].stage = "idle" /\ Never({"overlap"})
           /\ "abort" \notin past'
               => LET e == handler[h].entry
                  IN  /\ history'[e].deleted
                      /\ FallWith(e) = {}
                      /\ \A m \in DOMAIN movements' :
                           movements'[m].entry = e => movements'[m].deleted]_vars
  BY <1>2
<1>4. IInv /\ WholeInv /\ [Next]_vars => WholeInv'
  BY WholeNext
<1> QED
  BY LinksHold, <1>1, <1>3, <1>4, PTL DEF Spec, DeletionIsWhole
-----------------------------------------------------------------------------
(* Entries and their movements are deleted together. *)

\* Without entries that fall, a deletion has nothing left to do before its own.
NothingFalls == Never({"cascade"}) => \A h \in Handlers : handler[h].todo = {}

\* No step gives a deletion more to do when nothing has fallen with an entry.
LEMMA NothingFallsNext ==
    ASSUME IInv, NothingFalls, [Next]_vars
    PROVE  NothingFalls'
<1> SUFFICES ASSUME Never({"cascade"})', NEW h \in Handlers
             PROVE  handler'[h].todo = {}
  BY DEF NothingFalls
<1>1. handler[h].todo = {} /\ handler \in [Handlers -> Handling]
  BY NeverBefore DEF NothingFalls, IInv, TypeOK, Handling
<1>2. CASE handler'[h] = handler[h]
  BY <1>1, <1>2
<1>3. ASSUME NEW e \in DOMAIN history, StartDelete(h, e), handler'[h] # handler[h]
      PROVE  handler'[h].todo = {}
  <2>1. /\ handler' = [handler EXCEPT ![h] = [stage |-> "restore", entry |-> e,
                         movement |-> MovementOf(e), todo |-> FallWith(e)]]
        /\ past' = past \cup Deletes(e, FallWith(e))
    BY <1>3 DEF StartDelete
  <2>2. handler'[h].todo = FallWith(e)
    BY <1>1, <2>1
  <2>3. FallWith(e) # {} => "cascade" \in past'
    BY <2>1 DEF Deletes
  <2> QED
    BY <2>2, <2>3 DEF Never
<1>4. CASE Handle(h) \/ Abort(h)
  <2>1. ~Cascade(h)
    BY <1>1 DEF Cascade
  <2>2. CASE Restore(h)
    BY <1>1, <2>2 DEF Restore, Handling
  <2>3. CASE Mark(h)
    BY <1>1, <2>3 DEF Mark, Handling
  <2>4. CASE Unlink(h) \/ Abort(h)
    <3>1. handler' = [handler EXCEPT ![h] = Idle]
      BY <2>4 DEF Unlink, Abort
    <3> QED
      BY <1>1, <3>1 DEF Idle
  <2> QED
    BY <1>4, <2>1, <2>2, <2>3, <2>4 DEF Handle
<1> QED
  BY <1>2, <1>3, <1>4, DeletionSteps

\* The movement of a deleted entry is deleted, or the deletion is about to do it.
TogetherInv ==
    Never({"cascade", "abort", "movement restored"}) =>
        \A m \in DOMAIN movements :
            history[movements[m].entry].deleted =>
                \/ movements[m].deleted
                \/ \E h \in Handlers :
                     handler[h].stage = "unlink" /\ handler[h].entry = movements[m].entry

\* Entries that are added are not deleted, and neither are their movements.
LEMMA TogetherGrown ==
    ASSUME IInv, TogetherInv, [Next]_vars, NEW n, Grown(history, history', n),
           \A m \in DOMAIN movements : m \in DOMAIN movements' /\ movements'[m] = movements[m],
           \A m \in DOMAIN movements' \ DOMAIN movements :
             movements'[m].entry \in Added(history, history'),
           \A k \in Handlers : handler[k].stage = "unlink" => handler'[k] = handler[k]
    PROVE  TogetherInv'
<1> SUFFICES ASSUME Never({"cascade", "abort", "movement restored"})',
                    NEW m \in DOMAIN movements', history'[movements'[m].entry].deleted
             PROVE  \/ movements'[m].deleted
                    \/ \E h \in Handlers : /\ handler'[h].stage = "unlink"
                                           /\ handler'[h].entry = movements'[m].entry
  BY DEF TogetherInv
<1>1. Never({"cascade", "abort", "movement restored"})
  BY NeverBefore
<1>2. movements'[m].entry \notin Added(history, history')
  BY DEF Grown
<1>3. m \in DOMAIN movements /\ movements'[m] = movements[m]
  BY <1>2
<1>4. history'[movements[m].entry] = history[movements[m].entry]
  BY <1>3 DEF IInv, Linked, Grown
<1>5. \/ movements[m].deleted
      \/ \E h \in Handlers : /\ handler[h].stage = "unlink"
                             /\ handler[h].entry = movements[m].entry
  BY <1>1, <1>3, <1>4 DEF TogetherInv
<1>6. ASSUME NEW h \in Handlers, handler[h].stage = "unlink",
             handler[h].entry = movements[m].entry
      PROVE  handler'[h].stage = "unlink" /\ handler'[h].entry = movements'[m].entry
  <2>1. handler'[h] = handler[h]
    BY <1>6
  <2> QED
    BY <1>3, <1>6, <2>1
<1> QED
  BY <1>3, <1>5, <1>6

\* Every step keeps the entries and their movements together.
LEMMA TogetherNext ==
    ASSUME IInv, NothingFalls, TogetherInv, [Next]_vars
    PROVE  TogetherInv'
<1>0. /\ handler \in [Handlers -> Handling] /\ history \in Seq(Entry) /\ TypeOK
      /\ DOMAIN history = 1 .. Len(history)
      /\ \A m \in DOMAIN movements :
           /\ movements[m].entry \in DOMAIN history
           /\ movements[m] \in [entry : Nat, amount : Int, deleted : BOOLEAN]
  BY IInvFacts DEF IInv, TypeOK, Handling
<1>1. ASSUME history' = history
      PROVE  Grown(history, history', 0)
  BY <1>0, <1>1, LenProperties DEF Grown, Added
<1>2. CASE CreateContract
  <2>1. Grown(history, history', Len(versions)) /\ UNCHANGED <<handler, movements>>
    BY <1>0, <1>2, CreateAdds DEF CreateContract
  <2> QED
    BY <2>1, TogetherGrown
<1>3. ASSUME NEW u \in Updates, Update(u)
      PROVE  TogetherInv'
  <2>1. /\ handler' = handler /\ movements' = movements
        /\ history' = history \/ Grown(history, history', Len(versions))
    BY <1>3, UpdateStep
  <2> QED
    BY <1>1, <2>1, TogetherGrown
<1>4. ASSUME NEW r \in Reports, ReportEvent(r)
      PROVE  TogetherInv'
  <2>1. handler' = handler /\ Grown(history, history', Len(versions))
    BY <1>4, ReportStep
  <2>2. /\ \A m \in DOMAIN movements : m \in DOMAIN movements' /\ movements'[m] = movements[m]
        /\ \A m \in DOMAIN movements' \ DOMAIN movements :
             movements'[m].entry \in Added(history, history')
    BY <1>4, ReportMoves
  <2> QED
    BY <2>1, <2>2, TogetherGrown
<1>5. ASSUME NEW h \in Handlers, NEW e \in DOMAIN history, StartDelete(h, e)
      PROVE  TogetherInv'
  <2>1. /\ handler[h].stage = "idle" /\ UNCHANGED <<history, movements>>
        /\ \A k \in Handlers : k # h => handler'[k] = handler[k]
    BY <1>0, <1>5 DEF StartDelete
  <2> QED
    BY <1>1, <2>1, TogetherGrown
<1>6. ASSUME NEW h \in Handlers, Cascade(h)
      PROVE  TogetherInv'
  <2>1. handler[h].todo # {}
    BY <1>6 DEF Cascade
  <2>2. "cascade" \in past'
    BY <2>1, PastGrows DEF NothingFalls, Never
  <2> QED
    BY <2>2 DEF TogetherInv, Never
<1>7. ASSUME NEW h \in Handlers, Restore(h)
      PROVE  TogetherInv'
  <2> DEFINE e == handler[h].entry
  <2>1. /\ handler[h].stage = "restore" /\ movements' = movements
        /\ handler' = [handler EXCEPT ![h].stage = "mark"]
        /\ RestoreCart(history, e) \/ RestoreFails(history, e) \/ history' = history
    BY <1>7 DEF Restore
  <2>2. e \in DOMAIN history
    BY <2>1, HandlingFacts
  <2>3. \A k \in Handlers : k # h => handler'[k] = handler[k]
    BY <1>0, <2>1
  <2> HIDE DEF e
  <2>4. Grown(history, history', 0) \/ Grown(history, history', Len(versions))
    BY <1>0, <1>1, <2>1, <2>2, IInvFacts, Restores
  <2> QED
    BY <2>1, <2>3, <2>4, TogetherGrown
<1>8. ASSUME NEW h \in Handlers, Mark(h)
      PROVE  TogetherInv'
  <2> DEFINE e == handler[h].entry
  <2>1. /\ handler[h].stage = "mark" /\ movements' = movements
        /\ handler' = [handler EXCEPT ![h].stage = "unlink"]
        /\ history' = MarkDeleted(history, e)
    BY <1>8 DEF Mark
  <2>2. e \in DOMAIN history
    BY <2>1, HandlingFacts
  <2>3. /\ \A k \in Handlers : k # h => handler'[k] = handler[k]
        /\ handler'[h].stage = "unlink" /\ handler'[h].entry = e
    BY <1>0, <2>1 DEF Handling
  <2> HIDE DEF e
  <2>4. \A i \in DOMAIN history : i # e => history'[i] = history[i]
    BY <1>0, <2>1, <2>2, MarkedFields
  <2> SUFFICES ASSUME Never({"cascade", "abort", "movement restored"})',
                      NEW m \in DOMAIN movements', history'[movements'[m].entry].deleted
               PROVE  \/ movements'[m].deleted
                      \/ \E k \in Handlers : /\ handler'[k].stage = "unlink"
                                             /\ handler'[k].entry = movements'[m].entry
    BY DEF TogetherInv
  <2>14. m \in DOMAIN movements /\ movements'[m] = movements[m]
    BY <2>1
  <2>5. CASE movements[m].entry = e
    BY <2>3, <2>5, <2>14
  <2>6. CASE movements[m].entry # e
    <3>1. history[movements[m].entry].deleted
      BY <1>0, <2>4, <2>6, <2>14
    <3>2. Never({"cascade", "abort", "movement restored"})
      BY NeverBefore
    <3>3. \/ movements[m].deleted
          \/ \E k \in Handlers : /\ handler[k].stage = "unlink"
                                 /\ handler[k].entry = movements[m].entry
      BY <3>1, <3>2, <2>14 DEF TogetherInv
    <3>4. ASSUME NEW k \in Handlers, handler[k].stage = "unlink",
                 handler[k].entry = movements[m].entry
          PROVE  handler'[k].stage = "unlink" /\ handler'[k].entry = movements'[m].entry
      <4>1. k # h
        BY <2>1, <3>4
      <4> QED
        BY <2>3, <2>14, <3>4, <4>1
    <3> QED
      BY <2>14, <3>3, <3>4
  <2> QED
    BY <2>5, <2>6
<1>9. ASSUME NEW h \in Handlers, Unlink(h)
      PROVE  TogetherInv'
  <2> DEFINE e == handler[h].entry
             own == history[e].movement
             found == handler[h].movement
  <2>1. /\ handler[h].stage = "unlink" /\ history' = history
        /\ handler' = [handler EXCEPT ![h] = Idle]
        /\ movements' = [m \in DOMAIN movements |->
                           IF m \in {own, found}
                           THEN [movements[m] EXCEPT !.deleted = TRUE] ELSE movements[m]]
    BY <1>9 DEF Unlink
  <2>2. \A k \in Handlers : k # h => handler'[k] = handler[k]
    BY <1>0, <2>1
  <2>3. \A m \in DOMAIN movements : movements[m].entry = e => m = found
    BY <2>1, HandlingFacts DEF Placed
  <2>4. \A m \in DOMAIN movements :
          /\ [movements[m] EXCEPT !.deleted = TRUE].entry = movements[m].entry
          /\ [movements[m] EXCEPT !.deleted = TRUE].deleted = TRUE
    BY <1>0
  <2> HIDE DEF e, own, found
  <2>5. /\ DOMAIN movements' = DOMAIN movements
        /\ \A m \in DOMAIN movements :
             /\ movements'[m].entry = movements[m].entry
             /\ movements[m].deleted => movements'[m].deleted
             /\ movements[m].entry = e => movements'[m].deleted
    BY <2>1, <2>3, <2>4
  <2> SUFFICES ASSUME Never({"cascade", "abort", "movement restored"})',
                      NEW m \in DOMAIN movements', history'[movements'[m].entry].deleted
               PROVE  \/ movements'[m].deleted
                      \/ \E k \in Handlers : /\ handler'[k].stage = "unlink"
                                             /\ handler'[k].entry = movements'[m].entry
    BY DEF TogetherInv
  <2>14. /\ m \in DOMAIN movements /\ movements'[m].entry = movements[m].entry
        /\ history[movements[m].entry].deleted
    BY <2>1, <2>5
  <2>6. Never({"cascade", "abort", "movement restored"})
    BY NeverBefore
  <2>7. \/ movements[m].deleted
        \/ \E k \in Handlers : /\ handler[k].stage = "unlink"
                               /\ handler[k].entry = movements[m].entry
    BY <2>6, <2>14 DEF TogetherInv
  <2>8. CASE movements[m].deleted \/ movements[m].entry = e
    BY <2>5, <2>8, <2>14
  <2>9. ASSUME movements[m].entry # e, NEW k \in Handlers, handler[k].stage = "unlink",
               handler[k].entry = movements[m].entry
        PROVE  handler'[k].stage = "unlink" /\ handler'[k].entry = movements'[m].entry
    <3>1. k # h
      BY <2>9 DEF e
    <3> QED
      BY <2>2, <2>9, <3>1, <2>14
  <2> QED
    BY <2>7, <2>8, <2>9
<1>10. ASSUME NEW h \in Handlers, Abort(h)
       PROVE  TogetherInv'
  BY <1>10 DEF Abort, TogetherInv, Never
<1>11. ASSUME NEW m \in DOMAIN movements, DeleteMovement(m)
       PROVE  TogetherInv'
  <2> DEFINE e == movements[m].entry
  <2>1. handler' = handler
    BY <1>11 DEF DeleteMovement
  <2>2. CASE UNCHANGED <<history, movements>>
    BY <1>1, <2>1, <2>2, TogetherGrown
  <2>3. CASE /\ movements' = [movements EXCEPT ![m].deleted = TRUE]
             /\ history' = MarkDeleted(history, e)
    <3>1. e \in DOMAIN history
      BY <1>0
    <3> HIDE DEF e
    <3>2. \A i \in DOMAIN history : i # e => history'[i] = history[i]
      BY <1>0, <2>3, <3>1, MarkedFields
    <3>3. /\ DOMAIN movements' = DOMAIN movements
          /\ movements'[m].deleted
          /\ \A n \in DOMAIN movements :
               /\ movements'[n].entry = movements[n].entry
               /\ n # m => movements'[n] = movements[n]
      BY <1>0, <2>3
    <3>4. \A n \in DOMAIN movements : n # m => movements[n].entry # e
      BY DEF IInv, Linked, e
    <3> SUFFICES ASSUME Never({"cascade", "abort", "movement restored"})',
                        NEW n \in DOMAIN movements, history'[movements[n].entry].deleted
                 PROVE  \/ movements'[n].deleted
                        \/ \E k \in Handlers : /\ handler[k].stage = "unlink"
                                               /\ handler[k].entry = movements[n].entry
      BY <2>1, <3>3 DEF TogetherInv
    <3>5. Never({"cascade", "abort", "movement restored"})
      BY NeverBefore
    <3>6. CASE n # m
      <4>1. history[movements[n].entry].deleted /\ movements'[n] = movements[n]
        BY <1>0, <3>2, <3>3, <3>4, <3>6
      <4> QED
        BY <3>5, <4>1 DEF TogetherInv
    <3> QED
      BY <3>3, <3>6
  <2> QED
    BY <1>11, <2>2, <2>3 DEF DeleteMovement
<1>12. ASSUME NEW m \in DOMAIN movements, RestoreMovement(m)
       PROVE  TogetherInv'
  <2>1. handler' = handler /\ history' = history
    BY <1>12 DEF RestoreMovement
  <2>2. CASE movements' = movements
    BY <1>1, <2>1, <2>2, TogetherGrown
  <2>3. CASE "movement restored" \in past'
    BY <2>3 DEF TogetherInv, Never
  <2> QED
    BY <1>12, <2>2, <2>3 DEF RestoreMovement
<1>13. CASE (\E e \in DOMAIN history : RestoreEntry(e)) \/ UNCHANGED vars
  <2>1. UNCHANGED <<history, movements, handler>>
    BY <1>13 DEF RestoreEntry, vars
  <2> QED
    BY <1>1, <2>1, TogetherGrown
<1> QED
  BY <1>2, <1>3, <1>4, <1>5, <1>6, <1>7, <1>8, <1>9, <1>10, <1>11, <1>12, <1>13
     DEF Next, Handle

\* The entry of an event and its movement are deleted together, whichever of the two is
\* asked to go (deleteHistoryWithMovement, MovementRepository.softDelete), for any number
\* of deletions that run at once.
THEOREM GoneTogether == Spec => []DeletedTogether
<1>1. Init => NothingFalls /\ TogetherInv
  BY DEF Init, NothingFalls, TogetherInv, Idle
<1>2. IInv /\ NothingFalls /\ TogetherInv => DeletedTogether
  <2> SUFFICES ASSUME IInv, TogetherInv, ~Busy,
                      Never({"cascade", "overlap", "abort", "movement restored"}),
                      NEW m \in DOMAIN movements
               PROVE  movements[m].deleted = history[movements[m].entry].deleted
    BY DEF DeletedTogether
  <2>1. Never({"cascade", "abort", "movement restored"})
    BY DEF Never
  <2>2. \A h \in Handlers : handler[h].stage = "idle"
    BY DEF Busy
  <2>3. /\ movements[m].deleted \in BOOLEAN
        /\ history[movements[m].entry].deleted \in BOOLEAN
    BY IInvFacts, EntryFields
  <2>4. movements[m].deleted => history[movements[m].entry].deleted
    BY DEF IInv, Linked
  <2>5. history[movements[m].entry].deleted => movements[m].deleted
    BY <2>1, <2>2 DEF TogetherInv
  <2> QED
    BY <2>3, <2>4, <2>5
<1>3. IInv /\ NothingFalls /\ TogetherInv /\ [Next]_vars => NothingFalls' /\ TogetherInv'
  BY NothingFallsNext, TogetherNext
<1> QED
  BY LinksHold, <1>1, <1>2, <1>3, PTL DEF Spec
-----------------------------------------------------------------------------
(* Commissions of extensions. *)

\* Commissions are of extensions that stand, and go before the extension does.
CommissionInv ==
    Never({"cascade", "abort", "other commission", "movement deleted"}) =>
        /\ \A e \in commissions :
             e \in DOMAIN history /\ IsExtension(history[e]) /\ ~history[e].deleted
        /\ \A h \in Handlers :
             handler[h].stage \in {"mark", "unlink"} => handler[h].entry \notin commissions

\* Steps that delete no entry of a commission, and add commissions of new entries.
LEMMA CommissionsKept ==
    ASSUME IInv, CommissionInv, [Next]_vars,
           \A e \in commissions' :
             \/ e \in commissions /\ history'[e].deleted = history[e].deleted
             \/ /\ e \in Added(history, history')
                /\ IsExtension(history'[e]) /\ ~history'[e].deleted,
           \A k \in Handlers :
             handler'[k].stage \in {"mark", "unlink"} =>
               \/ /\ handler[k].stage \in {"mark", "unlink"}
                  /\ handler'[k].entry = handler[k].entry
               \/ handler'[k].entry \in DOMAIN history /\ handler'[k].entry \notin commissions'
    PROVE  CommissionInv'
<1> SUFFICES ASSUME Never({"cascade", "abort", "other commission", "movement deleted"})'
             PROVE  /\ \A e \in commissions' :
                         /\ e \in DOMAIN history'
                         /\ IsExtension(history'[e]) /\ ~history'[e].deleted
                    /\ \A k \in Handlers :
                         handler'[k].stage \in {"mark", "unlink"} =>
                           handler'[k].entry \notin commissions'
  BY DEF CommissionInv
<1>1. /\ \A e \in commissions :
           e \in DOMAIN history /\ IsExtension(history[e]) /\ ~history[e].deleted
      /\ \A h \in Handlers :
           handler[h].stage \in {"mark", "unlink"} => handler[h].entry \notin commissions
  BY NeverBefore DEF CommissionInv
<1>2. Later(history, history')
  BY NextKeeps
<1>3. ASSUME NEW e \in commissions'
      PROVE  e \in DOMAIN history' /\ IsExtension(history'[e]) /\ ~history'[e].deleted
  <2>1. CASE e \in commissions /\ history'[e].deleted = history[e].deleted
    BY <1>1, <1>2, <2>1 DEF Later, IsExtension
  <2>2. CASE e \in Added(history, history') /\ IsExtension(history'[e]) /\ ~history'[e].deleted
    BY <2>2 DEF Added
  <2> QED
    BY <2>1, <2>2
<1>4. ASSUME NEW k \in Handlers, handler'[k].stage \in {"mark", "unlink"},
             handler'[k].entry \in commissions'
      PROVE  FALSE
  <2>1. handler[k].stage \in {"mark", "unlink"} /\ handler'[k].entry = handler[k].entry
    BY <1>4
  <2>2. handler[k].entry \in DOMAIN history
    BY <2>1, HandlingFacts
  <2> QED
    BY <1>1, <1>4, <2>1, <2>2 DEF Added
<1> QED
  BY <1>3, <1>4

\* Every step keeps the commissions of the extensions that stand.
LEMMA CommissionNext ==
    ASSUME IInv, NothingFalls, CommissionInv, [Next]_vars
    PROVE  CommissionInv'
<1>0. /\ handler \in [Handlers -> Handling] /\ history \in Seq(Entry) /\ TypeOK
      /\ DOMAIN history = 1 .. Len(history)
  BY IInvFacts DEF IInv, TypeOK, Handling
<1> DEFINE Good == Never({"cascade", "abort", "other commission", "movement deleted"})'
<1> SUFFICES ASSUME Good PROVE CommissionInv'
  BY DEF CommissionInv
<1>1. /\ Never({"cascade", "abort", "other commission", "movement deleted"})
      /\ "cascade" \notin past' /\ "other commission" \notin past'
      /\ "movement deleted" \notin past' /\ "abort" \notin past'
  BY NeverBefore DEF Never
<1> HIDE DEF Good
<1>2. /\ \A e \in commissions :
           e \in DOMAIN history /\ IsExtension(history[e]) /\ ~history[e].deleted
      /\ \A h \in Handlers :
           handler[h].stage \in {"mark", "unlink"} => handler[h].entry \notin commissions
  BY <1>1 DEF CommissionInv
<1>3. ASSUME NEW n, Grown(history, history', n) \/ history' = history,
             commissions' = commissions, handler' = handler
      PROVE  CommissionInv'
  BY <1>2, <1>3, CommissionsKept DEF Grown
<1>4. CASE CreateContract
  BY <1>0, <1>3, <1>4, CreateAdds DEF CreateContract
<1>5. ASSUME NEW u \in Updates, Update(u)
      PROVE  CommissionInv'
  <2>1. handler' = handler
    BY <1>5, UpdateStep
  <2>2. CASE UNCHANGED <<history, commissions>>
    BY <1>3, <2>1, <2>2
  <2>3. ASSUME NEW charge \in BOOLEAN, ApplyUpdate(u, charge),
               Grown(history, history', Len(versions))
        PROVE  CommissionInv'
    <3>1. CASE commissions' = commissions
      BY <1>3, <2>1, <2>3, <3>1
    <3>2. CASE u.seller /\ commissions' = commissions \cup {Len(history) + 1}
      <4>1. IsExtensionPayment(u)
        BY <1>1, <2>3, <3>2, UpdateWrites
      <4>2. /\ Len(history) + 1 \in Added(history, history')
            /\ IsExtension(history'[Len(history) + 1])
        BY <1>0, <2>3, <4>1, UpdateAdds
      <4>3. ~history'[Len(history) + 1].deleted
        BY <2>3, <4>2 DEF Grown
      <4>4. \A e \in commissions : history'[e].deleted = history[e].deleted
        BY <1>2, <2>3 DEF Grown
      <4> QED
        BY <2>1, <3>2, <4>2, <4>3, <4>4, CommissionsKept
    <3> QED
      BY <2>3, <3>1, <3>2, UpdateWrites
  <2> QED
    BY <1>5, <2>2, <2>3, UpdateStep
<1>6. ASSUME NEW r \in Reports, ReportEvent(r)
      PROVE  CommissionInv'
  BY <1>3, <1>6, ReportStep
<1>7. ASSUME NEW h \in Handlers, NEW e \in DOMAIN history, StartDelete(h, e)
      PROVE  CommissionInv'
  <2>1. UNCHANGED <<history, commissions>>
    BY <1>7 DEF StartDelete
  <2>2. CASE handler' = handler
    BY <1>3, <2>1, <2>2
  <2>3. CASE handler' = [handler EXCEPT ![h] = [stage |-> "restore", entry |-> e,
                           movement |-> MovementOf(e), todo |-> FallWith(e)]]
    <3>1. handler'[h].stage = "restore" /\ \A k \in Handlers : k # h => handler'[k] = handler[k]
      BY <1>0, <2>3
    <3> QED
      BY <2>1, <3>1, CommissionsKept
  <2> QED
    BY <1>7, <2>2, <2>3 DEF StartDelete
<1>8. ASSUME NEW h \in Handlers
      PROVE  ~Cascade(h)
  BY <1>1 DEF NothingFalls, Never, Cascade
<1>9. ASSUME NEW h \in Handlers, Restore(h)
      PROVE  CommissionInv'
  <2> DEFINE e == handler[h].entry
  <2>1. /\ handler[h].stage = "restore"
        /\ handler' = [handler EXCEPT ![h].stage = "mark"]
        /\ commissions' = IF IsExtension(history[e]) THEN commissions \ {e} ELSE commissions
        /\ RestoreCart(history, e) \/ RestoreFails(history, e) \/ history' = history
    BY <1>9 DEF Restore
  <2>2. e \in DOMAIN history
    BY <2>1, HandlingFacts
  <2>3. /\ \A k \in Handlers : k # h => handler'[k] = handler[k]
        /\ handler'[h].entry = e
    BY <1>0, <2>1 DEF Handling
  <2> HIDE DEF e
  <2>4. commissions' \subseteq commissions /\ e \notin commissions'
    BY <1>2, <2>1
  <2>5. Grown(history, history', Len(versions)) \/ history' = history
    BY <1>0, <2>1, <2>2, IInvFacts, Restores
  <2>6. \A i \in commissions : history'[i].deleted = history[i].deleted
    BY <1>2, <2>5 DEF Grown
  <2> QED
    BY <2>2, <2>3, <2>4, <2>6, CommissionsKept
<1>10. ASSUME NEW h \in Handlers, Mark(h)
       PROVE  CommissionInv'
  <2> DEFINE e == handler[h].entry
  <2>1. /\ handler[h].stage = "mark" /\ commissions' = commissions
        /\ handler' = [handler EXCEPT ![h].stage = "unlink"]
        /\ history' = MarkDeleted(history, e)
    BY <1>10 DEF Mark
  <2>2. e \in DOMAIN history /\ e \notin commissions
    BY <1>2, <2>1, HandlingFacts
  <2>3. /\ \A k \in Handlers : k # h => handler'[k] = handler[k]
        /\ handler'[h].entry = e
    BY <1>0, <2>1 DEF Handling
  <2> HIDE DEF e
  <2>4. \A i \in commissions : history'[i].deleted = history[i].deleted
    <3>1. \A i \in DOMAIN history : i # e => MarkDeleted(history, e)[i] = history[i]
      BY <1>0, <2>2, MarkedFields
    <3> QED
      BY <1>2, <2>1, <2>2, <3>1
  <2> QED
    BY <2>1, <2>2, <2>3, <2>4, CommissionsKept
<1>11. ASSUME NEW h \in Handlers, Unlink(h) \/ Abort(h)
       PROVE  CommissionInv'
  <2>1. UNCHANGED <<history, commissions>> /\ handler' = [handler EXCEPT ![h] = Idle]
    BY <1>11 DEF Unlink, Abort
  <2>2. /\ handler'[h].stage = "idle"
        /\ \A k \in Handlers : k # h => handler'[k] = handler[k]
    BY <1>0, <2>1 DEF Idle
  <2> QED
    BY <2>1, <2>2, CommissionsKept
<1>12. ASSUME NEW m \in DOMAIN movements, DeleteMovement(m)
       PROVE  CommissionInv'
  <2>1. UNCHANGED <<history, commissions, handler>>
    BY <1>1, <1>12 DEF DeleteMovement
  <2> QED
    BY <1>3, <2>1
<1>13. CASE \/ \E m \in DOMAIN movements : RestoreMovement(m)
            \/ \E e \in DOMAIN history : RestoreEntry(e)
            \/ UNCHANGED vars
  <2>1. UNCHANGED <<history, commissions, handler>>
    BY <1>13 DEF RestoreMovement, RestoreEntry, vars
  <2> QED
    BY <1>3, <2>1
<1> QED
  BY <1>4, <1>5, <1>6, <1>7, <1>8, <1>9, <1>10, <1>11, <1>12, <1>13 DEF Next, Handle

\* The commission of an extension goes with the extension, also when the deletion that
\* takes them away runs beside others and beside new extensions (softDeleteHistoryEntry).
THEOREM CommissionsGo == Spec => []CommissionsOfLiveExtensions
<1>1. Init => NothingFalls /\ CommissionInv
  BY DEF Init, NothingFalls, CommissionInv, Idle
<1>2. CommissionInv => CommissionsOfLiveExtensions
  BY DEF CommissionInv, CommissionsOfLiveExtensions
<1>3. IInv /\ NothingFalls /\ CommissionInv /\ [Next]_vars => NothingFalls' /\ CommissionInv'
  BY NothingFallsNext, CommissionNext
<1> QED
  BY LinksHold, <1>1, <1>2, <1>3, PTL DEF Spec
-----------------------------------------------------------------------------
(* Reservations follow the cart. *)

\* What a vehicle is reserved for when its reservations are those of the cart.
Fitting(cart, v) == IF v \in VehiclesOf(cart) THEN <<DatesIn(cart, v)>> ELSE <<>>

\* No vehicle is twice in the cart that a booking starts with.
EachVehicleOnce ==
    \A cart \in Carts : \A i, j \in DOMAIN cart : cart[i].vehicle = cart[j].vehicle => i = j

\* updateVehicleReservations takes what fits the old cart to what fits the new one.
LEMMA RedatedFits ==
    ASSUME NEW old \in Cart, NEW new \in Cart, NEW reservations,
           \A v \in Vehicles : reservations[v] = Fitting(old, v)
    PROVE  \A v \in Vehicles :
             UpdateVehicleReservations(reservations, old, new, FALSE)[v] = Fitting(new, v)
<1> TAKE v \in Vehicles
<1>1. ASSUME NEW x, NEW y
      PROVE  /\ Tail(<<x>>) = <<>> /\ <<x>> # <<>>
             /\ Append(<<>>, y) = <<y>>
             /\ <<y>> \o Tail(<<x>>) = <<y>>
  OBVIOUS
<1>2. reservations[v] = Fitting(old, v)
  OBVIOUS
<1>3. CASE v \in VehiclesOf(old)
  <2>1. reservations[v] = <<DatesIn(old, v)>>
    BY <1>2, <1>3 DEF Fitting
  <2> QED
    BY <1>1, <1>3, <2>1 DEF UpdateVehicleReservations, Fitting
<1>4. CASE v \notin VehiclesOf(old)
  <2>1. reservations[v] = <<>>
    BY <1>2, <1>4 DEF Fitting
  <2> QED
    BY <1>1, <1>4, <2>1 DEF UpdateVehicleReservations, Fitting
<1> QED
  BY <1>3, <1>4

\* No deletion ran, and the reservations are those of the cart.
ReservedInv ==
    /\ Never({"deletion"}) => \A h \in Handlers : handler[h].stage = "idle"
    /\ Never({"deletion", "vehicle change"}) =>
         \A v \in Vehicles : held[v] = Fitting(booking.cart, v)

LEMMA ReservedInit ==
    ASSUME EachVehicleOnce, Init
    PROVE  ReservedInv
<1>1. booking.cart \in Carts
  BY DEF Init
<1>2. booking.cart \in Cart
  BY <1>1, ConstantsAssumption
<1>3. /\ Len(booking.cart) \in Nat /\ DOMAIN booking.cart = 1 .. Len(booking.cart)
      /\ \A j \in DOMAIN booking.cart : booking.cart[j] \in CartItem
  BY <1>2, LenProperties, ElementOfSeq DEF Cart
<1>4. ASSUME NEW v \in Vehicles
      PROVE  held[v] = Fitting(booking.cart, v)
  <2> DEFINE places == {j \in DOMAIN booking.cart : booking.cart[j].vehicle = v}
             d == (CHOOSE item \in {booking.cart[j] : j \in DOMAIN booking.cart} :
                     item.vehicle = v).dates
  <2>1. held[v] = [i \in 1 .. Cardinality(places) |-> d]
    BY DEF Init
  <2>2. d = DatesIn(booking.cart, v)
    BY DEF DatesIn, Items
  <2> HIDE DEF d
  <2>3. CASE v \in VehiclesOf(booking.cart)
    <3>1. PICK j \in DOMAIN booking.cart : booking.cart[j].vehicle = v
      BY <2>3 DEF VehiclesOf, Items
    <3>2. places = {j}
      BY <1>1, <3>1 DEF EachVehicleOnce
    <3> HIDE DEF places
    <3>3. Cardinality(places) = 1
      BY <3>2, FS_Singleton
    <3>4. [i \in 1 .. 1 |-> d] = <<d>>
      OBVIOUS
    <3> QED
      BY <2>1, <2>2, <2>3, <3>3, <3>4 DEF Fitting
  <2>4. CASE v \notin VehiclesOf(booking.cart)
    <3>1. places = {}
      BY <2>4 DEF VehiclesOf, Items
    <3> HIDE DEF places
    <3>2. Cardinality(places) = 0
      BY <3>1, FS_EmptySet
    <3>3. [i \in 1 .. 0 |-> d] = <<>>
      OBVIOUS
    <3> QED
      BY <2>1, <2>4, <3>2, <3>3 DEF Fitting
  <2> QED
    BY <2>3, <2>4
<1>5. \A h \in Handlers : handler[h].stage = "idle"
  BY DEF Init, Idle
<1> QED
  BY <1>4, <1>5 DEF ReservedInv

\* The cart after a change of the contract is the one the request brought, if any.
LEMMA UpdateCart ==
    ASSUME TypeOK, NEW u \in Updates, NEW charge \in BOOLEAN, ApplyUpdate(u, charge)
    PROVE  booking'.cart = IF u.cart # NoCart THEN u.cart ELSE booking.cart
<1>1. booking \in Booking
  BY DEF TypeOK, Booking
<1>2. Charged(booking, u) \in Booking /\ Charged(booking, u).cart = booking.cart
  BY <1>1, ChargedType DEF Booking, Charged
<1>3. ASSUME NEW b \in Booking, NEW cart
      PROVE  [b EXCEPT !.cart = cart].cart = cart
  BY DEF Booking
<1>4. booking' = [(IF EntryOf(u, charge) # <<>> THEN Charged(booking, u) ELSE booking)
                    EXCEPT !.cart = IF u.cart # NoCart THEN u.cart ELSE @]
  BY UpdateWrites
<1> QED
  BY <1>1, <1>2, <1>3, <1>4

\* Every step keeps the vehicles reserved as the cart says.
LEMMA ReservedNext ==
    ASSUME IInv, ReservedInv, [Next]_vars
    PROVE  ReservedInv'
<1> SUFFICES ASSUME "deletion" \notin past'
             PROVE  ReservedInv'
  BY DEF ReservedInv, Never
<1>0. handler \in [Handlers -> Handling] /\ booking \in Booking /\ TypeOK
  BY DEF IInv, TypeOK, Handling, Booking
<1>1. \A h \in Handlers : handler[h].stage = "idle"
  BY PastGrows DEF ReservedInv, Never
<1>2. ASSUME booking'.cart = booking.cart, UNCHANGED <<held, handler>>
      PROVE  ReservedInv'
  BY <1>1, <1>2, PastGrows DEF ReservedInv, Never
<1>3. ASSUME NEW u \in Updates, Update(u)
      PROVE  ReservedInv'
  <2>1. handler' = handler
    BY <1>3, UpdateStep
  <2>2. CASE UNCHANGED <<booking, held>>
    BY <1>2, <2>1, <2>2
  <2>3. ASSUME NEW charge \in BOOLEAN, ApplyUpdate(u, charge)
        PROVE  ReservedInv'
    <3> SUFFICES ASSUME "vehicle change" \notin past'
                 PROVE  \A v \in Vehicles : held'[v] = Fitting(booking'.cart, v)
      BY <1>1, <2>1 DEF ReservedInv, Never, Fitting
    <3>1. \A v \in Vehicles : held[v] = Fitting(booking.cart, v)
      BY PastGrows DEF ReservedInv, Never
    <3>2. (u.event = VehicleChange) = FALSE
      BY <2>3, UpdateWrites
    <3>3. u.cart \in Cart /\ booking.cart \in Cart
      BY <1>0, BodyType DEF Booking
    <3>4. /\ booking' = [(IF EntryOf(u, charge) # <<>> THEN Charged(booking, u) ELSE booking)
                            EXCEPT !.cart = IF u.cart # NoCart THEN u.cart ELSE @]
          /\ held' = IF u.cart # NoCart
                     THEN UpdateVehicleReservations(held, booking.cart, u.cart, FALSE)
                     ELSE held
      BY <2>3, <3>2, UpdateWrites
    <3>5. booking'.cart = IF u.cart # NoCart THEN u.cart ELSE booking.cart
      BY <1>0, <2>3, UpdateCart
    <3>6. CASE u.cart = NoCart
      BY <3>1, <3>4, <3>5, <3>6
    <3>7. CASE u.cart # NoCart
      <4>1. \A v \in Vehicles :
              UpdateVehicleReservations(held, booking.cart, u.cart, FALSE)[v] = Fitting(u.cart, v)
        BY <3>1, <3>3, RedatedFits, Zenon
      <4> QED
        BY <3>4, <3>5, <3>7, <4>1
    <3> QED
      BY <3>6, <3>7
  <2> QED
    BY <1>3, <2>2, <2>3, UpdateStep
<1>4. ASSUME NEW r \in Reports, ReportEvent(r)
      PROVE  ReservedInv'
  BY <1>0, <1>2, <1>4, ReportStep, ReportAdds
<1>5. ASSUME NEW h \in Handlers, NEW e \in DOMAIN history, StartDelete(h, e)
      PROVE  ReservedInv'
  <2>1. handler' = handler /\ UNCHANGED <<booking, held>>
    BY <1>5 DEF StartDelete, Deletes
  <2> QED
    BY <1>2, <2>1
<1>6. \A h \in Handlers : ~Handle(h) /\ ~Abort(h)
  BY <1>1 DEF Handle, Cascade, Restore, Mark, Unlink, Abort
<1>7. CASE \/ CreateContract
           \/ \E m \in DOMAIN movements : DeleteMovement(m) \/ RestoreMovement(m)
           \/ \E e \in DOMAIN history : RestoreEntry(e)
           \/ UNCHANGED vars
  <2>1. UNCHANGED <<booking, held, handler>>
    BY <1>7 DEF CreateContract, DeleteMovement, RestoreMovement, RestoreEntry, vars
  <2> QED
    BY <1>2, <2>1
<1> QED
  BY <1>3, <1>4, <1>5, <1>6, <1>7 DEF Next

\* Without deletions and changes of vehicle every vehicle is reserved for the dates of
\* the booking's cart and for no others, whatever the extensions and edits were
\* (updateVehicleReservations), if no vehicle was twice in the first cart.
THEOREM ReservationsFollow ==
    ASSUME EachVehicleOnce
    PROVE  Spec => []ReservationsFollowCart
<1>1. Init => ReservedInv
  BY ReservedInit
<1>2. ReservedInv => ReservationsFollowCart
  BY DEF ReservedInv, ReservationsFollowCart, Fitting, Never
<1>3. IInv /\ ReservedInv /\ [Next]_vars => ReservedInv'
  BY ReservedNext
<1> QED
  BY LinksHold, <1>1, <1>2, <1>3, PTL DEF Spec
-----------------------------------------------------------------------------
(* The cart follows the timeline. *)

\* The live entries before place n show cart: the newest of them that set a cart set it.
Shows(hist, n, cart) ==
    /\ cart # NoCart
    /\ \E i \in Live(hist) :
         /\ i < n /\ hist[i].sets = cart
         /\ \A j \in Live(hist) : i < j /\ j < n => hist[j].sets = NoCart

\* OldCart, of any versions and snapshots.
Old(hist, vers, snaps, e) ==
    LET before   == {i \in DOMAIN snaps : i < e}
        modified == {i \in Live(hist) : i < e /\ hist[i].action = "BOOKING_MODIFIED"}
        kept     == IF e \in DOMAIN snaps THEN snaps[e] ELSE NoCart
    IN  IF hist[e].older > 0 THEN vers[hist[e].older]
        ELSE IF kept # NoCart THEN kept
        ELSE IF modified # {} THEN hist[Max(modified)].cart
        ELSE IF before # {} THEN snaps[Max(before)]
        ELSE NoCart

\* What a deletion would restore is what the timeline showed before the entry.
Remembers(hist, vers, snaps) ==
    \A e \in Live(hist) :
        Restorable(hist[e]) /\ Old(hist, vers, snaps, e) # NoCart
            => Shows(hist, e, Old(hist, vers, snaps, e))

\* The newest version is the cart of the booking, and nothing is kept of a cart that has
\* no version.
Newest(hist, vers, snaps, cart) ==
    /\ cart # NoCart
    /\ vers # <<>> => vers[Len(vers)] = cart
    /\ vers = <<>> => /\ \A i \in DOMAIN hist : hist[i].action # "BOOKING_MODIFIED"
                      /\ \A i \in DOMAIN snaps : snaps[i] = NoCart

\* One entry is deleted at a time, the newest of those that matter for the cart.
InOrder(hist, hand) ==
    /\ \A h, k \in Handlers : hand[h].stage # "idle" /\ hand[k].stage # "idle" => h = k
    /\ \A h \in Handlers : hand[h].stage = "restore" =>
         /\ ~hist[hand[h].entry].deleted
         /\ hist[hand[h].entry].sets # NoCart => Restorable(hist[hand[h].entry])
    /\ \A h \in Handlers : hand[h].stage # "idle" =>
         \A i \in Live(hist) :
           i > hand[h].entry => hist[i].sets = NoCart /\ ~Restorable(hist[i])

\* The cart is what the timeline shows, or will show when the entry is marked.
Shown(hist, hand, cart) ==
    /\ hist # <<>> /\ (\A h \in Handlers : hand[h].stage # "mark")
         => Shows(hist, Len(hist) + 1, cart)
    /\ \A h \in Handlers : hand[h].stage = "mark" =>
         Shows(MarkDeleted(hist, hand[h].entry), Len(hist) + 1, cart)

Disturbances ==
    {"silent change", "not undone", "out of order", "overlap", "abort", "not restored",
     "movement deleted", "cascade"}

CartInv ==
    Never(Disturbances) =>
        /\ Newest(history, versions, snapshots, booking.cart)
        /\ InOrder(history, handler)
        /\ Shown(history, handler, booking.cart)
        /\ Remembers(history, versions, snapshots)

\* Entries that set no cart do not matter for what is shown.
LEMMA ShowsAlike ==
    ASSUME NEW hist, NEW new, NEW n, NEW m, NEW cart, Shows(hist, n, cart),
           \A i \in Live(hist) : i < n /\ hist[i].sets # NoCart =>
             i \in Live(new) /\ i < m /\ new[i].sets = hist[i].sets,
           \A i \in Live(new) : i < m /\ new[i].sets # NoCart =>
             i \in Live(hist) /\ i < n /\ new[i].sets = hist[i].sets
    PROVE  Shows(new, m, cart)
<1>1. PICK i \in Live(hist) :
        /\ i < n /\ hist[i].sets = cart
        /\ \A j \in Live(hist) : i < j /\ j < n => hist[j].sets = NoCart
  BY DEF Shows
<1>2. cart # NoCart
  BY DEF Shows
<1>3. i \in Live(new) /\ i < m /\ new[i].sets = cart
  BY <1>1, <1>2
<1>4. \A j \in Live(new) : i < j /\ j < m => new[j].sets = NoCart
  BY <1>1
<1> QED
  BY <1>2, <1>3, <1>4 DEF Shows

\* OldCart looks at what is before the entry.
LEMMA OldAlike ==
    ASSUME NEW hist \in Seq(Entry), NEW new \in Seq(Entry), NEW vers, NEW later,
           NEW snaps, NEW kept, NEW e \in DOMAIN hist, e \in DOMAIN new,
           DOMAIN snaps \subseteq Nat, DOMAIN kept \subseteq Nat,
           new[e].older = hist[e].older,
           hist[e].older > 0 => later[hist[e].older] = vers[hist[e].older],
           \A i \in Nat : i < e =>
             /\ i \in DOMAIN new <=> i \in DOMAIN hist
             /\ i \in DOMAIN hist => new[i] = hist[i],
           \A i \in Nat : i <= e =>
             /\ i \in DOMAIN kept <=> i \in DOMAIN snaps
             /\ i \in DOMAIN snaps => kept[i] = snaps[i]
    PROVE  Old(new, later, kept, e) = Old(hist, vers, snaps, e)
<1> DEFINE before(s) == {i \in DOMAIN s : i < e}
           modified(x) == {i \in Live(x) : i < e /\ x[i].action = "BOOKING_MODIFIED"}
           own(s) == IF e \in DOMAIN s THEN s[e] ELSE NoCart
<1>1. e \in Nat /\ DOMAIN hist \subseteq Nat /\ DOMAIN new \subseteq Nat
  BY EntryAt, LenProperties
<1>2. before(kept) = before(snaps)
  BY <1>1
<1>3. modified(new) = modified(hist)
  BY <1>1 DEF Live
<1>4. own(kept) = own(snaps)
  BY <1>1
<1>5. before(snaps) # {} => kept[Max(before(snaps))] = snaps[Max(before(snaps))]
  <2>1. before(snaps) \in SUBSET Nat /\ \A x \in before(snaps) : x <= e
    BY <1>1
  <2>2. before(snaps) # {} => Max(before(snaps)) \in before(snaps)
    BY <1>1, <2>1, GreatestPlace
  <2> QED
    BY <1>1, <2>2
<1>6. modified(hist) # {} => new[Max(modified(hist))] = hist[Max(modified(hist))]
  <2>1. modified(hist) \in SUBSET Nat /\ \A x \in modified(hist) : x <= e
    BY <1>1 DEF Live
  <2>2. modified(hist) # {} => Max(modified(hist)) \in modified(hist)
    BY <1>1, <2>1, GreatestPlace
  <2> QED
    BY <1>1, <2>2 DEF Live
<1>7. ASSUME NEW x, NEW v, NEW s
      PROVE  Old(x, v, s, e) = IF x[e].older > 0 THEN v[x[e].older]
                               ELSE IF own(s) # NoCart THEN own(s)
                               ELSE IF modified(x) # {} THEN x[Max(modified(x))].cart
                               ELSE IF before(s) # {} THEN s[Max(before(s))]
                               ELSE NoCart
  BY DEF Old
<1> HIDE DEF before, modified, own
<1> QED
  BY <1>2, <1>3, <1>4, <1>5, <1>6, <1>7

\* The cart before an entry that is new is the cart of the booking, or none.
LEMMA OldOfNew ==
    ASSUME NEW hist \in Seq(Entry), NEW vers, NEW snaps, NEW cart, NEW e \in DOMAIN hist,
           DOMAIN snaps \subseteq Nat,
           hist[e].older > 0 => vers[hist[e].older] = cart,
           ~(hist[e].older > 0) =>
             /\ \A i \in DOMAIN hist : i < e => hist[i].action # "BOOKING_MODIFIED"
             /\ \A i \in DOMAIN snaps : i < e => snaps[i] = NoCart,
           e \in DOMAIN snaps => snaps[e] \in {cart, NoCart}
    PROVE  Old(hist, vers, snaps, e) \in {cart, NoCart}
<1> DEFINE before == {i \in DOMAIN snaps : i < e}
           modified == {i \in Live(hist) : i < e /\ hist[i].action = "BOOKING_MODIFIED"}
<1>1. CASE hist[e].older > 0
  BY <1>1 DEF Old
<1>2. CASE ~(hist[e].older > 0)
  <2>1. modified = {}
    BY <1>2 DEF Live
  <2>2. e \in Nat
    BY EntryAt
  <2>3. before # {} => Max(before) \in before
    <3>1. before \in SUBSET Nat /\ \A x \in before : x <= e
      BY <2>2
    <3> QED
      BY <2>2, <3>1, GreatestPlace
  <2>4. before # {} => snaps[Max(before)] = NoCart
    BY <1>2, <2>3
  <2> QED
    BY <1>2, <2>1, <2>4 DEF Old
<1> QED
  BY <1>1, <1>2

\* Entries are added, and what they would restore is what was shown before them.
LEMMA RemembersGrown ==
    ASSUME NEW hist \in Seq(Entry), NEW new, NEW n, Grown(hist, new, n),
           NEW vers \in Seq(Cart), NEW later, NEW snaps, NEW kept,
           DOMAIN snaps \subseteq DOMAIN hist, DOMAIN kept \subseteq DOMAIN new,
           \A i \in 1 .. Len(vers) : later[i] = vers[i],
           \A e \in DOMAIN hist : hist[e].older <= Len(vers),
           \A i \in DOMAIN hist :
             /\ i \in DOMAIN kept <=> i \in DOMAIN snaps
             /\ i \in DOMAIN snaps => kept[i] = snaps[i],
           Remembers(hist, vers, snaps),
           \A e \in Added(hist, new) :
             Restorable(new[e]) /\ Old(new, later, kept, e) # NoCart
               => Shows(new, e, Old(new, later, kept, e))
    PROVE  Remembers(new, later, kept)
<1>1. /\ DOMAIN hist = 1 .. Len(hist) /\ DOMAIN new = 1 .. Len(new)
      /\ Len(hist) \in Nat /\ Len(new) \in Nat /\ Len(vers) \in Nat
      /\ new \in Seq(Entry) /\ Len(hist) <= Len(new)
      /\ \A i \in DOMAIN hist : i \in DOMAIN new /\ new[i] = hist[i]
  BY LenProperties DEF Grown
<1> SUFFICES ASSUME NEW e \in Live(new), e \in DOMAIN hist, Restorable(new[e]),
                    Old(new, later, kept, e) # NoCart
             PROVE  Shows(new, e, Old(new, later, kept, e))
  BY DEF Remembers, Added, Live
<1>2. e \in Live(hist) /\ new[e] = hist[e] /\ e \in DOMAIN new
  BY <1>1 DEF Live
<1>3. Old(new, later, kept, e) = Old(hist, vers, snaps, e)
  <2>1. hist[e].older \in Nat /\ hist[e].older <= Len(vers)
    BY EntryAt, EntryFields
  <2>2. hist[e].older > 0 => later[hist[e].older] = vers[hist[e].older]
    BY <1>1, <2>1
  <2>3. \A i \in Nat : i < e =>
          /\ i \in DOMAIN new <=> i \in DOMAIN hist
          /\ i \in DOMAIN hist => new[i] = hist[i]
    BY <1>1
  <2>4. \A i \in Nat : i <= e =>
          /\ i \in DOMAIN kept <=> i \in DOMAIN snaps
          /\ i \in DOMAIN snaps => kept[i] = snaps[i]
    BY <1>1
  <2>5. DOMAIN snaps \subseteq Nat /\ DOMAIN kept \subseteq Nat
    BY <1>1
  <2> QED
    <3>1. e \in DOMAIN hist /\ e \in DOMAIN new /\ new[e].older = hist[e].older
      BY <1>2
    <3>2. hist \in Seq(Entry) /\ new \in Seq(Entry)
      BY <1>1
    <3> QED
      BY <2>2, <2>3, <2>4, <2>5, <3>1, <3>2, OldAlike
<1>4. Shows(hist, e, Old(hist, vers, snaps, e))
  BY <1>2, <1>3 DEF Remembers
<1>5. /\ \A i \in Live(hist) : i < e => i \in Live(new) /\ new[i] = hist[i]
      /\ \A i \in Live(new) : i < e => i \in Live(hist)
  BY <1>1 DEF Live
<1> QED
  BY <1>3, <1>4, <1>5, ShowsAlike

\* An entry is deleted, and with it what it kept, when no later one matters.
LEMMA RemembersCut ==
    ASSUME NEW hist \in Seq(Entry), NEW new \in Seq(Entry), NEW e \in DOMAIN hist,
           NEW vers, NEW snaps, NEW kept,
           DOMAIN snaps \subseteq Nat, DOMAIN kept \subseteq Nat,
           DOMAIN new = DOMAIN hist, new[e].deleted,
           \A i \in DOMAIN hist : i # e => new[i] = hist[i],
           \A i \in Nat : i # e =>
             /\ i \in DOMAIN kept <=> i \in DOMAIN snaps
             /\ i \in DOMAIN snaps => kept[i] = snaps[i],
           \A i \in Live(hist) : i > e => ~Restorable(hist[i]),
           Remembers(hist, vers, snaps)
    PROVE  Remembers(new, vers, kept)
<1>1. DOMAIN hist \subseteq Nat /\ e \in Nat
  BY LenProperties
<1> SUFFICES ASSUME NEW x \in Live(new), Restorable(new[x]), Old(new, vers, kept, x) # NoCart
             PROVE  Shows(new, x, Old(new, vers, kept, x))
  BY DEF Remembers
<1>2. x \in DOMAIN hist /\ x # e /\ new[x] = hist[x] /\ x \in Live(hist) /\ x \in DOMAIN new
  BY DEF Live
<1>3. x < e /\ x \in Nat
  BY <1>1, <1>2
<1>4. Old(new, vers, kept, x) = Old(hist, vers, snaps, x)
  <2>1. \A i \in Nat : i < x =>
          /\ i \in DOMAIN new <=> i \in DOMAIN hist
          /\ i \in DOMAIN hist => new[i] = hist[i]
    BY <1>1, <1>3
  <2>2. \A i \in Nat : i <= x =>
          /\ i \in DOMAIN kept <=> i \in DOMAIN snaps
          /\ i \in DOMAIN snaps => kept[i] = snaps[i]
    BY <1>1, <1>3
  <2>3. new[x].older = hist[x].older
    BY <1>2
  <2> QED
    BY <1>2, <2>1, <2>2, <2>3, OldAlike
<1>5. Shows(hist, x, Old(hist, vers, snaps, x))
  BY <1>2, <1>4 DEF Remembers
<1>6. /\ \A i \in Live(hist) : i < x => i \in Live(new) /\ new[i] = hist[i]
      /\ \A i \in Live(new) : i < x => i \in Live(hist)
  BY <1>1, <1>3 DEF Live
<1> QED
  BY <1>4, <1>5, <1>6, ShowsAlike

\* What an update or an event adds would restore the cart of the booking.
LEMMA RemembersAdded ==
    ASSUME IInv, Newest(history, versions, snapshots, booking.cart),
           Shows(history, Len(history) + 1, booking.cart),
           Remembers(history, versions, snapshots),
           Grown(history, history', Len(versions)),
           \A i \in 1 .. Len(versions) : versions'[i] = versions[i],
           DOMAIN snapshots' \subseteq DOMAIN history',
           \A i \in DOMAIN history :
             /\ i \in DOMAIN snapshots' <=> i \in DOMAIN snapshots
             /\ i \in DOMAIN snapshots => snapshots'[i] = snapshots[i],
           \A i \in DOMAIN snapshots' \ DOMAIN history : snapshots'[i] \in {booking.cart, NoCart},
           \A e, i \in Added(history, history') : Restorable(history'[e]) /\ i < e =>
             /\ history'[i].sets = NoCart /\ history'[i].action # "BOOKING_MODIFIED"
             /\ i \in DOMAIN snapshots' => snapshots'[i] = NoCart
    PROVE  Remembers(history', versions', snapshots')
<1>1. /\ history \in Seq(Entry) /\ versions \in Seq(Cart)
      /\ DOMAIN history = 1 .. Len(history) /\ Len(history) \in Nat /\ Len(versions) \in Nat
      /\ DOMAIN snapshots \subseteq DOMAIN history
      /\ \A e \in DOMAIN history : history[e].older <= Len(versions)
  BY IInvFacts DEF IInv, Remembered
<1>2. /\ DOMAIN history' = 1 .. Len(history') /\ Len(history') \in Nat
      /\ history' \in Seq(Entry) /\ DOMAIN snapshots' \subseteq Nat
      /\ \A i \in DOMAIN history : i \in DOMAIN history' /\ history'[i] = history[i]
      /\ \A i \in Added(history, history') :
           i > Len(history) /\ ~history'[i].deleted /\ history'[i].older = Len(versions)
  BY LenProperties DEF Grown
<1>3. ASSUME NEW e \in Added(history, history'), Restorable(history'[e]),
             Old(history', versions', snapshots', e) # NoCart
      PROVE  Shows(history', e, Old(history', versions', snapshots', e))
  <2>1. e \in DOMAIN history' /\ history'[e].older = Len(versions) /\ e > Len(history)
    BY <1>2, <1>3 DEF Added
  <2>2. history'[e].older > 0 => versions'[history'[e].older] = booking.cart
    <3>1. Len(versions) > 0 => versions # <<>>
      BY <1>1
    <3>2. Len(versions) > 0 => versions[Len(versions)] = booking.cart
      BY <3>1 DEF Newest
    <3> QED
      BY <1>1, <2>1, <3>2
  <2>3. ASSUME ~(history'[e].older > 0)
        PROVE  /\ \A i \in DOMAIN history' : i < e => history'[i].action # "BOOKING_MODIFIED"
               /\ \A i \in DOMAIN snapshots' : i < e => snapshots'[i] = NoCart
    <3>1. versions = <<>>
      BY <1>1, <2>1, <2>3
    <3>2. /\ \A i \in DOMAIN history : history[i].action # "BOOKING_MODIFIED"
          /\ \A i \in DOMAIN snapshots : snapshots[i] = NoCart
      BY <3>1 DEF Newest
    <3> QED
      BY <1>2, <1>3, <3>2 DEF Added
  <2>4. e \in DOMAIN snapshots' => snapshots'[e] \in {booking.cart, NoCart}
    BY DEF Added
  <2>5. Old(history', versions', snapshots', e) = booking.cart
    <3>1. history' \in Seq(Entry) /\ e \in DOMAIN history' /\ DOMAIN snapshots' \subseteq Nat
      BY <1>2, <2>1
    <3>2. Old(history', versions', snapshots', e) \in {booking.cart, NoCart}
      BY <2>2, <2>3, <2>4, <3>1, OldOfNew, Zenon
    <3> QED
      BY <1>3, <3>2
  <2>6. /\ \A i \in Live(history) : i < e /\ i \in Live(history') /\ history'[i] = history[i]
        /\ \A i \in Live(history') : i < e /\ history'[i].sets # NoCart =>
             i \in Live(history) /\ i < Len(history) + 1
    BY <1>1, <1>2, <1>3, <2>1 DEF Live, Added
  <2> QED
    BY <2>5, <2>6, ShowsAlike
<1> QED
  BY <1>1, <1>2, <1>3, RemembersGrown

\* Quiet entries leave what is shown as it is.
LEMMA ShownGrown ==
    ASSUME NEW hist \in Seq(Entry), NEW new, NEW n, Grown(hist, new, n), NEW cart,
           Shows(hist, Len(hist) + 1, cart),
           \A i \in Added(hist, new) : new[i].sets = NoCart
    PROVE  Shows(new, Len(new) + 1, cart)
<1>1. /\ DOMAIN hist = 1 .. Len(hist) /\ DOMAIN new = 1 .. Len(new)
      /\ Len(hist) \in Nat /\ Len(new) \in Nat /\ Len(hist) <= Len(new)
      /\ \A i \in DOMAIN hist : i \in DOMAIN new /\ new[i] = hist[i]
  BY LenProperties DEF Grown
<1>2. /\ \A i \in Live(hist) : i \in Live(new) /\ new[i] = hist[i] /\ i < Len(new) + 1
      /\ \A i \in Live(new) : new[i].sets # NoCart => i \in Live(hist) /\ i < Len(hist) + 1
  BY <1>1 DEF Live, Added
<1> QED
  BY <1>2, ShowsAlike

\* While nothing is being deleted everything is in order.
LEMMA InOrderIdle ==
    ASSUME NEW hist, NEW hand, \A h \in Handlers : hand[h].stage = "idle"
    PROVE  /\ InOrder(hist, hand)
           /\ \A cart : Shows(hist, Len(hist) + 1, cart) => Shown(hist, hand, cart)
BY DEF InOrder, Shown

\* The steps taken while nothing is being deleted.
LEMMA CartIdle ==
    ASSUME IInv, [Next]_vars, \A h \in Handlers : handler[h].stage = "idle",
           handler' = handler,
           Newest(history, versions, snapshots, booking.cart)',
           Shows(history', Len(history') + 1, booking'.cart),
           Remembers(history', versions', snapshots')
    PROVE  CartInv'
<1>1. InOrder(history', handler') /\ Shown(history', handler', booking'.cart)
  BY InOrderIdle
<1> QED
  BY <1>1 DEF CartInv

\* What holds before a step that nothing disturbs.
LEMMA CartBefore ==
    ASSUME IInv, CartInv, [Next]_vars, Never(Disturbances)'
    PROVE  /\ Newest(history, versions, snapshots, booking.cart)
           /\ InOrder(history, handler)
           /\ Shown(history, handler, booking.cart)
           /\ Remembers(history, versions, snapshots)
           /\ \A what \in Disturbances : what \notin past'
<1>1. Never(Disturbances)
  BY NeverBefore
<1> QED
  BY <1>1 DEF CartInv, Never

LEMMA CartCreate ==
    ASSUME IInv, CartInv, [Next]_vars, Never(Disturbances)', CreateContract
    PROVE  CartInv'
<1>1. /\ history = <<>> /\ UNCHANGED <<booking, versions, snapshots, handler>>
      /\ DOMAIN history = {}
  BY DEF CreateContract
<1>2. \A h \in Handlers : handler[h].stage = "idle"
  BY <1>1, HandlingFacts
<1>3. Newest(history, versions, snapshots, booking.cart)
  BY CartBefore
<1>4. /\ Grown(history, history', Len(versions))
      /\ \A i \in Added(history, history') :
           /\ history'[i].action # "BOOKING_MODIFIED" /\ ~Restorable(history'[i])
           /\ i # 1 => history'[i].sets = NoCart
      /\ 1 \in DOMAIN history' /\ history'[1].sets = booking.cart
  BY CreateAdds DEF IInv
<1>5. /\ Added(history, history') = DOMAIN history' /\ DOMAIN history' = 1 .. Len(history')
      /\ Len(history') \in Nat
      /\ \A i \in DOMAIN history' : ~history'[i].deleted
  BY <1>1, <1>4, LenProperties DEF Added, Grown
<1>6. Newest(history', versions', snapshots', booking'.cart)
  BY <1>1, <1>3, <1>4, <1>5 DEF Newest
<1>7. Shows(history', Len(history') + 1, booking'.cart)
  <2>1. 1 \in Live(history') /\ 1 < Len(history') + 1 /\ history'[1].sets = booking'.cart
    BY <1>1, <1>4, <1>5 DEF Live
  <2>2. \A j \in Live(history') : 1 < j => history'[j].sets = NoCart
    BY <1>4, <1>5 DEF Live
  <2> QED
    BY <1>6, <2>1, <2>2 DEF Shows, Newest
<1>8. Remembers(history', versions', snapshots')
  BY <1>4, <1>5 DEF Remembers, Live
<1> QED
  BY <1>1, <1>2, <1>6, <1>7, <1>8, CartIdle

LEMMA CartUpdate ==
    ASSUME IInv, CartInv, [Next]_vars, Never(Disturbances)', history # <<>>,
           NEW u \in Updates, Update(u),
           NEW charge \in BOOLEAN, ApplyUpdate(u, charge)
    PROVE  CartInv'
<1>1. /\ Newest(history, versions, snapshots, booking.cart)
      /\ Shown(history, handler, booking.cart)
      /\ Remembers(history, versions, snapshots)
      /\ "overlap" \notin past' /\ "silent change" \notin past'
  BY CartBefore DEF Disturbances
<1>2. /\ Overlapping \subseteq past' /\ handler' = handler
      /\ versions' = IF u.cart # NoCart THEN Append(versions, u.cart) ELSE versions
      /\ u.cart # NoCart => EntryOf(u, charge) # <<>> \/ Edits(u)
  BY <1>1, UpdateWrites, UpdateStep
<1>3. \A h \in Handlers : handler[h].stage = "idle"
  BY <1>1, <1>2, NoOverlap DEF Never
<1>4. Shows(history, Len(history) + 1, booking.cart)
  BY <1>1, <1>3 DEF Shown
<1>5. /\ TypeOK /\ booking \in Booking /\ versions \in Seq(Cart) /\ Len(versions) \in Nat
      /\ history \in Seq(Entry) /\ Len(history) \in Nat /\ DOMAIN history = 1 .. Len(history)
      /\ DOMAIN snapshots \subseteq DOMAIN history /\ u.cart \in Cart
  BY IInvFacts, BodyType DEF IInv, TypeOK, Booking, Remembered
<1>6. /\ Grown(history, history', Len(versions))
      /\ \A i \in Added(history, history') :
           /\ history'[i].action = "BOOKING_MODIFIED" => u.cart # NoCart
           /\ i # Len(history) + 1 => history'[i].sets = NoCart
           /\ Restorable(history'[i]) => i = Len(history) + 1
      /\ EntryOf(u, charge) # <<>> \/ Edits(u) =>
           /\ Len(history) + 1 \in Added(history, history')
           /\ history'[Len(history) + 1].sets = u.cart
      /\ EntryOf(u, charge) = <<>> /\ ~Edits(u) =>
           \A i \in Added(history, history') : history'[i].sets = NoCart
  BY <1>5, UpdateAdds
<1>7. booking'.cart = IF u.cart # NoCart THEN u.cart ELSE booking.cart
  BY <1>5, UpdateCart
<1>8. /\ Len(history) + 1 \notin DOMAIN history
      /\ history' \in Seq(Entry) /\ DOMAIN history' = 1 .. Len(history')
      /\ Len(history') \in Nat /\ Len(history) <= Len(history')
      /\ \A i \in DOMAIN history : i \in DOMAIN history' /\ history'[i] = history[i]
      /\ \A i \in Added(history, history') : i > Len(history) /\ ~history'[i].deleted
  BY <1>5, <1>6, LenProperties DEF Grown
<1>9. \/ snapshots' = snapshots
      \/ /\ EntryOf(u, charge) # <<>>
         /\ snapshots' = [e \in DOMAIN snapshots \cup {Len(history) + 1} |->
                            IF e = Len(history) + 1 THEN OldOf(u) ELSE snapshots[e]]
  BY UpdateWrites
<1>10. OldOf(u) \in {booking.cart, NoCart} /\ (u.cart = NoCart => OldOf(u) = NoCart)
  BY DEF OldOf
<1>11. /\ DOMAIN snapshots' \subseteq DOMAIN history'
       /\ \A i \in DOMAIN history :
            /\ i \in DOMAIN snapshots' <=> i \in DOMAIN snapshots
            /\ i \in DOMAIN snapshots => snapshots'[i] = snapshots[i]
       /\ \A i \in DOMAIN snapshots' \ DOMAIN history : snapshots'[i] = OldOf(u)
  BY <1>5, <1>6, <1>8, <1>9 DEF Added
<1>12. \A i \in 1 .. Len(versions) : versions'[i] = versions[i]
  BY <1>2, <1>5
<1>13. Remembers(history', versions', snapshots')
  <2>1. \A i \in DOMAIN snapshots' \ DOMAIN history : snapshots'[i] \in {booking.cart, NoCart}
    BY <1>10, <1>11
  <2>2. \A e, i \in Added(history, history') : ~(Restorable(history'[e]) /\ i < e)
    <3>1. ASSUME NEW e \in Added(history, history'), NEW i \in Added(history, history'),
                 Restorable(history'[e]), i < e
          PROVE  FALSE
      <4>1. e = Len(history) + 1 /\ i > Len(history) /\ i \in DOMAIN history'
        BY <1>6, <1>8, <3>1 DEF Added
      <4> QED
        BY <1>5, <1>8, <3>1, <4>1
    <3> QED
      BY <3>1
  <2> QED
    BY <1>1, <1>4, <1>6, <1>11, <1>12, <2>1, <2>2, RemembersAdded
<1>14. Newest(history', versions', snapshots', booking'.cart)
  <2>1. CASE u.cart # NoCart
    <3>1. versions' # <<>> /\ versions'[Len(versions')] = u.cart
      BY <1>2, <1>5, <2>1
    <3> QED
      BY <1>7, <2>1, <3>1 DEF Newest
  <2>2. CASE u.cart = NoCart
    <3>1. booking'.cart = booking.cart /\ versions' = versions
      BY <1>2, <1>7, <2>2
    <3>2. \A i \in DOMAIN history' :
            i \in DOMAIN history \/ history'[i].action # "BOOKING_MODIFIED"
      BY <1>6, <2>2 DEF Added
    <3>3. \A i \in DOMAIN snapshots' : i \in DOMAIN history \/ snapshots'[i] = NoCart
      BY <1>10, <1>11, <2>2
    <3> QED
      BY <1>1, <1>8, <1>11, <3>1, <3>2, <3>3 DEF Newest
  <2> QED
    BY <2>1, <2>2
<1>15. Shows(history', Len(history') + 1, booking'.cart)
  <2>1. CASE u.cart = NoCart
    <3>1. \A i \in Added(history, history') : history'[i].sets = NoCart
      BY <1>6, <2>1
    <3> QED
      BY <1>4, <1>5, <1>6, <1>7, <2>1, <3>1, ShownGrown
  <2>2. CASE u.cart # NoCart
    <3>1. /\ Len(history) + 1 \in Live(history') /\ history'[Len(history) + 1].sets = u.cart
          /\ Len(history) + 1 < Len(history') + 1
      BY <1>2, <1>5, <1>6, <1>8, <2>2 DEF Live, Added
    <3>2. \A j \in Live(history') : Len(history) + 1 < j => history'[j].sets = NoCart
      BY <1>5, <1>6, <1>8 DEF Live, Added
    <3> QED
      BY <1>7, <2>2, <3>1, <3>2 DEF Shows
  <2> QED
    BY <2>1, <2>2
<1> QED
  BY <1>2, <1>3, <1>13, <1>14, <1>15, CartIdle

LEMMA CartReport ==
    ASSUME IInv, CartInv, [Next]_vars, Never(Disturbances)', history # <<>>,
           NEW r \in Reports, ReportEvent(r)
    PROVE  CartInv'
<1>1. /\ Newest(history, versions, snapshots, booking.cart)
      /\ Shown(history, handler, booking.cart)
      /\ Remembers(history, versions, snapshots)
      /\ "overlap" \notin past'
  BY CartBefore DEF Disturbances
<1>2. /\ handler' = handler /\ UNCHANGED <<versions, snapshots>>
      /\ Overlapping \subseteq past' /\ booking'.cart = booking.cart
      /\ Grown(history, history', Len(versions))
      /\ \A i \in Added(history, history') :
           history'[i].sets = NoCart /\ history'[i].action # "BOOKING_MODIFIED"
  BY ReportStep, ReportAdds DEF IInv
<1>3. \A h \in Handlers : handler[h].stage = "idle"
  BY <1>1, <1>2, NoOverlap DEF Never
<1>4. Shows(history, Len(history) + 1, booking.cart)
  BY <1>1, <1>3 DEF Shown
<1>5. /\ DOMAIN snapshots \subseteq DOMAIN history
      /\ \A i \in DOMAIN history : i \in DOMAIN history' /\ history'[i] = history[i]
      /\ history \in Seq(Entry)
  BY <1>2, IInvFacts DEF IInv, Remembered, Grown
<1>6. Remembers(history', versions', snapshots')
  <2>1. DOMAIN snapshots' \subseteq DOMAIN history'
    BY <1>2, <1>5
  <2>2. \A i \in Added(history, history') : i \notin DOMAIN snapshots'
    BY <1>2, <1>5 DEF Added
  <2>3. DOMAIN snapshots' \ DOMAIN history = {}
    BY <1>2, <1>5
  <2> QED
    BY <1>1, <1>2, <1>4, <2>1, <2>2, <2>3, RemembersAdded
<1>7. Newest(history', versions', snapshots', booking'.cart)
  BY <1>1, <1>2, <1>5 DEF Newest, Added
<1>8. Shows(history', Len(history') + 1, booking'.cart)
  BY <1>2, <1>4, <1>5, ShownGrown
<1> QED
  BY <1>2, <1>3, <1>6, <1>7, <1>8, CartIdle

\* The other entries stay as they are when one is marked.
LEMMA MarkedRest ==
    ASSUME NEW hist \in Seq(Entry), NEW e \in DOMAIN hist
    PROVE  /\ DOMAIN MarkDeleted(hist, e) = DOMAIN hist
           /\ MarkDeleted(hist, e)[e].deleted = TRUE
           /\ \A i \in DOMAIN hist : i # e => MarkDeleted(hist, e)[i] = hist[i]
<1>1. DOMAIN MarkDeleted(hist, e) = DOMAIN hist
  BY MarkedFields
<1>2. MarkDeleted(hist, e)[e].deleted = TRUE
  BY MarkedFields
<1>3. \A i \in DOMAIN hist : i # e => MarkDeleted(hist, e)[i] = hist[i]
  BY MarkedFields
<1> QED
  BY <1>1, <1>2, <1>3

LEMMA CartStart ==
    ASSUME IInv, CartInv, [Next]_vars, Never(Disturbances)',
           NEW h \in Handlers, NEW e \in DOMAIN history, StartDelete(h, e)
    PROVE  CartInv'
<1>1. /\ Newest(history, versions, snapshots, booking.cart)
      /\ InOrder(history, handler)
      /\ Shown(history, handler, booking.cart)
      /\ Remembers(history, versions, snapshots)
      /\ \A what \in Disturbances : what \notin past'
  BY CartBefore
<1>2. UNCHANGED <<history, versions, snapshots, booking>>
  BY DEF StartDelete
<1>3. CASE handler' = handler
  BY <1>1, <1>2, <1>3 DEF CartInv
<1>4. CASE /\ ~history[e].deleted
           /\ handler' = [handler EXCEPT ![h] = [stage |-> "restore", entry |-> e,
                            movement |-> MovementOf(e), todo |-> FallWith(e)]]
           /\ past' = past \cup Deletes(e, FallWith(e))
  <2>1. \A k \in Handlers : handler[k].stage = "idle"
    BY <1>1, <1>4, NoOverlap DEF Deletes, Disturbances, Never
  <2>2. /\ handler \in [Handlers -> Handling]
        /\ handler'[h].stage = "restore" /\ handler'[h].entry = e
        /\ \A k \in Handlers : k # h => handler'[k].stage = "idle"
    BY <1>4, <2>1 DEF IInv, TypeOK, Handling
  <2>3. /\ "not undone" \notin Deletes(e, FallWith(e))
        /\ "out of order" \notin Deletes(e, FallWith(e))
        /\ "cascade" \notin Deletes(e, FallWith(e))
    BY <1>1, <1>4 DEF Disturbances
  <2>4. history[e].sets # NoCart => Restorable(history[e])
    BY <2>3 DEF Deletes
  <2>5. FallWith(e) = {}
    BY <2>3 DEF Deletes
  <2>6. \A i \in Live(history) : i > e => history[i].sets = NoCart /\ ~Restorable(history[i])
    BY <2>3, <2>5 DEF Deletes
  <2>7. InOrder(history', handler')
    BY <1>2, <1>4, <2>2, <2>4, <2>6 DEF InOrder
  <2>8. Shown(history', handler', booking'.cart)
    BY <1>1, <1>2, <2>1, <2>2 DEF Shown
  <2> QED
    BY <1>1, <1>2, <2>7, <2>8 DEF CartInv
<1> QED
  BY <1>3, <1>4 DEF StartDelete

\* What a restoration that succeeds writes.
LEMMA CartRestored ==
    ASSUME IInv, NEW e \in DOMAIN history, RestoreCart(history, e)
    PROVE  /\ OldCart(history, e) # NoCart
           /\ booking'.cart = OldCart(history, e)
           /\ versions' = Append(versions, OldCart(history, e))
           /\ history' = Append(history, Note(NoEvent, 0))
<1> DEFINE old == OldCart(history, e)
<1>1. booking \in Booking /\ old \in Cart /\ history[e].amount \in Int
  BY IInvFacts, EntryFields DEF IInv, TypeOK, Booking
<1>2. PICK strip \in BOOLEAN :
        booking' = [booking EXCEPT
                      !.cart = old,
                      !.totalPaid = IF history[e].amount > 0
                                    THEN MaxZero(@ - history[e].amount) ELSE @,
                      !.deliveryCost = IF strip THEN 0 ELSE @]
  BY DEF RestoreCart
<1> DEFINE p == IF history[e].amount > 0
                THEN MaxZero(booking.totalPaid - history[e].amount) ELSE booking.totalPaid
           d == IF strip THEN 0 ELSE booking.deliveryCost
<1>3. p \in Int /\ d \in Int
  BY <1>1 DEF MaxZero, Booking
<1>4. booking' = [booking EXCEPT !.cart = old, !.totalPaid = p, !.deliveryCost = d]
  BY <1>2
<1> HIDE DEF old, p, d
<1>5. booking'.cart = old
  <2>1. ASSUME NEW b \in Booking, NEW cart, NEW x, NEW y
        PROVE  [b EXCEPT !.cart = cart, !.totalPaid = x, !.deliveryCost = y].cart = cart
    <3>1. [b EXCEPT !.cart = cart].cart = cart
      BY DEF Booking
    <3> QED
      BY <3>1 DEF Booking
  <2>2. [booking EXCEPT !.cart = old, !.totalPaid = p, !.deliveryCost = d].cart = old
    BY <1>1, <2>1
  <2> QED
    BY <1>4, <2>2
<1> QED
  BY <1>5 DEF RestoreCart, old

LEMMA CartRestore ==
    ASSUME IInv, CartInv, [Next]_vars, Never(Disturbances)', NEW h \in Handlers, Restore(h)
    PROVE  CartInv'
<1> DEFINE e == handler[h].entry
<1>1. /\ Newest(history, versions, snapshots, booking.cart)
      /\ InOrder(history, handler)
      /\ Shown(history, handler, booking.cart)
      /\ Remembers(history, versions, snapshots)
      /\ "not restored" \notin past'
  BY CartBefore DEF Disturbances
<1>2. /\ handler[h].stage = "restore" /\ snapshots' = snapshots
      /\ handler' = [handler EXCEPT ![h].stage = "mark"]
      /\ IF Restorable(history[e])
         THEN /\ RestoreCart(history, e) \/ RestoreFails(history, e)
              /\ past' = past \cup Failed \cup Lacking(history[e].amount)
         ELSE /\ \/ \E original \in BOOLEAN : booking' = WithoutDelivery(booking, original)
                 \/ booking' = booking
              /\ UNCHANGED <<history, versions>>
  BY DEF Restore
<1>3. e \in DOMAIN history
  BY <1>2, HandlingFacts
<1>4. /\ handler'[h].stage = "mark" /\ handler'[h].entry = e
      /\ \A k \in Handlers : k # h => handler'[k] = handler[k]
  BY <1>2 DEF IInv, TypeOK
<1>5. \A k \in Handlers : k # h => handler[k].stage = "idle"
  BY <1>1, <1>2 DEF InOrder
<1>6. /\ ~history[e].deleted
      /\ history[e].sets # NoCart => Restorable(history[e])
      /\ \A i \in Live(history) : i > e => history[i].sets = NoCart /\ ~Restorable(history[i])
  BY <1>1, <1>2 DEF InOrder
<1> HIDE DEF e
<1>7. /\ history \in Seq(Entry) /\ DOMAIN history = 1 .. Len(history) /\ Len(history) \in Nat
      /\ versions \in Seq(Cart) /\ Len(versions) \in Nat /\ e \in Nat
      /\ DOMAIN snapshots \subseteq DOMAIN history /\ TypeOK
      /\ \A i \in DOMAIN history : history[i].older <= Len(versions)
      /\ OldCart(history, e) \in Cart
  BY <1>3, IInvFacts DEF IInv, Remembered
<1>8. ASSUME history' \in Seq(Entry), Shows(MarkDeleted(history', e), Len(history') + 1, booking'.cart)
      PROVE  Shown(history', handler', booking'.cart)
  BY <1>4, <1>5, <1>8 DEF Shown
<1>9. CASE Restorable(history[e])
  <2>1. ~RestoreFails(history, e)
    BY <1>1, <1>2, <1>9 DEF RestoreFails, Failed
  <2>2. /\ OldCart(history, e) # NoCart
        /\ booking'.cart = OldCart(history, e)
        /\ versions' = Append(versions, OldCart(history, e))
        /\ history' = Append(history, Note(NoEvent, 0))
    BY <1>2, <1>3, <1>9, <2>1, CartRestored
  <2>3. /\ Grown(history, history', Len(versions))
        /\ \A i \in Added(history, history') :
             /\ history'[i].sets = NoCart
             /\ history'[i].action # "BOOKING_MODIFIED" /\ ~Restorable(history'[i])
    BY <1>2, <1>3, <1>7, <1>9, Restores
  <2>4. /\ history' \in Seq(Entry) /\ DOMAIN history' = 1 .. Len(history')
        /\ Len(history') \in Nat /\ Len(history) <= Len(history')
        /\ \A i \in DOMAIN history : i \in DOMAIN history' /\ history'[i] = history[i]
        /\ e \in DOMAIN history'
    BY <1>3, <2>3, LenProperties DEF Grown
  <2>5. /\ versions' # <<>> /\ versions'[Len(versions')] = OldCart(history, e)
        /\ \A i \in 1 .. Len(versions) : versions'[i] = versions[i]
    BY <1>7, <2>2
  <2>6. Newest(history', versions', snapshots', booking'.cart)
    BY <2>2, <2>5 DEF Newest
  <2>7. Remembers(history', versions', snapshots')
    <3>1. DOMAIN snapshots' \subseteq DOMAIN history'
      BY <1>2, <1>7, <2>4
    <3>2. \A i \in DOMAIN history :
            /\ i \in DOMAIN snapshots' <=> i \in DOMAIN snapshots
            /\ i \in DOMAIN snapshots => snapshots'[i] = snapshots[i]
      BY <1>2
    <3> QED
      BY <1>1, <1>7, <2>3, <2>5, <3>1, <3>2, RemembersGrown
  <2>8. InOrder(history', handler')
    <3>1. \A i \in Live(history') :
            i > e => history'[i].sets = NoCart /\ ~Restorable(history'[i])
      BY <1>6, <2>3, <2>4 DEF Live, Added
    <3> QED
      BY <1>4, <1>5, <3>1 DEF InOrder
  <2>9. Shows(MarkDeleted(history', e), Len(history') + 1, booking'.cart)
    <3>1. OldCart(history, e) = Old(history, versions, snapshots, e)
      BY DEF OldCart, Old
    <3>2. Shows(history, e, booking'.cart)
      BY <1>1, <1>3, <1>6, <1>9, <2>2, <3>1 DEF Remembers, Live
    <3>3. /\ DOMAIN MarkDeleted(history', e) = DOMAIN history'
          /\ MarkDeleted(history', e)[e].deleted = TRUE
          /\ \A i \in DOMAIN history' : i # e => MarkDeleted(history', e)[i] = history'[i]
      BY <2>4, MarkedRest
    <3>4. \A i \in Live(history) : i < e =>
            /\ i \in Live(MarkDeleted(history', e)) /\ i < Len(history') + 1
            /\ MarkDeleted(history', e)[i].sets = history[i].sets
      BY <1>7, <2>4, <3>3 DEF Live
    <3>5. ASSUME NEW i \in Live(MarkDeleted(history', e)),
                 MarkDeleted(history', e)[i].sets # NoCart
          PROVE  i \in Live(history) /\ i < e /\ history[i].sets = MarkDeleted(history', e)[i].sets
      <4>1. i # e /\ i \in DOMAIN history' /\ history'[i] = MarkDeleted(history', e)[i]
        BY <3>3 DEF Live
      <4>2. i \in DOMAIN history
        BY <2>3, <3>5, <4>1 DEF Added
      <4>3. i \in Live(history) /\ history[i] = history'[i]
        BY <2>4, <4>1, <4>2 DEF Live
      <4> QED
        BY <1>6, <1>7, <3>5, <4>1, <4>2, <4>3
    <3> QED
      BY <3>2, <3>4, <3>5, ShowsAlike
  <2> QED
    BY <1>8, <2>4, <2>6, <2>7, <2>8, <2>9 DEF CartInv
<1>10. CASE ~Restorable(history[e])
  <2>1. UNCHANGED <<history, versions, snapshots>> /\ history[e].sets = NoCart
    BY <1>2, <1>6, <1>10
  <2>2. booking'.cart = booking.cart
    <3>1. booking \in [cart : Cart, total : Int, totalPaid : Int, deliveryCost : Int]
      BY <1>7 DEF TypeOK
    <3> QED
      BY <1>2, <1>10, <3>1, WithoutDeliveryType
  <2>3. Newest(history', versions', snapshots', booking'.cart)
        /\ Remembers(history', versions', snapshots')
    BY <1>1, <2>1, <2>2
  <2>4. InOrder(history', handler')
    BY <1>4, <1>5, <1>6, <2>1 DEF InOrder
  <2>5. Shows(MarkDeleted(history, e), Len(history) + 1, booking.cart)
    <3>1. Shows(history, Len(history) + 1, booking.cart)
      <4>1. history # <<>>
        BY <1>3
      <4>2. \A k \in Handlers : handler[k].stage # "mark"
        BY <1>2, <1>5
      <4> QED
        BY <1>1, <4>1, <4>2 DEF Shown
    <3>2. /\ DOMAIN MarkDeleted(history, e) = DOMAIN history
          /\ MarkDeleted(history, e)[e].deleted = TRUE
          /\ \A i \in DOMAIN history : i # e => MarkDeleted(history, e)[i] = history[i]
      BY <1>3, <1>7, MarkedRest
    <3>3. \A i \in Live(history) : history[i].sets # NoCart =>
            /\ i \in Live(MarkDeleted(history, e))
            /\ MarkDeleted(history, e)[i].sets = history[i].sets
      BY <2>1, <3>2 DEF Live
    <3>4. \A i \in Live(MarkDeleted(history, e)) :
            i \in Live(history) /\ MarkDeleted(history, e)[i].sets = history[i].sets
      BY <3>2 DEF Live
    <3> QED
      BY <3>1, <3>3, <3>4, ShowsAlike
  <2> QED
    BY <1>7, <1>8, <2>1, <2>2, <2>3, <2>4, <2>5 DEF CartInv
<1> QED
  BY <1>9, <1>10

LEMMA CartMark ==
    ASSUME IInv, CartInv, [Next]_vars, Never(Disturbances)', NEW h \in Handlers, Mark(h)
    PROVE  CartInv'
<1> DEFINE e == handler[h].entry
<1>1. /\ Newest(history, versions, snapshots, booking.cart)
      /\ InOrder(history, handler)
      /\ Shown(history, handler, booking.cart)
      /\ Remembers(history, versions, snapshots)
  BY CartBefore
<1>2. /\ handler[h].stage = "mark" /\ history' = MarkDeleted(history, e)
      /\ handler' = [handler EXCEPT ![h].stage = "unlink"]
      /\ UNCHANGED <<booking, versions, snapshots>>
  BY DEF Mark
<1>3. e \in DOMAIN history
  BY <1>2, HandlingFacts
<1>4. /\ handler'[h].stage = "unlink" /\ handler'[h].entry = e
      /\ \A k \in Handlers : k # h => handler'[k] = handler[k]
  BY <1>2 DEF IInv, TypeOK
<1>5. \A k \in Handlers : k # h => handler[k].stage = "idle"
  BY <1>1, <1>2 DEF InOrder
<1>6. /\ \A i \in Live(history) : i > e => history[i].sets = NoCart /\ ~Restorable(history[i])
      /\ Shows(MarkDeleted(history, e), Len(history) + 1, booking.cart)
  BY <1>1, <1>2 DEF InOrder, Shown
<1> HIDE DEF e
<1>7. /\ history \in Seq(Entry) /\ DOMAIN snapshots \subseteq Nat
  BY IInvFacts DEF IInv, Remembered
<1>8. /\ history' \in Seq(Entry) /\ Len(history') = Len(history)
      /\ \A i \in DOMAIN history : history'[i].action = history[i].action
  BY <1>2, <1>3, <1>7, MarkedFields
<1>9. /\ DOMAIN history' = DOMAIN history /\ history'[e].deleted = TRUE
      /\ \A i \in DOMAIN history : i # e => history'[i] = history[i]
  BY <1>2, <1>3, <1>7, MarkedRest
<1>10. Newest(history', versions', snapshots', booking'.cart)
  BY <1>1, <1>2, <1>8, <1>9 DEF Newest
<1>11. InOrder(history', handler')
  <2>1. \A i \in Live(history') : i > e => history'[i].sets = NoCart /\ ~Restorable(history'[i])
    BY <1>6, <1>9 DEF Live
  <2> QED
    BY <1>4, <1>5, <2>1 DEF InOrder
<1>12. Shown(history', handler', booking'.cart)
  BY <1>2, <1>4, <1>5, <1>6, <1>8 DEF Shown
<1>13. Remembers(history', versions', snapshots')
  BY <1>1, <1>2, <1>3, <1>6, <1>7, <1>8, <1>9, RemembersCut
<1> QED
  BY <1>10, <1>11, <1>12, <1>13 DEF CartInv

LEMMA CartUnlink ==
    ASSUME IInv, CartInv, [Next]_vars, Never(Disturbances)', NEW h \in Handlers, Unlink(h)
    PROVE  CartInv'
<1> DEFINE e == handler[h].entry
<1>1. /\ Newest(history, versions, snapshots, booking.cart)
      /\ InOrder(history, handler)
      /\ Shown(history, handler, booking.cart)
      /\ Remembers(history, versions, snapshots)
  BY CartBefore
<1>2. /\ handler[h].stage = "unlink" /\ UNCHANGED <<history, booking, versions>>
      /\ handler' = [handler EXCEPT ![h] = Idle]
      /\ snapshots' = [i \in DOMAIN snapshots \ {e} |-> snapshots[i]]
  BY DEF Unlink
<1>3. e \in DOMAIN history /\ history[e].deleted
  BY <1>2, HandlingFacts DEF Placed
<1>4. /\ \A k \in Handlers : k # h => handler[k].stage = "idle"
      /\ \A i \in Live(history) : i > e => ~Restorable(history[i])
  BY <1>1, <1>2 DEF InOrder
<1>5. \A k \in Handlers : handler'[k].stage = "idle"
  BY <1>2, <1>4 DEF IInv, TypeOK, Idle
<1> HIDE DEF e
<1>6. history \in Seq(Entry) /\ DOMAIN snapshots \subseteq Nat
  BY IInvFacts DEF IInv, Remembered
<1>7. /\ DOMAIN snapshots' = DOMAIN snapshots \ {e}
      /\ \A i \in DOMAIN snapshots' : snapshots'[i] = snapshots[i]
  BY <1>2
<1>8. Newest(history', versions', snapshots', booking'.cart)
  BY <1>1, <1>2, <1>7 DEF Newest
<1>9. Shows(history, Len(history) + 1, booking.cart)
  <2>1. history # <<>>
    BY <1>3
  <2>2. \A k \in Handlers : handler[k].stage # "mark"
    BY <1>2, <1>4
  <2> QED
    BY <1>1, <2>1, <2>2 DEF Shown
<1>10. InOrder(history', handler') /\ Shown(history', handler', booking'.cart)
  BY <1>2, <1>5, <1>9, InOrderIdle
<1>11. Remembers(history, versions, snapshots')
  <2>1. DOMAIN snapshots' \subseteq Nat
    BY <1>6, <1>7
  <2>2. \A i \in Nat : i # e =>
          /\ i \in DOMAIN snapshots' <=> i \in DOMAIN snapshots
          /\ i \in DOMAIN snapshots => snapshots'[i] = snapshots[i]
    BY <1>7
  <2> QED
    BY <1>1, <1>3, <1>4, <1>6, <2>1, <2>2, RemembersCut
<1> QED
  BY <1>2, <1>8, <1>10, <1>11 DEF CartInv

\* Every step keeps the cart in step with the timeline.
LEMMA CartNext ==
    ASSUME IInv, NothingFalls, CartInv, [Next]_vars
    PROVE  CartInv'
<1> SUFFICES ASSUME Never(Disturbances)'
             PROVE  CartInv'
  BY DEF CartInv
<1>1. \A what \in Disturbances : what \notin past'
  BY CartBefore
<1>2. CASE CreateContract
  BY <1>2, CartCreate
<1>3. ASSUME NEW u \in Updates, Update(u)
      PROVE  CartInv'
  <2>1. CASE UNCHANGED <<booking, history, versions, snapshots>>
    BY <1>3, <2>1, UpdateStep, CartBefore DEF CartInv
  <2>2. ASSUME NEW charge \in BOOLEAN, ApplyUpdate(u, charge)
        PROVE  CartInv'
    BY <1>3, <2>2, CartUpdate DEF Update
  <2> QED
    BY <1>3, <2>1, <2>2, UpdateStep
<1>4. ASSUME NEW r \in Reports, ReportEvent(r)
      PROVE  CartInv'
  BY <1>4, CartReport DEF ReportEvent
<1>5. ASSUME NEW h \in Handlers, NEW e \in DOMAIN history, StartDelete(h, e)
      PROVE  CartInv'
  BY <1>5, CartStart
<1>6. \A h \in Handlers : ~Cascade(h)
  BY NeverBefore DEF NothingFalls, Never, Disturbances, Cascade
<1>7. ASSUME NEW h \in Handlers, Restore(h) \/ Mark(h) \/ Unlink(h)
      PROVE  CartInv'
  BY <1>7, CartRestore, CartMark, CartUnlink
<1>8. \A h \in Handlers : ~Abort(h)
  BY <1>1 DEF Abort, Disturbances
<1>9. CASE \/ \E m \in DOMAIN movements : DeleteMovement(m) \/ RestoreMovement(m)
           \/ \E e \in DOMAIN history : RestoreEntry(e)
           \/ UNCHANGED vars
  <2>1. UNCHANGED <<booking, history, versions, snapshots, handler>>
    BY <1>1, <1>9 DEF DeleteMovement, RestoreMovement, RestoreEntry, vars, Disturbances
  <2> QED
    BY <2>1, CartBefore DEF CartInv
<1> QED
  BY <1>2, <1>3, <1>4, <1>5, <1>6, <1>7, <1>8, <1>9 DEF Next, Handle

\* The booking always has some vehicle in its cart.
CartsHaveItems == NoCart \notin Carts

\* The booking has the cart that its timeline shows, through any number of extensions,
\* changes of vehicle, edits and deletions that go back from the newest entry
\* (softDeleteHistoryEntry, restoreCartFromSnapshot).
THEOREM CartFollows ==
    ASSUME CartsHaveItems
    PROVE  Spec => []CartFollowsTimeline
<1>1. Init => NothingFalls /\ CartInv
  <2> SUFFICES ASSUME Init PROVE NothingFalls /\ CartInv
    OBVIOUS
  <2>1. booking.cart # NoCart
    BY DEF Init, CartsHaveItems
  <2>2. /\ history = <<>> /\ versions = <<>> /\ DOMAIN history = {} /\ DOMAIN snapshots = {}
        /\ \A h \in Handlers : handler[h].stage = "idle" /\ handler[h].todo = {}
    BY DEF Init, Idle
  <2> QED
    BY <2>1, <2>2 DEF NothingFalls, CartInv, Newest, InOrder, Shown, Remembers, Live
<1>2. IInv /\ CartInv => CartFollowsTimeline
  <2> SUFFICES ASSUME IInv, CartInv, history # <<>>, ~Busy, Never(Disturbances)
               PROVE  booking.cart = TimelineCart
    BY DEF CartFollowsTimeline, Disturbances
  <2> DEFINE setting == {i \in Live(history) : history[i].sets # NoCart}
  <2>1. Shows(history, Len(history) + 1, booking.cart)
    BY DEF CartInv, Shown, Busy
  <2>2. PICK i \in Live(history) :
          /\ history[i].sets = booking.cart /\ booking.cart # NoCart
          /\ \A j \in Live(history) : i < j /\ j < Len(history) + 1 => history[j].sets = NoCart
    BY <2>1 DEF Shows
  <2>3. DOMAIN history = 1 .. Len(history) /\ Len(history) \in Nat
    BY IInvFacts
  <2>4. i \in setting /\ setting \in SUBSET Nat /\ \A x \in setting : x <= i
    BY <2>2, <2>3 DEF Live
  <2>5. i \in Nat
    BY <2>4
  <2>6. Max(setting) \in setting /\ i <= Max(setting)
    <3> HIDE DEF setting
    <3> QED
      BY <2>4, <2>5, GreatestPlace
  <2>7. Max(setting) = i
    BY <2>4, <2>5, <2>6
  <2> QED
    BY <2>2, <2>7 DEF TimelineCart
<1>3. IInv /\ NothingFalls /\ CartInv /\ [Next]_vars => NothingFalls' /\ CartInv'
  BY NothingFallsNext, CartNext
<1> QED
  BY LinksHold, <1>1, <1>2, <1>3, PTL DEF Spec
-----------------------------------------------------------------------------
(* What was paid is what the contract comes to. *)

\* What an entry adds to the net total is an integer.
LEMMA MoneyType ==
    ASSUME NEW x \in Entry
    PROVE  Money(x) \in Int
<1>1. x.amount \in Int
  BY EntryFields
<1> QED
  BY <1>1 DEF Money, Signed

\* f is the sum of the money of the first entries, for each number of them.
IsSum(f, hist) ==
    /\ f \in [0 .. Len(hist) -> Int]
    /\ f[0] = 0
    /\ \A n \in 1 .. Len(hist) : f[n] = f[n - 1] + Money(hist[n])

\* There are such sums for every beginning of a timeline, since a first place that had
\* none would follow one that has.
LEMMA SumsExist ==
    ASSUME NEW hist \in Seq(Entry)
    PROVE  \E f : IsSum(f, hist)
<1> DEFINE L == Len(hist)
           For(f, n) == /\ f \in [0 .. n -> Int]
                        /\ f[0] = 0
                        /\ \A k \in 1 .. n : f[k] = f[k - 1] + Money(hist[k])
           T == {n \in 0 .. L : ~\E f : For(f, n)}
<1>1. L \in Nat /\ \A k \in 1 .. L : Money(hist[k]) \in Int
  BY LenProperties, EntryAt, MoneyType
<1> SUFFICES ASSUME T # {} PROVE FALSE
  <2>1. T = {} => L \notin T
    OBVIOUS
  <2>2. L \notin T => \E f : For(f, L)
    BY <1>1
  <2> QED
    BY <2>1, <2>2 DEF IsSum
<1>2. PICK m \in T : \A n \in T : m <= n
  <2>1. T \in SUBSET Nat
    BY <1>1
  <2> HIDE DEF T
  <2> QED
    BY <2>1, LeastPlace
<1>3. m \in 0 .. L /\ ~\E f : For(f, m)
  BY <1>2
<1>4. CASE m = 0
  <2>1. For([k \in 0 .. 0 |-> 0], 0)
    OBVIOUS
  <2> QED
    BY <1>3, <1>4, <2>1
<1>5. CASE m # 0
  <2>1. m - 1 \in 0 .. L /\ m - 1 \notin T
    <3>1. m - 1 \in 0 .. L /\ m \in Nat
      BY <1>1, <1>3, <1>5
    <3> HIDE DEF T
    <3> QED
      BY <1>2, <3>1
  <2>2. PICK f : For(f, m - 1)
    BY <2>1
  <2> DEFINE g == [k \in 0 .. m |-> IF k = m THEN f[m - 1] + Money(hist[m]) ELSE f[k]]
  <2>3. f[m - 1] \in Int /\ Money(hist[m]) \in Int /\ m \in Nat
    BY <1>1, <1>3, <1>5, <2>2
  <2>4. g \in [0 .. m -> Int]
    BY <2>2, <2>3
  <2>5. g[0] = 0
    BY <1>5, <2>2, <2>3
  <2>6. \A k \in 1 .. m : g[k] = g[k - 1] + Money(hist[k])
    <3> TAKE k \in 1 .. m
    <3>1. CASE k = m
      BY <3>1, <2>3, <1>5
    <3>2. CASE k # m
      <4>1. k \in 1 .. m - 1 /\ k \in 0 .. m /\ k - 1 \in 0 .. m /\ k - 1 # m
        BY <3>2, <2>3
      <4>2. g[k] = f[k] /\ g[k - 1] = f[k - 1]
        BY <3>2, <4>1
      <4>3. f[k] = f[k - 1] + Money(hist[k])
        BY <2>2, <4>1
      <4> QED
        BY <4>2, <4>3
    <3> QED
      BY <3>1, <3>2
  <2> HIDE DEF g
  <2>7. For(g, m)
    BY <2>4, <2>5, <2>6
  <2> QED
    BY <1>3, <2>7
<1> QED
  BY <1>4, <1>5

\* SumOf is the last of them.
LEMMA SumsEnd ==
    ASSUME NEW hist \in Seq(Entry)
    PROVE  \E f : IsSum(f, hist) /\ SumOf(hist) = f[Len(hist)]
<1> DEFINE L == Len(hist)
           From(g) == [n \in 0 .. L |-> IF n = 0 THEN 0 ELSE g[n - 1] + Money(hist[n])]
           sum == CHOOSE g : g = From(g)
<1>1. L \in Nat
  BY LenProperties
<1>2. PICK f : IsSum(f, hist)
  BY SumsExist
<1>3. f = From(f)
  <2>1. \A n \in 0 .. L : f[n] = From(f)[n]
    BY <1>1, <1>2 DEF IsSum
  <2>2. f \in [0 .. L -> Int]
    BY <1>2 DEF IsSum
  <2> QED
    BY <2>1, <2>2
<1>4. sum = From(sum)
  <2> HIDE DEF From
  <2> QED
    BY <1>3
<1>5. SumOf(hist) = sum[L]
  BY DEF SumOf
<1> HIDE DEF sum
<1> DEFINE T == {n \in 0 .. L : sum[n] # f[n]}
<1>6. T = {}
  <2> SUFFICES ASSUME T # {} PROVE FALSE
    OBVIOUS
  <2>1. PICK m \in T : \A n \in T : m <= n
    <3>1. T \in SUBSET Nat
      BY <1>1
    <3> HIDE DEF T
    <3> QED
      BY <3>1, LeastPlace
  <2>2. m \in 0 .. L /\ sum[m] # f[m]
    BY <2>1
  <2>3. CASE m = 0
    <3>1. sum[0] = 0
      BY <1>1, <1>4
    <3> QED
      BY <1>2, <2>2, <2>3, <3>1 DEF IsSum
  <2>4. CASE m # 0
    <3>1. m - 1 \in 0 .. L /\ m - 1 \notin T /\ m \in 1 .. L
      BY <1>1, <2>1, <2>2, <2>4
    <3>2. sum[m - 1] = f[m - 1]
      BY <3>1
    <3>3. sum[m] = sum[m - 1] + Money(hist[m])
      BY <1>4, <2>2, <2>4
    <3> QED
      BY <1>2, <2>2, <3>1, <3>2, <3>3 DEF IsSum
  <2> QED
    BY <2>3, <2>4
<1>7. sum[L] = f[L]
  BY <1>1, <1>6
<1> QED
  BY <1>2, <1>5, <1>7

\* Two timelines whose money differs by d at one place differ by d.
LEMMA SumChanges ==
    ASSUME NEW old \in Seq(Entry), NEW new \in Seq(Entry), Len(old) <= Len(new),
           NEW p \in 1 .. Len(new), NEW d \in Int,
           \A i \in 1 .. Len(new) :
             Money(new[i]) = (IF i <= Len(old) THEN Money(old[i]) ELSE 0)
                             + (IF i = p THEN d ELSE 0)
    PROVE  SumOf(new) = SumOf(old) + d
<1>1. /\ Len(old) \in Nat /\ Len(new) \in Nat
      /\ \A i \in 1 .. Len(old) : Money(old[i]) \in Int
  BY LenProperties, EntryAt, MoneyType
<1>2. PICK f : IsSum(f, old) /\ SumOf(old) = f[Len(old)]
  BY SumsEnd
<1>3. PICK g : IsSum(g, new) /\ SumOf(new) = g[Len(new)]
  BY SumsEnd
<1> DEFINE Part(n) == IF n <= Len(old) THEN f[n] ELSE f[Len(old)]
           T == {n \in 0 .. Len(new) : g[n] # Part(n) + (IF n >= p THEN d ELSE 0)}
<1>4. T = {}
  <2> SUFFICES ASSUME T # {} PROVE FALSE
    OBVIOUS
  <2>1. PICK m \in T : \A n \in T : m <= n
    <3>1. T \in SUBSET Nat
      BY <1>1
    <3> HIDE DEF T
    <3> QED
      BY <3>1, LeastPlace
  <2>2. m \in 0 .. Len(new) /\ g[m] # Part(m) + (IF m >= p THEN d ELSE 0)
    BY <2>1
  <2>3. CASE m = 0
    BY <1>1, <1>2, <1>3, <2>2, <2>3 DEF IsSum
  <2>4. CASE m # 0
    <3>1. m - 1 \in 0 .. Len(new) /\ m - 1 \notin T /\ m \in 1 .. Len(new)
      <4>1. m - 1 \in 0 .. Len(new) /\ m \in 1 .. Len(new)
        BY <1>1, <2>2, <2>4
      <4> HIDE DEF T
      <4> QED
        BY <2>1, <4>1
    <3>2. g[m - 1] = Part(m - 1) + (IF m - 1 >= p THEN d ELSE 0)
      BY <3>1
    <3>3. g[m] = g[m - 1] + Money(new[m])
      BY <1>3, <3>1 DEF IsSum
    <3>4. Money(new[m]) = (IF m <= Len(old) THEN Money(old[m]) ELSE 0)
                          + (IF m = p THEN d ELSE 0)
      BY <3>1
    <3>5. /\ m <= Len(old) => /\ Part(m) = Part(m - 1) + Money(old[m])
                              /\ Money(old[m]) \in Int /\ Part(m - 1) \in Int
          /\ m > Len(old) => Part(m) = Part(m - 1) /\ Part(m) \in Int
      <4>1. CASE m <= Len(old)
        <5>1. m \in 1 .. Len(old) /\ m - 1 \in 0 .. Len(old) /\ m - 1 <= Len(old)
          BY <1>1, <3>1, <4>1
        <5>2. f[m] = f[m - 1] + Money(old[m]) /\ f[m - 1] \in Int
          BY <1>2, <5>1 DEF IsSum
        <5> QED
          BY <1>1, <4>1, <5>1, <5>2
      <4>2. CASE m > Len(old)
        <5>1. Len(old) \in 0 .. Len(old) /\ m - 1 >= Len(old) /\ ~(m <= Len(old))
          BY <1>1, <3>1, <4>2
        <5>2. f[Len(old)] \in Int
          BY <1>2, <5>1 DEF IsSum
        <5>3. m - 1 <= Len(old) => m - 1 = Len(old)
          BY <1>1, <3>1, <5>1
        <5> QED
          BY <1>1, <3>1, <4>2, <5>1, <5>2, <5>3
      <4> QED
        BY <1>1, <3>1, <4>1, <4>2
    <3> HIDE DEF Part
    <3>6. CASE m <= Len(old)
      BY <1>1, <2>2, <3>1, <3>2, <3>3, <3>4, <3>5, <3>6
    <3>7. CASE m > Len(old)
      BY <1>1, <2>2, <3>1, <3>2, <3>3, <3>4, <3>5, <3>7
    <3> QED
      BY <1>1, <3>1, <3>6, <3>7
  <2> QED
    BY <2>3, <2>4
<1>5. g[Len(new)] = Part(Len(new)) + d
  BY <1>1, <1>4
<1>6. Part(Len(new)) = f[Len(old)]
  BY <1>1
<1> QED
  BY <1>2, <1>3, <1>5, <1>6

\* The sum of a timeline is an integer.
LEMMA SumInt ==
    ASSUME NEW hist \in Seq(Entry)
    PROVE  SumOf(hist) \in Int
<1>1. PICK f : IsSum(f, hist) /\ SumOf(hist) = f[Len(hist)]
  BY SumsEnd
<1>2. Len(hist) \in Nat
  BY LenProperties
<1> QED
  BY <1>1, <1>2 DEF IsSum

\* Only the entry at the next place adds money.
LEMMA SumGrown ==
    ASSUME NEW old \in Seq(Entry), NEW new, NEW n, Grown(old, new, n),
           \A i \in Added(old, new) : i # Len(old) + 1 => Money(new[i]) = 0
    PROVE  SumOf(new) = SumOf(old) + (IF Len(old) + 1 \in DOMAIN new
                                      THEN Money(new[Len(old) + 1]) ELSE 0)
<1>1. /\ new \in Seq(Entry) /\ Len(old) <= Len(new)
      /\ \A i \in DOMAIN old : i \in DOMAIN new /\ new[i] = old[i]
      /\ Len(old) \in Nat /\ Len(new) \in Nat
      /\ DOMAIN old = 1 .. Len(old) /\ DOMAIN new = 1 .. Len(new)
  BY LenProperties DEF Grown
<1>2. CASE Len(old) + 1 \in DOMAIN new
  <2> DEFINE p == Len(old) + 1
             d == Money(new[p])
  <2>1. p \in 1 .. Len(new) /\ d \in Int
    BY <1>1, <1>2, EntryAt, MoneyType
  <2>2. \A i \in 1 .. Len(new) :
          Money(new[i]) = (IF i <= Len(old) THEN Money(old[i]) ELSE 0)
                          + (IF i = p THEN d ELSE 0)
    <3> TAKE i \in 1 .. Len(new)
    <3>1. CASE i <= Len(old)
      <4>1. i \in DOMAIN old /\ i # p
        BY <1>1, <3>1
      <4>2. new[i] = old[i] /\ Money(new[i]) \in Int
        BY <1>1, <4>1, EntryAt, MoneyType
      <4> QED
        BY <3>1, <4>1, <4>2
    <3>2. CASE i = p
      <4>1. ~(i <= Len(old))
        BY <1>1, <3>2
      <4> QED
        BY <2>1, <3>2, <4>1
    <3>3. CASE i > p
      <4>1. i \in Added(old, new) /\ ~(i <= Len(old)) /\ i # p
        BY <1>1, <3>3 DEF Added
      <4> QED
        BY <4>1
    <3> QED
      BY <1>1, <3>1, <3>2, <3>3
  <2> HIDE DEF d, p
  <2>3. SumOf(new) = SumOf(old) + d
    BY <1>1, <2>1, <2>2, SumChanges
  <2> QED
    BY <1>2, <2>3 DEF d, p
<1>3. CASE Len(old) + 1 \notin DOMAIN new
  <2>1. Len(new) = Len(old)
    <3>1. Len(old) + 1 \notin 1 .. Len(new) /\ Len(old) <= Len(new)
      BY <1>1, <1>3
    <3>2. Len(old) \in Nat /\ Len(new) \in Nat
      BY <1>1
    <3> QED
      BY <3>1, <3>2
  <2>2. new = old
    BY <1>1, <2>1, SeqEqual
  <2>3. SumOf(old) \in Int
    BY SumInt
  <2> QED
    BY <1>3, <2>2, <2>3
<1> QED
  BY <1>2, <1>3

\* Marking an entry takes its money out.
LEMMA SumMarked ==
    ASSUME NEW hist \in Seq(Entry), NEW e \in DOMAIN hist
    PROVE  SumOf(MarkDeleted(hist, e)) = SumOf(hist) - Money(hist[e])
<1> DEFINE new == MarkDeleted(hist, e)
           d == 0 - Money(hist[e])
<1>1. /\ new \in Seq(Entry) /\ Len(new) = Len(hist) /\ DOMAIN new = DOMAIN hist
      /\ new[e].deleted = TRUE
      /\ \A i \in DOMAIN hist : i # e => new[i] = hist[i]
  <2>1. new \in Seq(Entry) /\ Len(new) = Len(hist)
    BY MarkedFields
  <2>2. DOMAIN new = DOMAIN hist /\ new[e].deleted = TRUE
    BY MarkedRest
  <2>3. \A i \in DOMAIN hist : i # e => new[i] = hist[i]
    BY MarkedRest
  <2> QED
    BY <2>1, <2>2, <2>3
<1>2. /\ DOMAIN hist = 1 .. Len(hist) /\ Len(hist) \in Nat /\ d \in Int
      /\ \A i \in DOMAIN hist : Money(hist[i]) \in Int
  BY LenProperties, EntryAt, MoneyType
<1>3. Money(new[e]) = 0
  BY <1>1 DEF Money
<1> HIDE DEF new
<1>4. \A i \in 1 .. Len(new) :
        Money(new[i]) = (IF i <= Len(hist) THEN Money(hist[i]) ELSE 0)
                        + (IF i = e THEN d ELSE 0)
  <2> TAKE i \in 1 .. Len(new)
  <2>1. i \in DOMAIN hist /\ i <= Len(hist) /\ Money(hist[i]) \in Int
    BY <1>1, <1>2
  <2>2. CASE i = e
    BY <1>3, <2>1, <2>2
  <2>3. CASE i # e
    BY <1>1, <2>1, <2>3
  <2> QED
    BY <2>2, <2>3
<1>5. SumOf(new) = SumOf(hist) + d
  <2> HIDE DEF d
  <2>1. e \in 1 .. Len(new) /\ Len(hist) <= Len(new)
    BY <1>1, <1>2
  <2> QED
    BY <1>1, <1>2, <1>4, <2>1, SumChanges
<1>6. SumOf(hist) \in Int
  BY SumInt
<1> QED
  BY <1>2, <1>5, <1>6 DEF new

\* Nothing is owed or due for an empty timeline.
LEMMA SumOfNothing ==
    SumOf(<<>>) = 0
<1> DEFINE none == <<>>
<1>1. none \in Seq(Entry) /\ Len(none) = 0
  BY Empties, EmptySeq
<1> HIDE DEF none
<1>2. SumOf(none) = 0
  <2>1. PICK f : IsSum(f, none) /\ SumOf(none) = f[Len(none)]
    BY <1>1, SumsEnd
  <2> QED
    BY <1>1, <2>1 DEF IsSum
<1> QED
  BY <1>2 DEF none

-----------------------------------------------------------------------------
(* What each operation does to the totals. *)

\* What changes of one field do to the others.
LEMMA BookingFields ==
    ASSUME NEW b \in Booking, NEW cart, NEW t, NEW p, NEW d
    PROVE  /\ [b EXCEPT !.cart = cart].total = b.total
           /\ [b EXCEPT !.cart = cart].totalPaid = b.totalPaid
           /\ [b EXCEPT !.cart = cart].deliveryCost = b.deliveryCost
           /\ [b EXCEPT !.totalPaid = p].total = b.total
           /\ [b EXCEPT !.totalPaid = p].totalPaid = p
           /\ [b EXCEPT !.totalPaid = p].deliveryCost = b.deliveryCost
           /\ [b EXCEPT !.total = t, !.totalPaid = p].total = t
           /\ [b EXCEPT !.total = t, !.totalPaid = p].totalPaid = p
           /\ [b EXCEPT !.total = t, !.totalPaid = p].deliveryCost = b.deliveryCost
           /\ [b EXCEPT !.cart = cart, !.totalPaid = p, !.deliveryCost = d].total = b.total
           /\ [b EXCEPT !.cart = cart, !.totalPaid = p, !.deliveryCost = d].totalPaid = p
           /\ [b EXCEPT !.cart = cart, !.totalPaid = p, !.deliveryCost = d].deliveryCost = d
           /\ [b EXCEPT !.totalPaid = p, !.total = t, !.deliveryCost = d].total = t
           /\ [b EXCEPT !.totalPaid = p, !.total = t, !.deliveryCost = d].totalPaid = p
           /\ [b EXCEPT !.totalPaid = p, !.total = t, !.deliveryCost = d].deliveryCost = d
<1>1. DOMAIN b = {"cart", "total", "totalPaid", "deliveryCost"}
  BY DEF Booking
<1> HIDE DEF Booking
<1>2. /\ [b EXCEPT !.cart = cart].total = b.total
      /\ [b EXCEPT !.cart = cart].totalPaid = b.totalPaid
      /\ [b EXCEPT !.cart = cart].deliveryCost = b.deliveryCost
  BY <1>1
<1>3. /\ [b EXCEPT !.totalPaid = p].total = b.total
      /\ [b EXCEPT !.totalPaid = p].totalPaid = p
      /\ [b EXCEPT !.totalPaid = p].deliveryCost = b.deliveryCost
  BY <1>1
<1>4. /\ [b EXCEPT !.total = t, !.totalPaid = p].total = t
      /\ [b EXCEPT !.total = t, !.totalPaid = p].totalPaid = p
      /\ [b EXCEPT !.total = t, !.totalPaid = p].deliveryCost = b.deliveryCost
  BY <1>1
<1>5. /\ [b EXCEPT !.cart = cart, !.totalPaid = p, !.deliveryCost = d].total = b.total
      /\ [b EXCEPT !.cart = cart, !.totalPaid = p, !.deliveryCost = d].totalPaid = p
      /\ [b EXCEPT !.cart = cart, !.totalPaid = p, !.deliveryCost = d].deliveryCost = d
  BY <1>1
<1>6. /\ [b EXCEPT !.totalPaid = p, !.total = t, !.deliveryCost = d].total = t
      /\ [b EXCEPT !.totalPaid = p, !.total = t, !.deliveryCost = d].totalPaid = p
      /\ [b EXCEPT !.totalPaid = p, !.total = t, !.deliveryCost = d].deliveryCost = d
  BY <1>1
<1> QED
  BY <1>2, <1>3, <1>4, <1>5, <1>6

\* An extension that is charged, a delivery, and any other charge.
LEMMA ChargedFields ==
    ASSUME booking \in Booking, NEW u \in Updates
    PROVE  LET b == Charged(booking, u)
               extra == ~IsExtensionPayment(u) /\ u.event = Delivery /\ booking.deliveryCost = 0
           IN  /\ b \in Booking
               /\ b.deliveryCost = booking.deliveryCost
               /\ b.total = IF extra THEN booking.total + u.amount ELSE booking.total
               /\ IsExtensionPayment(u) /\ u.approved /\ booking.totalPaid > 0
                    => b.totalPaid = booking.totalPaid + u.amount
               /\ ~IsExtensionPayment(u) /\ IsApproved(u) /\ u.event # NoEvent
                  /\ (u.event = Delivery => booking.deliveryCost = 0)
                    => b.totalPaid = booking.totalPaid + u.amount
<1> DEFINE newDelivery == u.event = Delivery /\ booking.deliveryCost = 0
           extra == u.event \notin {Delivery, NoEvent}
           t == IF newDelivery THEN booking.total + u.amount ELSE booking.total
           p == IF (newDelivery \/ extra) /\ IsApproved(u)
                THEN booking.totalPaid + u.amount ELSE booking.totalPaid
           q == (IF booking.totalPaid # 0 THEN booking.totalPaid ELSE booking.total) + u.amount
<1>1. u.amount \in Int /\ booking.total \in Int /\ booking.totalPaid \in Int
      /\ booking.deliveryCost \in Int
  BY BodyType DEF Booking
<1>2. t \in Int /\ p \in Int /\ q \in Int
  BY <1>1
<1>3. Charged(booking, u) = IF IsExtensionPayment(u)
                            THEN IF u.approved THEN [booking EXCEPT !.totalPaid = q]
                                 ELSE booking
                            ELSE [booking EXCEPT !.total = t, !.totalPaid = p]
  BY DEF Charged
<1>4. booking.totalPaid > 0 => q = booking.totalPaid + u.amount
  BY <1>1
<1>5. /\ IsApproved(u) /\ u.event # NoEvent /\ (u.event = Delivery => booking.deliveryCost = 0)
           => p = booking.totalPaid + u.amount
      /\ t = IF u.event = Delivery /\ booking.deliveryCost = 0
             THEN booking.total + u.amount ELSE booking.total
  OBVIOUS
<1> HIDE DEF t, p, q
<1>6. [booking EXCEPT !.totalPaid = q] \in Booking
  BY <1>2 DEF Booking
<1>7. [booking EXCEPT !.total = t, !.totalPaid = p] \in Booking
  <2> DEFINE one == [booking EXCEPT !.total = t]
  <2>1. one \in Booking
    BY <1>2 DEF Booking
  <2> HIDE DEF one
  <2>2. [one EXCEPT !.totalPaid = p] \in Booking
    BY <1>2, <2>1 DEF Booking
  <2> QED
    BY <2>2 DEF one
<1>8. CASE IsExtensionPayment(u) /\ u.approved
  BY <1>3, <1>4, <1>6, <1>8, BookingFields
<1>9. CASE IsExtensionPayment(u) /\ ~u.approved
  BY <1>3, <1>9
<1>10. CASE ~IsExtensionPayment(u)
  BY <1>3, <1>5, <1>7, <1>10, BookingFields
<1> QED
  BY <1>8, <1>9, <1>10

\* A discount is taken off what was paid and off nothing else.
LEMMA DiscountedFields ==
    ASSUME NEW b \in Booking, NEW amount \in Int
    PROVE  /\ Discounted(b, amount).total = b.total
           /\ Discounted(b, amount).deliveryCost = b.deliveryCost
           /\ Discounted(b, amount).totalPaid
                = IF amount < 0 THEN MaxZero(b.totalPaid + amount) ELSE b.totalPaid
BY BookingFields DEF Discounted

\* A delivery that goes is taken off what was paid, and off the total if it is told.
LEMMA WithoutDeliveryFields ==
    ASSUME NEW b \in Booking, NEW original
    PROVE  /\ WithoutDelivery(b, original).total
                = IF original THEN MaxZero(b.total - b.deliveryCost) ELSE b.total
           /\ WithoutDelivery(b, original).deliveryCost = 0
           /\ WithoutDelivery(b, original).totalPaid = MaxZero(b.totalPaid - b.deliveryCost)
<1> DEFINE t == IF original THEN MaxZero(b.total - b.deliveryCost) ELSE b.total
           p == MaxZero(b.totalPaid - b.deliveryCost)
<1>1. WithoutDelivery(b, original) = [b EXCEPT !.totalPaid = p, !.total = t, !.deliveryCost = 0]
  BY DEF WithoutDelivery
<1> HIDE DEF t, p
<1>2. /\ WithoutDelivery(b, original).total = t
      /\ WithoutDelivery(b, original).deliveryCost = 0
      /\ WithoutDelivery(b, original).totalPaid = p
  BY <1>1, BookingFields
<1> QED
  BY <1>2 DEF t, p

-----------------------------------------------------------------------------
(* The invariant of what was paid. *)

\* What PaidMatchesNet leaves out.
Unsettling ==
    {"owed", "expense", "second delivery", "charge deleted", "overlap", "abort",
     "not restored", "movement deleted", "fault", "reported"}

\* What is charged is not negative, and no negative amount is reported of an event that
\* is charged for, which its deletion would not give back.
ChargesAndRefunds ==
    /\ \A u \in Updates : u.amount >= 0
    /\ \A r \in Reports :
         r.amount < 0 => r.event \notin ExpenseEvents \cup {Delivery, Extension, VehicleChange}

\* Extensions and changes of vehicle are charged for.
Plain(x) == x.amount >= 0 /\ x.event \in {Extension, VehicleChange}

Priced(hist) == \A i \in DOMAIN hist : Restorable(hist[i]) => Plain(hist[i])

\* The delivery is a part of the total.
Costs(b) == b.deliveryCost >= 0 /\ b.deliveryCost <= b.total

\* The deletion of e gives back what e cost, or there is nothing to give back.
Undoes(hist, e) ==
    /\ ~hist[e].deleted
    /\ \/ Restorable(hist[e])
       \/ hist[e].amount = 0 /\ hist[e].event # Delivery
       \/ e = 2 /\ hist[e].event = Delivery

\* One deletion at a time; what it is still to delete is there.
Alone(hist, hand) ==
    \A h \in Handlers : hand[h].stage # "idle" =>
        /\ \A k \in Handlers : k # h => hand[k].stage = "idle"
        /\ hand[h].stage \in {"restore", "mark"} => Undoes(hist, hand[h].entry)
        /\ hand[h].stage = "restore" =>
             \A i \in hand[h].todo :
                i \in Live(hist) /\ i # hand[h].entry /\ Restorable(hist[i])

\* An entry that is given back but not yet marked counts no more.
Settled(b, hist, hand) ==
    /\ (\A h \in Handlers : hand[h].stage # "mark") => b.totalPaid = b.total + SumOf(hist)
    /\ \A h \in Handlers : hand[h].stage = "mark" =>
         b.totalPaid = b.total + SumOf(hist) - Money(hist[hand[h].entry])

PaidInv ==
    /\ Priced(history)
    /\ Costs(booking)
    /\ Never(Unsettling) => Alone(history, handler) /\ Settled(booking, history, handler)

\* An extension or a change of vehicle adds its amount.
LEMMA PlainMoney ==
    ASSUME NEW x \in Entry, Plain(x), ~x.deleted
    PROVE  Money(x) = x.amount
BY DEF Plain, Money, Signed, Extension, VehicleChange, Delivery, ExpenseEvents, Theft

\* An entry without an amount adds nothing.
LEMMA NothingMoney ==
    ASSUME NEW x \in Entry, x.amount = 0
    PROVE  Money(x) = 0
<1>1. \A n \in Int : -n = 0 - n
  OBVIOUS
<1>2. -x.amount = 0
  <2>1. x.amount \in Int /\ 0 - x.amount = 0
    BY EntryFields
  <2> QED
    BY <1>1, <2>1, Zenon
<1> QED
  BY <1>2 DEF Money, Signed

\* What a change of the contract adds: the entry of its charge, and some without money.
LEMMA UpdateEntries ==
    ASSUME TypeOK, NEW u \in Updates, NEW charge \in BOOLEAN, ApplyUpdate(u, charge)
    PROVE  /\ EntryOf(u, charge) # <<>> =>
                /\ Len(history) + 1 \in Added(history, history')
                /\ history'[Len(history) + 1] = EntryOf(u, charge)[1]
           /\ \A i \in Added(history, history') :
                \/ EntryOf(u, charge) # <<>> /\ i = Len(history) + 1
                \/ history'[i].amount = 0 /\ ~Restorable(history'[i])
<1> DEFINE a == EntryOf(u, charge)
           b == EditOf(u, charge)
           c == NotesOf(u)
           new == history'
           place == Len(history) + 1
<1>1. new = history \o a \o b \o c
  BY UpdateWrites
<1>2. /\ history \in Seq(Entry) /\ Len(history) \in Nat /\ DOMAIN history = 1 .. Len(history)
  BY LenProperties DEF TypeOK
<1>3. /\ a \in Seq(Entry) /\ Len(a) <= 1 /\ b \in Seq(Entry) /\ Len(b) <= 1
      /\ c \in Seq(Entry) /\ \A i \in DOMAIN c : c[i] = Note(DateEdit, 0)
  BY PartsType
<1>4. b # <<>> => b[1].amount = 0 /\ ~Restorable(b[1])
  BY DEF EditOf, NewEntry, Restorable, IsExtension, IsVehicleChange, Extension,
         VehicleChange, NoEvent
<1>5. Note(DateEdit, 0).amount = 0 /\ ~Restorable(Note(DateEdit, 0))
  BY DEF Note, NewEntry, Restorable, IsExtension, IsVehicleChange, Extension,
         VehicleChange, DateEdit
<1> HIDE DEF a, b, c, new
<1>6. JoinedAs(new, history, a, b, c)
  BY <1>1, <1>2, <1>3, Joined
<1>7. a # <<>> => place \in Added(history, new) /\ new[place] = a[1]
  BY <1>2, <1>6 DEF JoinedAs, Added
<1>8. \A i \in Added(history, new) :
        \/ a # <<>> /\ i = place
        \/ new[i].amount = 0 /\ ~Restorable(new[i])
  BY <1>3, <1>4, <1>5, <1>6 DEF JoinedAs
<1> QED
  BY <1>7, <1>8 DEF a, new

\* What is charged by a change of the contract.
LEMMA ChargeEntry ==
    ASSUME TypeOK, NEW u \in Updates, NEW charge \in BOOLEAN, EntryOf(u, charge) # <<>>
    PROVE  /\ EntryOf(u, charge)[1] \in Entry
           /\ EntryOf(u, charge)[1].amount = u.amount
           /\ ~EntryOf(u, charge)[1].deleted
           /\ EntryOf(u, charge)[1].event = IF IsExtensionPayment(u) THEN Extension ELSE u.event
           /\ EntryOf(u, charge)[1].action = "EXTENSION_UPDATED" => IsExtensionPayment(u)
           /\ IsExtensionPayment(u) \/ charge
<1> DEFINE a == EntryOf(u, charge)
<1>1. /\ a \in Seq(Entry)
      /\ IsExtensionPayment(u) \/ charge
      /\ a[1].amount = u.amount /\ a[1].deleted = FALSE
      /\ a[1].action = (IF IsExtensionPayment(u) THEN "EXTENSION_UPDATED" ELSE "NOTE_ADDED")
  BY PartsType
<1>2. a[1].event = IF IsExtensionPayment(u) THEN Extension ELSE u.event
  BY <1>1 DEF EntryOf, NewEntry
<1>3. a[1] \in Entry
  <2>1. a # <<>>
    OBVIOUS
  <2> HIDE DEF a
  <2>2. 1 \in DOMAIN a
    BY <1>1, <2>1, LenProperties, EmptySeq
  <2> QED
    BY <1>1, <2>2, EntryAt
<1> QED
  BY <1>1, <1>2, <1>3

\* A change of the contract charges for what it says, if it charges.
LEMMA UpdateCharge ==
    ASSUME NEW u \in Updates, Update(u)
    PROVE  /\ history # <<>>
           /\ \/ UNCHANGED <<booking, history>>
              \/ \E charge \in BOOLEAN :
                   ApplyUpdate(u, charge) /\ (charge => IsCharge(u))
<1>1. PICK today \in BOOLEAN :
        LET duplicate == today /\ IsCharge(u) /\ ~u.confirmed /\ Duplicates(u) # {}
        IN  \/ UNCHANGED <<booking, history>>
            \/ ApplyUpdate(u, IsCharge(u) /\ ~duplicate)
  BY DEF Update
<1> DEFINE charge == IsCharge(u) /\ ~(today /\ IsCharge(u) /\ ~u.confirmed
                                      /\ Duplicates(u) # {})
<1>2. charge \in BOOLEAN /\ (charge => IsCharge(u))
  OBVIOUS
<1>3. UNCHANGED <<booking, history>> \/ ApplyUpdate(u, charge)
  BY <1>1
<1>4. history # <<>>
  BY DEF Update
<1> HIDE DEF charge
<1> QED
  BY <1>2, <1>3, <1>4

\* The totals after a change of the contract.
LEMMA UpdateBooks ==
    ASSUME TypeOK, NEW u \in Updates, NEW charge, ApplyUpdate(u, charge)
    PROVE  LET b == IF EntryOf(u, charge) # <<>> THEN Charged(booking, u) ELSE booking
           IN  /\ booking'.total = b.total
               /\ booking'.totalPaid = b.totalPaid
               /\ booking'.deliveryCost = b.deliveryCost
<1> DEFINE b == IF EntryOf(u, charge) # <<>> THEN Charged(booking, u) ELSE booking
           cart == IF u.cart # NoCart THEN u.cart ELSE b.cart
<1>1. booking \in Booking
  BY DEF TypeOK, Booking
<1>2. b \in Booking
  BY <1>1, ChargedFields
<1>3. booking' = [b EXCEPT !.cart = cart]
  BY UpdateWrites
<1> HIDE DEF b, cart
<1>4. /\ booking'.total = b.total
      /\ booking'.totalPaid = b.totalPaid
      /\ booking'.deliveryCost = b.deliveryCost
  BY <1>2, <1>3, BookingFields
<1> QED
  BY <1>4 DEF b

\* New entries that are priced leave the timeline priced.
LEMMA PricedGrown ==
    ASSUME NEW old, NEW new, NEW n, Priced(old), Grown(old, new, n),
           \A i \in Added(old, new) : Restorable(new[i]) => Plain(new[i])
    PROVE  Priced(new)
BY DEF Priced, Grown, Added

\* Marking leaves the timeline priced.
LEMMA PricedMarked ==
    ASSUME NEW hist \in Seq(Entry), NEW e \in DOMAIN hist, Priced(hist)
    PROVE  Priced(MarkDeleted(hist, e))
<1> DEFINE new == MarkDeleted(hist, e)
<1>1. /\ DOMAIN new = DOMAIN hist
      /\ \A i \in DOMAIN hist : /\ new[i].action = hist[i].action
                              /\ new[i].event = hist[i].event
                              /\ new[i].amount = hist[i].amount
  BY MarkedFields
<1> HIDE DEF new
<1>2. \A i \in DOMAIN new : Restorable(new[i]) => Plain(new[i])
  BY <1>1 DEF Priced, Plain, Restorable, IsExtension, IsVehicleChange
<1> QED
  BY <1>2 DEF Priced, new

\* The entries of a report say what was reported.
LEMMA ReportEntries ==
    ASSUME TypeOK, NEW r \in Reports, ReportEvent(r)
    PROVE  /\ \A i \in Added(history, history') :
                /\ history'[i] \in Entry
                /\ history'[i].event = r.event /\ history'[i].amount = r.amount
                /\ history'[i].action = "NOTE_ADDED" /\ ~history'[i].deleted
           /\ "fault" \notin past' /\ "abort" \notin past' =>
                /\ Added(history, history') = {Len(history) + 1}
                /\ booking' = Discounted(booking, r.amount)
           /\ Lacking(-r.amount) \subseteq past'
           /\ r.amount > 0 => "reported" \in past'
           /\ \/ booking' = Discounted(booking, r.amount)
              \/ booking' = Discounted(Discounted(booking, r.amount), r.amount)
<1> DEFINE entry == [Note(r.event, r.amount) EXCEPT !.vehicle = r.vehicle]
           linked == [entry EXCEPT !.movement = Len(movements) + 1]
<1>0. /\ history \in Seq(Entry) /\ Len(history) \in Nat /\ DOMAIN history = 1 .. Len(history)
      /\ Len(movements) \in Nat /\ versions \in Seq(Cart)
      /\ r.event \in Events /\ r.amount \in Int /\ r.vehicle \in Vehicles \cup {"none"}
  <2>1. r \in ReportBody
    BY ConstantsAssumption
  <2> QED
    BY <2>1, LenProperties DEF TypeOK, ReportBody
<1>1. /\ \/ history' \in {Append(history, linked), Append(history, entry)}
         \/ /\ history' = history \o <<entry, entry>>
            /\ "fault" \in past'
      /\ \/ booking' = Discounted(booking, r.amount)
         \/ /\ booking' = Discounted(Discounted(booking, r.amount), r.amount)
            /\ "fault" \in past'
      /\ Lacking(-r.amount) \subseteq past'
      /\ r.amount > 0 => "reported" \in past'
  BY DEF ReportEvent
<1>2. /\ entry \in Entry /\ entry.action = "NOTE_ADDED" /\ ~entry.deleted
      /\ entry.event = r.event /\ entry.amount = r.amount
  <2> DEFINE note == Note(r.event, r.amount)
  <2>1. /\ note \in Entry /\ note.action = "NOTE_ADDED" /\ note.deleted = FALSE
        /\ note.event = r.event /\ note.amount = r.amount
    <3>1. note \in Entry /\ note.action = "NOTE_ADDED" /\ note.deleted = FALSE
      BY <1>0, NoteFields, Zenon
    <3> QED
      BY <3>1 DEF Note, NewEntry
  <2>2. entry = [note EXCEPT !.vehicle = r.vehicle]
    OBVIOUS
  <2> HIDE DEF note
  <2> QED
    BY <1>0, <2>1, <2>2 DEF Entry
<1> HIDE DEF entry
<1>3. /\ linked \in Entry /\ linked.action = "NOTE_ADDED" /\ ~linked.deleted
      /\ linked.event = r.event /\ linked.amount = r.amount
  <2>1. ASSUME NEW x \in Entry, NEW n \in Nat
        PROVE  LET y == [x EXCEPT !.movement = n]
               IN  /\ y \in Entry /\ y.event = x.event /\ y.amount = x.amount
                   /\ y.action = x.action /\ y.deleted = x.deleted
    BY DEF Entry
  <2>2. Len(movements) + 1 \in Nat
    BY <1>0
  <2> QED
    BY <1>2, <2>1, <2>2
<1> HIDE DEF linked
<1>4. ASSUME NEW x \in Entry, history' = Append(history, x)
      PROVE  /\ Added(history, history') = {Len(history) + 1}
             /\ history'[Len(history) + 1] = x
  <2>1. /\ history' \in Seq(Entry) /\ Len(history') = Len(history) + 1
        /\ history'[Len(history) + 1] = x
    BY <1>0, <1>4, AppendProperties
  <2>2. DOMAIN history' = 1 .. Len(history) + 1
    BY <2>1, LenProperties
  <2>3. Added(history, history') = {Len(history) + 1}
    BY <1>0, <2>2 DEF Added
  <2> QED
    BY <2>1, <2>3
<1>5. CASE history' = Append(history, linked)
  BY <1>1, <1>3, <1>4, <1>5
<1>6. CASE history' = Append(history, entry)
  BY <1>1, <1>2, <1>4, <1>6
<1>7. CASE history' = history \o <<entry, entry>> /\ "fault" \in past'
  <2> DEFINE two == <<entry, entry>>
  <2>1. two \in Seq(Entry) /\ Len(two) = 2 /\ \A i \in 1 .. 2 : two[i] = entry
    BY <1>2
  <2>2. history' = history \o two
    BY <1>7
  <2> HIDE DEF two
  <2>3. /\ history' \in Seq(Entry) /\ Len(history') = Len(history) + 2
        /\ \A i \in 1 .. Len(history) + 2 :
             history'[i] = IF i <= Len(history) THEN history[i] ELSE two[i - Len(history)]
    <3>1. /\ history \o two \in Seq(Entry) /\ Len(history \o two) = Len(history) + Len(two)
          /\ \A i \in 1 .. Len(history) + Len(two) :
               (history \o two)[i] = IF i <= Len(history) THEN history[i]
                                     ELSE two[i - Len(history)]
      BY <1>0, <2>1, ConcatProperties
    <3> QED
      BY <2>1, <2>2, <3>1
  <2>4. DOMAIN history' = 1 .. Len(history) + 2
    BY <2>3, LenProperties
  <2>5. \A i \in Added(history, history') : history'[i] = entry
    BY <1>0, <2>1, <2>3, <2>4 DEF Added
  <2> QED
    BY <1>1, <1>2, <1>7, <2>5
<1> QED
  BY <1>1, <1>5, <1>6, <1>7

\* The first entries have no money of their own: the total has the delivery already.
LEMMA CreateEntries ==
    ASSUME TypeOK, CreateContract
    PROVE  \A i \in Added(history, history') : Money(history'[i]) = 0
<1> DEFINE made == NewEntry("CONTRACT_CREATED", NoEvent, 0, "none", NoCart, booking.cart)
           sent == NewEntry("NOTE_ADDED", Delivery, booking.deliveryCost,
                            FirstVehicle(booking.cart), NoCart, NoCart)
           rest == IF booking.deliveryCost > 0 THEN <<sent>> ELSE <<>>
<1>1. history = <<>> /\ history' = <<made>> \o rest
  BY DEF CreateContract
<1>2. /\ Len(versions) \in Nat /\ booking.cart \in Cart /\ NoCart \in Cart
      /\ booking.deliveryCost \in Int
      /\ FirstVehicle(booking.cart) \in Vehicles \cup {"none"}
      /\ NoEvent \in Events /\ Delivery \in Events
      /\ "CONTRACT_CREATED" \in Actions /\ "NOTE_ADDED" \in Actions
  BY LenProperties, Empties, FirstVehicleType DEF TypeOK, Events, Actions
<1>3. made \in Entry /\ made.amount = 0
  BY <1>2 DEF NewEntry, Entry
<1>4. sent \in Entry /\ sent.event = Delivery
  BY <1>2 DEF NewEntry, Entry
<1>5. Money(made) = 0 /\ Money(sent) = 0
  BY <1>3, <1>4, NothingMoney DEF Money
<1> HIDE DEF made, sent
<1>6. /\ <<made>> \in Seq(Entry) /\ Len(<<made>>) = 1 /\ <<made>>[1] = made
      /\ rest \in Seq(Entry) /\ Len(rest) \in {0, 1}
      /\ Len(rest) = 1 => rest[1] = sent
  BY <1>3, <1>4, One, Empties, EmptySeq
<1> HIDE DEF rest
<1>7. /\ history' \in Seq(Entry) /\ Len(history') = 1 + Len(rest)
      /\ \A i \in 1 .. Len(history') : history'[i] = IF i = 1 THEN made ELSE sent
  <2>1. /\ <<made>> \o rest \in Seq(Entry) /\ Len(<<made>> \o rest) = 1 + Len(rest)
        /\ \A i \in 1 .. 1 + Len(rest) :
             (<<made>> \o rest)[i] = IF i <= 1 THEN <<made>>[i] ELSE rest[i - 1]
    BY <1>6, ConcatProperties
  <2> QED
    BY <1>1, <1>6, <2>1
<1>8. DOMAIN history' = 1 .. Len(history')
  BY <1>7, LenProperties
<1> QED
  BY <1>5, <1>7, <1>8 DEF Added

\* The note of a restoration has no money.
LEMMA Noted ==
    ASSUME NEW hist \in Seq(Entry), versions \in Seq(Cart)
    PROVE  LET new == Append(hist, Note(NoEvent, 0))
           IN  /\ Grown(hist, new, Len(versions))
               /\ SumOf(new) = SumOf(hist)
               /\ \A i \in Added(hist, new) : ~Restorable(new[i])
<1> DEFINE note == Note(NoEvent, 0)
           new == Append(hist, note)
<1>1. /\ note \in Entry /\ ~note.deleted /\ note.older = Len(versions) /\ note.amount = 0
      /\ ~Restorable(note)
  <2>1. NoEvent \in Events /\ 0 \in Int
    BY DEF Events
  <2>2. /\ note \in Entry /\ note.deleted = FALSE /\ note.older = Len(versions)
    BY <2>1, NoteFields, Zenon
  <2> QED
    BY <2>2 DEF Note, NewEntry, Restorable, IsExtension, IsVehicleChange, Extension,
                VehicleChange, NoEvent
<1> HIDE DEF note
<1>2. /\ new \in Seq(Entry) /\ Len(new) = Len(hist) + 1 /\ Len(hist) \in Nat
      /\ \A i \in 1 .. Len(hist) : new[i] = hist[i]
      /\ new[Len(hist) + 1] = note
  BY <1>1, AppendProperties, LenProperties
<1>3. DOMAIN new = 1 .. Len(hist) + 1 /\ DOMAIN hist = 1 .. Len(hist)
  BY <1>2, LenProperties
<1> HIDE DEF new
<1>4. \A i \in Added(hist, new) : i = Len(hist) + 1 /\ new[i] = note
  BY <1>2, <1>3 DEF Added
<1>5. Grown(hist, new, Len(versions))
  BY <1>1, <1>2, <1>3, <1>4 DEF Grown
<1>6. SumOf(new) = SumOf(hist)
  <2>1. SumOf(new) = SumOf(hist) + (IF Len(hist) + 1 \in DOMAIN new
                                    THEN Money(new[Len(hist) + 1]) ELSE 0)
    BY <1>4, <1>5, SumGrown
  <2>2. Money(new[Len(hist) + 1]) = 0 /\ SumOf(hist) \in Int
    BY <1>1, <1>2, NothingMoney, SumInt
  <2> QED
    BY <2>1, <2>2
<1> QED
  BY <1>1, <1>4, <1>5, <1>6 DEF new, note

\* What a restoration takes off.
LEMMA RestoredBooks ==
    ASSUME TypeOK, NEW hist \in Seq(Entry), NEW e \in DOMAIN hist, RestoreCart(hist, e)
    PROVE  /\ history' = Append(hist, Note(NoEvent, 0))
           /\ booking'.total = booking.total
           /\ booking'.deliveryCost \in {0, booking.deliveryCost}
           /\ booking'.totalPaid = IF hist[e].amount > 0
                                   THEN MaxZero(booking.totalPaid - hist[e].amount)
                                   ELSE booking.totalPaid
<1> DEFINE old == OldCart(hist, e)
           p == IF hist[e].amount > 0 THEN MaxZero(booking.totalPaid - hist[e].amount)
                ELSE booking.totalPaid
<1>1. booking \in Booking
  BY DEF TypeOK, Booking
<1>2. PICK d \in {0, booking.deliveryCost} :
        booking' = [booking EXCEPT !.cart = old, !.totalPaid = p, !.deliveryCost = d]
  BY DEF RestoreCart
<1>3. history' = Append(hist, Note(NoEvent, 0))
  BY DEF RestoreCart
<1> HIDE DEF old, p
<1>4. /\ booking'.total = booking.total /\ booking'.deliveryCost = d
      /\ booking'.totalPaid = p
  BY <1>1, <1>2, BookingFields
<1> QED
  BY <1>3, <1>4 DEF p

\* What a step that deletes may do to the timeline and the totals.
LEMMA DeletionBooks ==
    ASSUME TypeOK, NEW hist \in Seq(Entry), NEW e \in DOMAIN hist, Priced(hist),
           Costs(booking), RestoreCart(hist, e) \/ RestoreFails(hist, e)
    PROVE  Priced(history') /\ Costs(booking')
<1>1. CASE RestoreFails(hist, e)
  BY <1>1 DEF RestoreFails
<1>2. CASE RestoreCart(hist, e)
  <2> DEFINE new == Append(hist, Note(NoEvent, 0))
  <2>1. history' = new
    BY <1>2, RestoredBooks
  <2>2. versions \in Seq(Cart)
    BY DEF TypeOK
  <2>3. Grown(hist, new, Len(versions)) /\ \A i \in Added(hist, new) : ~Restorable(new[i])
    BY <2>2, Noted
  <2> HIDE DEF new
  <2>4. Priced(new)
    BY <2>3, PricedGrown
  <2>5. booking'.total = booking.total /\ booking'.deliveryCost \in {0, booking.deliveryCost}
    BY <1>2, RestoredBooks
  <2>6. Costs(booking')
    BY <2>5 DEF Costs, TypeOK
  <2> QED
    BY <2>1, <2>4, <2>6
<1> QED
  BY <1>1, <1>2

\* No step, whatever happened before, prices an entry wrongly or makes the delivery
\* cost more than the total.
LEMMA PricedNext ==
    ASSUME IInv, Priced(history), Costs(booking), ChargesAndRefunds, [Next]_vars
    PROVE  Priced(history') /\ Costs(booking')
<1>0. TypeOK /\ history \in Seq(Entry) /\ booking \in Booking
      /\ booking.total \in Int /\ booking.deliveryCost \in Int /\ booking.totalPaid \in Int
  BY DEF IInv, TypeOK, Booking
<1>1. CASE CreateContract
  <2>1. /\ Grown(history, history', Len(versions)) /\ booking' = booking
        /\ \A i \in Added(history, history') : ~Restorable(history'[i])
    BY <1>0, <1>1, CreateAdds DEF CreateContract
  <2> QED
    BY <2>1, PricedGrown
<1>2. ASSUME NEW u \in Updates, Update(u)
      PROVE  Priced(history') /\ Costs(booking')
  <2>1. CASE UNCHANGED <<booking, history>>
    BY <2>1
  <2>2. ASSUME NEW charge \in BOOLEAN, ApplyUpdate(u, charge)
        PROVE  Priced(history') /\ Costs(booking')
    <3>1. Grown(history, history', Len(versions)) /\ u.amount >= 0 /\ u.amount \in Int
      BY <1>0, <2>2, UpdateAdds, BodyType DEF ChargesAndRefunds
    <3>2. ASSUME NEW i \in Added(history, history'), Restorable(history'[i])
          PROVE  Plain(history'[i])
      <4>1. /\ EntryOf(u, charge) # <<>> /\ i = Len(history) + 1
            /\ history'[i] = EntryOf(u, charge)[1]
        BY <1>0, <2>2, <3>2, UpdateEntries
      <4>2. /\ history'[i].amount = u.amount
            /\ history'[i].event = IF IsExtensionPayment(u) THEN Extension ELSE u.event
            /\ history'[i].action = "EXTENSION_UPDATED" => IsExtensionPayment(u)
        BY <1>0, <4>1, ChargeEntry
      <4>3. history'[i].event \in {Extension, VehicleChange}
        BY <3>2, <4>2 DEF Restorable, IsExtension, IsVehicleChange
      <4> QED
        BY <3>1, <4>2, <4>3 DEF Plain
    <3>3. Priced(history')
      BY <3>1, <3>2, PricedGrown
    <3>4. /\ booking'.deliveryCost = booking.deliveryCost
          /\ booking'.total \in {booking.total, booking.total + u.amount}
      <4>1. LET b == IF EntryOf(u, charge) # <<>> THEN Charged(booking, u) ELSE booking
            IN  booking'.total = b.total /\ booking'.deliveryCost = b.deliveryCost
        BY <1>0, <2>2, UpdateBooks
      <4>2. /\ Charged(booking, u).deliveryCost = booking.deliveryCost
            /\ Charged(booking, u).total \in {booking.total, booking.total + u.amount}
        BY <1>0, ChargedFields
      <4> QED
        BY <4>1, <4>2
    <3> QED
      BY <1>0, <3>1, <3>3, <3>4 DEF Costs
  <2> QED
    BY <1>2, <2>1, <2>2, UpdateCharge
<1>3. ASSUME NEW r \in Reports, ReportEvent(r)
      PROVE  Priced(history') /\ Costs(booking')
  <2>1. /\ Grown(history, history', Len(versions))
        /\ \A i \in Added(history, history') :
             /\ history'[i].event = r.event /\ history'[i].amount = r.amount
             /\ history'[i].action = "NOTE_ADDED"
        /\ \/ booking' = Discounted(booking, r.amount)
           \/ booking' = Discounted(Discounted(booking, r.amount), r.amount)
    BY <1>0, <1>3, ReportAdds, ReportEntries
  <2>2. r.amount \in Int
    BY ConstantsAssumption DEF ReportBody
  <2>3. \A i \in Added(history, history') : Restorable(history'[i]) => Plain(history'[i])
    BY <2>1, <2>2 DEF Restorable, IsExtension, IsVehicleChange, Plain, ChargesAndRefunds
  <2>4. Priced(history')
    BY <2>1, <2>3, PricedGrown
  <2>5. booking'.total = booking.total /\ booking'.deliveryCost = booking.deliveryCost
    <3> DEFINE once == Discounted(booking, r.amount)
    <3>1. once \in Booking /\ once.total = booking.total
          /\ once.deliveryCost = booking.deliveryCost
      BY <1>0, <2>2, DiscountedType, DiscountedFields DEF Booking
    <3> HIDE DEF once
    <3>2. /\ Discounted(once, r.amount).total = booking.total
          /\ Discounted(once, r.amount).deliveryCost = booking.deliveryCost
      BY <2>2, <3>1, DiscountedFields
    <3>3. booking' = once \/ booking' = Discounted(once, r.amount)
      BY <2>1 DEF once
    <3> QED
      BY <3>1, <3>2, <3>3
  <2> QED
    BY <2>4, <2>5 DEF Costs
<1>4. ASSUME NEW h \in Handlers, Cascade(h)
      PROVE  Priced(history') /\ Costs(booking')
  <2> DEFINE next == Min(handler[h].todo)
             marked == MarkDeleted(history, next)
  <2>1. RestoreCart(marked, next) \/ RestoreFails(marked, next)
    BY <1>4 DEF Cascade
  <2>2. next \in DOMAIN history
    BY <1>4, HandlingFacts DEF Cascade
  <2> HIDE DEF next
  <2>3. marked \in Seq(Entry) /\ next \in DOMAIN marked /\ Priced(marked)
    BY <1>0, <2>2, MarkedFields, PricedMarked
  <2> HIDE DEF marked
  <2> QED
    BY <1>0, <2>1, <2>3, DeletionBooks
<1>5. ASSUME NEW h \in Handlers, Restore(h)
      PROVE  Priced(history') /\ Costs(booking')
  <2> DEFINE e == handler[h].entry
  <2>1. \/ RestoreCart(history, e) \/ RestoreFails(history, e)
        \/ /\ \/ booking' = booking
              \/ \E original \in BOOLEAN : booking' = WithoutDelivery(booking, original)
           /\ history' = history
    BY <1>5 DEF Restore
  <2>2. e \in DOMAIN history
    BY <1>5, HandlingFacts DEF Restore
  <2> HIDE DEF e
  <2>3. CASE RestoreCart(history, e) \/ RestoreFails(history, e)
    BY <1>0, <2>2, <2>3, DeletionBooks
  <2>4. ASSUME NEW original \in BOOLEAN, booking' = WithoutDelivery(booking, original)
        PROVE  Costs(booking')
    <3>1. /\ booking'.total = IF original THEN MaxZero(booking.total - booking.deliveryCost)
                              ELSE booking.total
          /\ booking'.deliveryCost = 0
      BY <1>0, <2>4, WithoutDeliveryFields
    <3> QED
      BY <1>0, <3>1 DEF Costs, MaxZero
  <2> QED
    BY <2>1, <2>3, <2>4
<1>6. ASSUME NEW e \in DOMAIN history, history' = MarkDeleted(history, e), booking' = booking
      PROVE  Priced(history') /\ Costs(booking')
  BY <1>0, <1>6, PricedMarked
<1>7. ASSUME NEW h \in Handlers, Mark(h)
      PROVE  Priced(history') /\ Costs(booking')
  BY <1>6, <1>7, HandlingFacts DEF Mark
<1>8. ASSUME NEW m \in DOMAIN movements, DeleteMovement(m)
      PROVE  Priced(history') /\ Costs(booking')
  BY <1>6, <1>8, IInvFacts DEF DeleteMovement
<1>9. CASE \/ \E h \in Handlers, e \in DOMAIN history : StartDelete(h, e)
           \/ \E h \in Handlers : Unlink(h) \/ Abort(h)
           \/ \E m \in DOMAIN movements : RestoreMovement(m)
           \/ \E e \in DOMAIN history : RestoreEntry(e)
           \/ UNCHANGED vars
  BY <1>9 DEF StartDelete, Unlink, Abort, RestoreMovement, RestoreEntry, vars
<1> QED
  BY <1>1, <1>2, <1>3, <1>4, <1>5, <1>7, <1>8, <1>9 DEF Next, Handle

-----------------------------------------------------------------------------
(* Every step keeps what was paid in step with the timeline. *)

\* What holds before a step that leaves the contract settled.
LEMMA PaidBefore ==
    ASSUME IInv, PaidInv, [Next]_vars, Never(Unsettling)'
    PROVE  /\ Alone(history, handler) /\ Settled(booking, history, handler)
           /\ Priced(history) /\ Costs(booking)
           /\ \A what \in Unsettling : what \notin past'
           /\ TypeOK /\ booking \in Booking /\ history \in Seq(Entry)
           /\ booking.total \in Int /\ booking.totalPaid \in Int
           /\ booking.deliveryCost \in Int
           /\ SumOf(history) \in Int
<1>1. Never(Unsettling)
  BY NeverBefore
<1>2. TypeOK /\ booking \in Booking /\ history \in Seq(Entry)
  BY DEF IInv, TypeOK, Booking
<1>3. /\ booking.total \in Int /\ booking.totalPaid \in Int /\ booking.deliveryCost \in Int
  BY <1>2 DEF Booking
<1>4. SumOf(history) \in Int
  BY <1>2, SumInt
<1> QED
  BY <1>1, <1>2, <1>3, <1>4 DEF PaidInv, Never

\* While nothing is being deleted, what was paid is the total and the timeline's money.
LEMMA PaidIdle ==
    ASSUME NEW hist, NEW hand, NEW b, \A h \in Handlers : hand[h].stage = "idle"
    PROVE  /\ Alone(hist, hand)
           /\ Settled(b, hist, hand) <=> b.totalPaid = b.total + SumOf(hist)
BY DEF Alone, Settled

\* The entries of a new contract add nothing to its total.
LEMMA PaidCreate ==
    ASSUME IInv, PaidInv, [Next]_vars, Never(Unsettling)', CreateContract
    PROVE  Alone(history', handler') /\ Settled(booking', history', handler')
<1>1. /\ Settled(booking, history, handler) /\ TypeOK /\ history \in Seq(Entry)
      /\ SumOf(history) \in Int
  BY PaidBefore
<1>2. /\ history = <<>> /\ booking' = booking /\ handler' = handler
  BY DEF CreateContract
<1>3. \A h \in Handlers : handler[h].stage = "idle"
  BY <1>2, HandlingFacts
<1>4. Grown(history, history', Len(versions))
      /\ \A i \in Added(history, history') : Money(history'[i]) = 0
  BY <1>1, CreateAdds, CreateEntries
<1>5. SumOf(history') = SumOf(history)
  <2>1. SumOf(history') = SumOf(history) + (IF Len(history) + 1 \in DOMAIN history'
                                            THEN Money(history'[Len(history) + 1]) ELSE 0)
    BY <1>1, <1>4, SumGrown
  <2>2. Len(history) + 1 \in DOMAIN history' => Len(history) + 1 \in Added(history, history')
    BY <1>1, LenProperties DEF Added
  <2> QED
    BY <1>1, <1>4, <2>1, <2>2
<1> QED
  BY <1>1, <1>2, <1>3, <1>5, PaidIdle

\* A charge that is paid at once.
LEMMA PaidUpdate ==
    ASSUME IInv, PaidInv, ChargesAndRefunds, [Next]_vars, Never(Unsettling)',
           NEW u \in Updates, NEW charge \in BOOLEAN, charge => IsCharge(u),
           ApplyUpdate(u, charge), handler' = handler
    PROVE  Alone(history', handler') /\ Settled(booking', history', handler')
<1> DEFINE a == EntryOf(u, charge)
           place == Len(history) + 1
<1>1. /\ Settled(booking, history, handler) /\ Costs(booking)
      /\ TypeOK /\ booking \in Booking /\ history \in Seq(Entry)
      /\ booking.total \in Int /\ booking.totalPaid \in Int /\ booking.deliveryCost \in Int
      /\ SumOf(history) \in Int
      /\ "overlap" \notin past' /\ "owed" \notin past' /\ "second delivery" \notin past'
      /\ "expense" \notin past'
  BY PaidBefore DEF Unsettling
<1>0. booking.total \in Int /\ booking.totalPaid \in Int /\ SumOf(history) \in Int
  BY <1>1
<1>2. /\ Overlapping \subseteq past'
      /\ a # <<>> /\ ~Settles(u) => "owed" \in past'
      /\ charge /\ u.event = Delivery /\ booking.deliveryCost > 0 => "second delivery" \in past'
      /\ charge /\ u.event \in ExpenseEvents => "expense" \in past'
  BY DEF ApplyUpdate, EntryOf
<1>3. \A h \in Handlers : handler[h].stage = "idle"
  BY <1>1, <1>2, NoOverlap DEF Never
<1>4. booking.totalPaid = booking.total + SumOf(history)
  BY <1>1, <1>3, PaidIdle
<1>5. /\ Grown(history, history', Len(versions))
      /\ a # <<>> => place \in Added(history, history') /\ history'[place] = a[1]
      /\ \A i \in Added(history, history') :
           (a # <<>> /\ i = place) \/ history'[i].amount = 0
  BY <1>1, UpdateAdds, UpdateEntries
<1>6. \A i \in Added(history, history') :
        (a # <<>> /\ i = place) \/ Money(history'[i]) = 0
  <2> TAKE i \in Added(history, history')
  <2>1. history'[i] \in Entry
    BY <1>5, EntryAt DEF Grown, Added
  <2> QED
    BY <1>5, <2>1, NothingMoney
<1>8. place \notin DOMAIN history
  <2>1. DOMAIN history = 1 .. Len(history) /\ Len(history) \in Nat
    BY IInvFacts
  <2> QED
    BY <2>1
<1>7. SumOf(history') = SumOf(history) + (IF place \in DOMAIN history'
                                          THEN Money(history'[place]) ELSE 0)
  <2>1. \A i \in Added(history, history') : i # place => Money(history'[i]) = 0
    BY <1>6
  <2> QED
    BY <1>1, <1>5, <2>1, SumGrown
<1>9. LET b == IF a # <<>> THEN Charged(booking, u) ELSE booking
      IN  booking'.total = b.total /\ booking'.totalPaid = b.totalPaid
  BY <1>1, UpdateBooks
<1>10. CASE a = <<>>
  <2>1. booking'.total = booking.total /\ booking'.totalPaid = booking.totalPaid
    BY <1>9, <1>10
  <2>2. SumOf(history') = SumOf(history)
    <3>1. place \in DOMAIN history' => Money(history'[place]) = 0
      BY <1>6, <1>8, <1>10 DEF Added
    <3> QED
      BY <1>0, <1>7, <3>1
  <2> QED
    BY <1>3, <1>4, <2>1, <2>2, PaidIdle
<1>11. CASE a # <<>>
  <2>1. Settles(u)
    BY <1>1, <1>2, <1>11
  <2>2. /\ a[1] \in Entry /\ a[1].amount = u.amount /\ ~a[1].deleted
        /\ a[1].event = (IF IsExtensionPayment(u) THEN Extension ELSE u.event)
        /\ IsExtensionPayment(u) \/ charge
    BY <1>1, <1>11, ChargeEntry
  <2>3. SumOf(history') = SumOf(history) + Money(a[1])
    BY <1>5, <1>7, <1>11 DEF Added
  <2>4. booking'.total = Charged(booking, u).total
        /\ booking'.totalPaid = Charged(booking, u).totalPaid
    BY <1>9, <1>11
  <2>5. u.amount \in Int
    BY BodyType
  <2> HIDE DEF a
  <2>6. booking'.totalPaid = booking'.total + SumOf(history')
    <3>1. CASE IsExtensionPayment(u)
      <4>1. u.approved /\ booking.totalPaid > 0
        BY <2>1, <3>1 DEF Settles
      <4>2. booking'.total = booking.total
            /\ booking'.totalPaid = booking.totalPaid + u.amount
        BY <1>1, <2>4, <3>1, <4>1, ChargedFields
      <4>3. Money(a[1]) = u.amount
        BY <2>2, <3>1 DEF Money, Signed, Extension, Delivery, ExpenseEvents, Theft
      <4> QED
        BY <1>0, <1>4, <2>3, <2>5, <4>2, <4>3
    <3>2. CASE ~IsExtensionPayment(u)
      <4>1. charge /\ IsApproved(u)
        BY <2>1, <2>2, <3>2 DEF Settles
      <4>2. u.event # NoEvent
        <5>1. u.paid /\ ~u.extensionReason
          BY <4>1 DEF IsCharge
        <5> QED
          BY <5>1, ConstantsAssumption
      <4>3. /\ u.event \notin ExpenseEvents
            /\ u.event = Delivery => booking.deliveryCost = 0
        <5>1. u.event = Delivery => ~(booking.deliveryCost > 0)
          BY <1>1, <1>2, <4>1
        <5>2. booking.deliveryCost >= 0 /\ booking.deliveryCost \in Int
          BY <1>1 DEF Costs
        <5>3. u.event \notin ExpenseEvents
          BY <1>1, <1>2, <4>1
        <5> QED
          BY <5>1, <5>2, <5>3
      <4>4. booking'.totalPaid = booking.totalPaid + u.amount
        BY <1>1, <2>4, <3>2, <4>1, <4>2, <4>3, ChargedFields
      <4>5. CASE u.event = Delivery
        <5>1. booking'.total = booking.total + u.amount
          BY <1>1, <2>4, <3>2, <4>3, <4>5, ChargedFields
        <5>2. Money(a[1]) = 0
          BY <2>2, <3>2, <4>5 DEF Money
        <5> QED
          BY <1>0, <1>4, <2>3, <2>5, <4>4, <5>1, <5>2
      <4>6. CASE u.event # Delivery
        <5>1. booking'.total = booking.total
          BY <1>1, <2>4, <4>6, ChargedFields
        <5>2. Money(a[1]) = u.amount
          BY <2>2, <3>2, <4>3, <4>6 DEF Money, Signed
        <5> QED
          BY <1>0, <1>4, <2>3, <2>5, <4>4, <5>1, <5>2
      <4> QED
        BY <4>5, <4>6
    <3> QED
      BY <3>1, <3>2
  <2> QED
    BY <1>3, <2>6, PaidIdle
<1> QED
  BY <1>10, <1>11

\* A discount that what was paid allows for.
LEMMA PaidReport ==
    ASSUME IInv, PaidInv, ChargesAndRefunds, [Next]_vars, Never(Unsettling)',
           NEW r \in Reports, ReportEvent(r)
    PROVE  Alone(history', handler') /\ Settled(booking', history', handler')
<1> DEFINE place == Len(history) + 1
<1>1. /\ Settled(booking, history, handler)
      /\ TypeOK /\ booking \in Booking /\ history \in Seq(Entry)
      /\ booking.total \in Int /\ booking.totalPaid \in Int
      /\ SumOf(history) \in Int
      /\ "overlap" \notin past' /\ "owed" \notin past' /\ "fault" \notin past'
      /\ "abort" \notin past' /\ "reported" \notin past'
  BY PaidBefore DEF Unsettling
<1>2. Overlapping \subseteq past' /\ handler' = handler
  BY ReportStep
<1>3. \A h \in Handlers : handler[h].stage = "idle"
  BY <1>1, <1>2, NoOverlap DEF Never
<1>4. booking.totalPaid = booking.total + SumOf(history)
  BY <1>1, <1>3, PaidIdle
<1>5. /\ Grown(history, history', Len(versions)) /\ Added(history, history') = {place}
      /\ history'[place] \in Entry /\ ~history'[place].deleted
      /\ history'[place].event = r.event /\ history'[place].amount = r.amount
      /\ booking' = Discounted(booking, r.amount)
      /\ Lacking(-r.amount) \subseteq past' /\ r.amount <= 0 /\ r.amount \in Int
  <2>1. r.amount \in Int /\ ~(r.amount > 0)
    BY <1>1, ConstantsAssumption, ReportEntries DEF ReportBody
  <2>2. Grown(history, history', Len(versions))
    BY <1>1, ReportAdds
  <2>3. /\ Added(history, history') = {place} /\ booking' = Discounted(booking, r.amount)
        /\ Lacking(-r.amount) \subseteq past'
    BY <1>1, ReportEntries
  <2>4. \A i \in Added(history, history') :
          /\ history'[i] \in Entry /\ ~history'[i].deleted
          /\ history'[i].event = r.event /\ history'[i].amount = r.amount
    BY <1>1, ReportEntries
  <2>5. r.amount <= 0
    BY <2>1
  <2> QED
    BY <2>1, <2>2, <2>3, <2>4, <2>5
<1>6. SumOf(history') = SumOf(history) + Money(history'[place])
  <2>1. place \in DOMAIN history'
    BY <1>5 DEF Added
  <2> QED
    BY <1>1, <1>5, <2>1, SumGrown
<1>7. Money(history'[place]) = r.amount
  <2>1. CASE r.amount = 0
    BY <1>5, <2>1, NothingMoney
  <2>2. CASE r.amount < 0
    <3>1. r.event \notin ExpenseEvents \cup {Delivery}
      BY <2>2 DEF ChargesAndRefunds
    <3> QED
      BY <1>5, <3>1 DEF Money, Signed
  <2> QED
    BY <1>5, <2>1, <2>2
<1>8. booking'.total = booking.total /\ booking'.totalPaid = booking.totalPaid + r.amount
  <2>1. /\ booking'.total = booking.total
        /\ booking'.totalPaid = IF r.amount < 0 THEN MaxZero(booking.totalPaid + r.amount)
                                ELSE booking.totalPaid
    BY <1>1, <1>5, DiscountedFields
  <2>2. \A n \in Int : ~(booking.totalPaid < -n) => booking.totalPaid + n >= 0
    BY <1>1
  <2>3. booking.totalPaid + r.amount >= 0
    BY <1>1, <1>5, <2>2 DEF Lacking
  <2> QED
    BY <1>1, <1>5, <2>1, <2>3 DEF MaxZero
<1>9. booking'.totalPaid = booking'.total + SumOf(history')
  <2>1. booking.total \in Int /\ SumOf(history) \in Int /\ r.amount \in Int
    BY <1>1, <1>5
  <2> QED
    BY <1>4, <1>6, <1>7, <1>8, <2>1
<1> QED
  BY <1>2, <1>3, <1>9, PaidIdle

\* A deletion starts alone, on an entry that it can give back.
LEMMA PaidStart ==
    ASSUME IInv, PaidInv, [Next]_vars, Never(Unsettling)',
           NEW h \in Handlers, NEW e \in DOMAIN history, StartDelete(h, e)
    PROVE  Alone(history', handler') /\ Settled(booking', history', handler')
<1>1. /\ Alone(history, handler) /\ Settled(booking, history, handler)
      /\ history \in Seq(Entry)
      /\ "overlap" \notin past' /\ "charge deleted" \notin past'
  BY PaidBefore DEF Unsettling
<1>2. UNCHANGED <<booking, history>>
  BY DEF StartDelete
<1>3. CASE handler' = handler
  BY <1>1, <1>2, <1>3
<1>4. CASE /\ ~history[e].deleted
           /\ handler' = [handler EXCEPT ![h] = [stage |-> "restore", entry |-> e,
                            movement |-> MovementOf(e), todo |-> FallWith(e)]]
           /\ past' = past \cup Deletes(e, FallWith(e))
  <2>1. \A k \in Handlers : handler[k].stage = "idle"
    BY <1>1, <1>4, NoOverlap DEF Deletes, Never
  <2>2. /\ handler'[h].stage = "restore" /\ handler'[h].entry = e
        /\ handler'[h].todo = FallWith(e)
        /\ \A k \in Handlers : k # h => handler'[k].stage = "idle"
    BY <1>4, <2>1 DEF IInv, TypeOK, Handling
  <2>3. "charge deleted" \notin Deletes(e, FallWith(e))
    BY <1>1, <1>4
  <2>4. Undoes(history, e)
    BY <1>4, <2>3 DEF Deletes, Undoes
  <2>5. \A i \in FallWith(e) : i \in Live(history) /\ i # e /\ Restorable(history[i])
    <3> TAKE i \in FallWith(e)
    <3>1. i \in Live(history) /\ i > e /\ Restorable(history[i])
      BY DEF FallWith, Restorable
    <3>2. i \in Nat /\ e \in Nat
      BY <1>1, <3>1, EntryAt DEF Live
    <3> QED
      BY <3>1, <3>2
  <2>6. Alone(history', handler')
    BY <1>2, <2>2, <2>4, <2>5 DEF Alone
  <2>7. Settled(booking', history', handler')
    BY <1>1, <1>2, <2>1, <2>2 DEF Settled
  <2> QED
    BY <2>6, <2>7
<1> QED
  BY <1>3, <1>4 DEF StartDelete

\* What an extension or a change of vehicle took is what its deletion gives back.
LEMMA PaidGivenBack ==
    ASSUME TypeOK, NEW hist \in Seq(Entry), NEW e \in DOMAIN hist, Plain(hist[e]),
           RestoreCart(hist, e), Lacking(hist[e].amount) \subseteq past', "owed" \notin past'
    PROVE  /\ booking'.total = booking.total
           /\ booking'.totalPaid = booking.totalPaid - hist[e].amount
<1>1. booking.totalPaid \in Int /\ hist[e].amount \in Int /\ hist[e].amount >= 0
  BY EntryAt, EntryFields DEF TypeOK, Plain
<1>2. ~(booking.totalPaid < hist[e].amount)
  BY DEF Lacking
<1>3. /\ booking'.total = booking.total
      /\ booking'.totalPaid = IF hist[e].amount > 0
                              THEN MaxZero(booking.totalPaid - hist[e].amount)
                              ELSE booking.totalPaid
  BY RestoredBooks
<1> QED
  BY <1>1, <1>2, <1>3 DEF MaxZero

\* The entry of a deletion is as it was when others are marked or added.
LEMMA UndoesLater ==
    ASSUME NEW old, NEW new, NEW e, new[e] = old[e], Undoes(old, e)
    PROVE  Undoes(new, e)
BY DEF Undoes

\* What falls with an entry is marked and given back in one step.
LEMMA PaidCascade ==
    ASSUME IInv, PaidInv, [Next]_vars, Never(Unsettling)', NEW h \in Handlers, Cascade(h)
    PROVE  Alone(history', handler') /\ Settled(booking', history', handler')
<1> DEFINE falling == handler[h].todo
           next == Min(falling)
           e == handler[h].entry
           marked == MarkDeleted(history, next)
<1>1. /\ Alone(history, handler) /\ Settled(booking, history, handler) /\ Priced(history)
      /\ TypeOK /\ history \in Seq(Entry)
      /\ "owed" \notin past' /\ "not restored" \notin past'
  BY PaidBefore DEF Unsettling
<1>0. booking.total \in Int /\ booking.totalPaid \in Int /\ SumOf(history) \in Int
  BY PaidBefore
<1>2. /\ handler[h].stage = "restore" /\ falling # {}
      /\ RestoreCart(marked, next) \/ RestoreFails(marked, next)
      /\ past' = past \cup Failed \cup Lacking(marked[next].amount)
      /\ handler' = [handler EXCEPT ![h].todo = @ \ {next}]
  BY DEF Cascade
<1>3. /\ handler \in [Handlers -> Handling] /\ next \in falling /\ next \in DOMAIN history
      /\ e \in DOMAIN history
  BY <1>2, HandlingFacts
<1>4. /\ handler'[h].stage = "restore" /\ handler'[h].entry = e
      /\ handler'[h].todo = falling \ {next}
      /\ \A k \in Handlers : k # h => handler'[k] = handler[k]
  BY <1>2, <1>3 DEF Handling
<1>5. /\ \A k \in Handlers : k # h => handler[k].stage = "idle"
      /\ Undoes(history, e)
      /\ \A i \in falling : i \in Live(history) /\ i # e /\ Restorable(history[i])
  BY <1>1, <1>2 DEF Alone
<1> HIDE DEF next, e, falling
<1>6. /\ marked \in Seq(Entry) /\ Len(marked) = Len(history) /\ DOMAIN marked = DOMAIN history
      /\ marked[next].amount = history[next].amount
      /\ marked[next].event = history[next].event
  BY <1>1, <1>3, MarkedFields
<1>7. \A i \in DOMAIN history : i # next => marked[i] = history[i]
  BY <1>1, <1>3, MarkedRest
<1>8. SumOf(marked) = SumOf(history) - Money(history[next])
  BY <1>1, <1>3, SumMarked
<1>9. Plain(history[next]) /\ ~history[next].deleted /\ history[next] \in Entry
      /\ next # e
  BY <1>1, <1>3, <1>5, EntryAt DEF Priced, Live
<1>10. Money(history[next]) = history[next].amount /\ history[next].amount \in Int
  BY <1>9, PlainMoney, EntryFields
<1>11. Plain(marked[next])
  BY <1>6, <1>9 DEF Plain
<1> HIDE DEF marked
<1>12. RestoreCart(marked, next)
  <2>1. ASSUME RestoreFails(marked, next) PROVE FALSE
    <3>1. Len(history') = Len(history)
      BY <1>6, <2>1 DEF RestoreFails
    <3> QED
      BY <1>1, <1>2, <3>1 DEF Failed
  <2> QED
    BY <1>2, <2>1
<1>13. /\ booking'.total = booking.total
       /\ booking'.totalPaid = booking.totalPaid - history[next].amount
  <2>1. Lacking(marked[next].amount) \subseteq past' /\ next \in DOMAIN marked
    BY <1>2, <1>3, <1>6
  <2> QED
    BY <1>1, <1>6, <1>11, <1>12, <2>1, PaidGivenBack
<1>14. /\ Grown(marked, history', Len(versions))
       /\ SumOf(history') = SumOf(marked)
  <2>1. history' = Append(marked, Note(NoEvent, 0))
    BY <1>1, <1>3, <1>6, <1>12, RestoredBooks
  <2>2. versions \in Seq(Cart)
    BY <1>1 DEF TypeOK
  <2> QED
    BY <1>6, <2>1, <2>2, Noted
<1>15. \A i \in DOMAIN history : i # next => i \in DOMAIN history' /\ history'[i] = history[i]
  BY <1>6, <1>7, <1>14 DEF Grown
<1>16. booking.totalPaid = booking.total + SumOf(history)
  <2>1. \A k \in Handlers : handler[k].stage # "mark"
    BY <1>2, <1>5
  <2> QED
    BY <1>1, <2>1 DEF Settled
<1>17. booking'.totalPaid = booking'.total + SumOf(history')
  BY <1>0, <1>8, <1>10, <1>13, <1>14, <1>16
<1>18. Settled(booking', history', handler')
  <2>1. \A k \in Handlers : handler'[k].stage # "mark"
    BY <1>4, <1>5
  <2> QED
    BY <1>17, <2>1 DEF Settled
<1>19. Alone(history', handler')
  <2>1. Undoes(history', e)
    BY <1>3, <1>5, <1>9, <1>15, UndoesLater
  <2>2. \A i \in falling \ {next} :
          i \in Live(history') /\ i # e /\ Restorable(history'[i])
    BY <1>5, <1>15 DEF Live
  <2>3. \A k \in Handlers : k # h => handler'[k].stage = "idle"
    BY <1>4, <1>5
  <2> QED
    BY <1>4, <2>1, <2>2, <2>3 DEF Alone
<1> QED
  BY <1>18, <1>19

\* What the entry cost is given back; it is marked only later.
LEMMA PaidRestore ==
    ASSUME IInv, PaidInv, [Next]_vars, Never(Unsettling)', NEW h \in Handlers, Restore(h)
    PROVE  Alone(history', handler') /\ Settled(booking', history', handler')
<1> DEFINE e == handler[h].entry
<1>1. /\ Alone(history, handler) /\ Settled(booking, history, handler) /\ Priced(history)
      /\ TypeOK /\ history \in Seq(Entry) /\ booking \in Booking
      /\ "owed" \notin past' /\ "not restored" \notin past'
  BY PaidBefore DEF Unsettling
<1>0. /\ booking.total \in Int /\ booking.totalPaid \in Int /\ SumOf(history) \in Int
      /\ booking.deliveryCost \in Int /\ Costs(booking)
  BY PaidBefore
<1>2. /\ handler[h].stage = "restore"
      /\ handler' = [handler EXCEPT ![h].stage = "mark"]
      /\ Restorable(history[e]) =>
           /\ RestoreCart(history, e) \/ RestoreFails(history, e)
           /\ past' = past \cup Failed \cup Lacking(history[e].amount)
      /\ ~Restorable(history[e]) =>
           /\ IF history[e].event = Delivery
              THEN /\ \E soon \in BOOLEAN : booking' = WithoutDelivery(booking, e = 2 \/ soon)
                   /\ past' = past \cup Lacking(booking.deliveryCost)
              ELSE booking' = booking
           /\ history' = history
  BY DEF Restore
<1>3. handler \in [Handlers -> Handling] /\ e \in DOMAIN history
  BY <1>2, HandlingFacts
<1>4. /\ handler'[h].stage = "mark" /\ handler'[h].entry = e
      /\ \A k \in Handlers : k # h => handler'[k] = handler[k]
  BY <1>2, <1>3 DEF Handling
<1>5. /\ \A k \in Handlers : k # h => handler[k].stage = "idle"
      /\ Undoes(history, e)
  BY <1>1, <1>2 DEF Alone
<1> HIDE DEF e
<1>6. history[e] \in Entry /\ history[e].amount \in Int /\ ~history[e].deleted
  BY <1>1, <1>3, <1>5, EntryAt, EntryFields DEF Undoes
<1>7. booking.totalPaid = booking.total + SumOf(history)
  <2>1. \A k \in Handlers : handler[k].stage # "mark"
    BY <1>2, <1>5
  <2> QED
    BY <1>1, <2>1 DEF Settled
<1>8. ASSUME history'[e] = history[e], SumOf(history') = SumOf(history),
             booking'.totalPaid = booking'.total + SumOf(history) - Money(history[e])
      PROVE  Alone(history', handler') /\ Settled(booking', history', handler')
  <2>1. Undoes(history', e)
    BY <1>5, <1>8, UndoesLater
  <2>2. \A k \in Handlers : k # h => handler'[k].stage = "idle"
    BY <1>4, <1>5
  <2>3. Alone(history', handler')
    BY <1>4, <2>1, <2>2 DEF Alone
  <2>4. Settled(booking', history', handler')
    BY <1>4, <1>8, <2>2 DEF Settled
  <2> QED
    BY <2>3, <2>4
<1>9. CASE Restorable(history[e])
  <2>1. RestoreCart(history, e)
    <3>1. ASSUME RestoreFails(history, e) PROVE FALSE
      <4>1. Len(history') = Len(history)
        BY <3>1 DEF RestoreFails
      <4> QED
        BY <1>1, <1>2, <1>9, <4>1 DEF Failed
    <3> QED
      BY <1>2, <1>9, <3>1
  <2>2. Plain(history[e])
    BY <1>1, <1>3, <1>9 DEF Priced
  <2>3. Money(history[e]) = history[e].amount
    BY <1>6, <2>2, PlainMoney
  <2>4. /\ booking'.total = booking.total
        /\ booking'.totalPaid = booking.totalPaid - history[e].amount
    <3>1. Lacking(history[e].amount) \subseteq past'
      BY <1>2, <1>9
    <3> QED
      BY <1>1, <1>3, <2>1, <2>2, <3>1, PaidGivenBack
  <2>5. Grown(history, history', Len(versions)) /\ SumOf(history') = SumOf(history)
    <3>1. history' = Append(history, Note(NoEvent, 0))
      BY <1>1, <1>3, <2>1, RestoredBooks
    <3>2. versions \in Seq(Cart)
      BY <1>1 DEF TypeOK
    <3> QED
      BY <1>1, <3>1, <3>2, Noted
  <2>6. history'[e] = history[e]
    BY <1>3, <2>5 DEF Grown
  <2>7. booking'.totalPaid = booking'.total + SumOf(history) - Money(history[e])
    BY <1>0, <1>6, <1>7, <2>3, <2>4
  <2> QED
    BY <1>8, <2>5, <2>6, <2>7
<1>10. CASE ~Restorable(history[e]) /\ history[e].event = Delivery
  <2>1. e = 2
    BY <1>5, <1>10 DEF Undoes
  <2>2. /\ booking' = WithoutDelivery(booking, TRUE)
        /\ Lacking(booking.deliveryCost) \subseteq past' /\ history' = history
    BY <1>2, <1>10, <2>1
  <2>3. /\ booking'.total = MaxZero(booking.total - booking.deliveryCost)
        /\ booking'.totalPaid = MaxZero(booking.totalPaid - booking.deliveryCost)
    BY <1>1, <2>2, WithoutDeliveryFields
  <2>4. ~(booking.totalPaid < booking.deliveryCost)
    BY <1>1, <2>2 DEF Lacking
  <2>5. booking.deliveryCost <= booking.total
    BY <1>0 DEF Costs
  <2>6. /\ booking'.total = booking.total - booking.deliveryCost
        /\ booking'.totalPaid = booking.totalPaid - booking.deliveryCost
    BY <1>0, <2>3, <2>4, <2>5 DEF MaxZero
  <2>7. Money(history[e]) = 0
    BY <1>10 DEF Money
  <2>8. booking'.totalPaid = booking'.total + SumOf(history) - Money(history[e])
    BY <1>0, <1>7, <2>6, <2>7
  <2> QED
    BY <1>8, <2>2, <2>8
<1>11. CASE ~Restorable(history[e]) /\ history[e].event # Delivery
  <2>1. history[e].amount = 0
    BY <1>5, <1>11 DEF Undoes
  <2>2. Money(history[e]) = 0
    BY <1>6, <2>1, NothingMoney
  <2>3. booking' = booking /\ history' = history
    BY <1>2, <1>11
  <2>4. booking'.totalPaid = booking'.total + SumOf(history) - Money(history[e])
    BY <1>0, <1>7, <2>2, <2>3
  <2> QED
    BY <1>8, <2>3, <2>4
<1> QED
  BY <1>9, <1>10, <1>11

\* The entry that was given back no longer counts.
LEMMA PaidMark ==
    ASSUME IInv, PaidInv, [Next]_vars, Never(Unsettling)', NEW h \in Handlers, Mark(h)
    PROVE  Alone(history', handler') /\ Settled(booking', history', handler')
<1> DEFINE e == handler[h].entry
<1>1. /\ Alone(history, handler) /\ Settled(booking, history, handler)
      /\ history \in Seq(Entry)
  BY PaidBefore
<1>2. /\ handler[h].stage = "mark" /\ history' = MarkDeleted(history, e) /\ booking' = booking
      /\ handler' = [handler EXCEPT ![h].stage = "unlink"]
  BY DEF Mark
<1>3. handler \in [Handlers -> Handling] /\ e \in DOMAIN history
  BY <1>2, HandlingFacts
<1>4. /\ handler'[h].stage = "unlink"
      /\ \A k \in Handlers : k # h => handler'[k] = handler[k]
  BY <1>2, <1>3 DEF Handling
<1>5. \A k \in Handlers : k # h => handler[k].stage = "idle"
  BY <1>1, <1>2 DEF Alone
<1>6. booking.totalPaid = booking.total + SumOf(history) - Money(history[e])
  BY <1>1, <1>2 DEF Settled
<1> HIDE DEF e
<1>7. SumOf(history') = SumOf(history) - Money(history[e])
  BY <1>1, <1>2, <1>3, SumMarked
<1>8. booking.total \in Int /\ SumOf(history) \in Int /\ Money(history[e]) \in Int
  BY <1>1, <1>3, PaidBefore, EntryAt, MoneyType
<1>9. booking'.totalPaid = booking'.total + SumOf(history')
  BY <1>2, <1>6, <1>7, <1>8
<1>10. \A k \in Handlers : k # h => handler'[k].stage = "idle"
  BY <1>4, <1>5
<1> QED
  BY <1>4, <1>9, <1>10 DEF Alone, Settled

\* Nothing of the money changes when the movement goes.
LEMMA PaidUnlink ==
    ASSUME IInv, PaidInv, [Next]_vars, Never(Unsettling)', NEW h \in Handlers, Unlink(h)
    PROVE  Alone(history', handler') /\ Settled(booking', history', handler')
<1>1. Alone(history, handler) /\ Settled(booking, history, handler)
  BY PaidBefore
<1>2. /\ handler[h].stage = "unlink" /\ UNCHANGED <<booking, history>>
      /\ handler' = [handler EXCEPT ![h] = Idle]
  BY DEF Unlink
<1>3. \A k \in Handlers : k # h => handler[k].stage = "idle"
  BY <1>1, <1>2 DEF Alone
<1>4. \A k \in Handlers : handler'[k].stage = "idle"
  BY <1>2, <1>3 DEF IInv, TypeOK, Idle
<1>5. booking.totalPaid = booking.total + SumOf(history)
  <2>1. \A k \in Handlers : handler[k].stage # "mark"
    BY <1>2, <1>3
  <2> QED
    BY <1>1, <2>1 DEF Settled
<1> QED
  BY <1>2, <1>4, <1>5, PaidIdle

\* Every step keeps what was paid in step with the timeline.
LEMMA PaidNext ==
    ASSUME IInv, PaidInv, ChargesAndRefunds, [Next]_vars
    PROVE  PaidInv'
<1>1. Priced(history') /\ Costs(booking')
  BY PricedNext DEF PaidInv
<1> SUFFICES ASSUME Never(Unsettling)'
             PROVE  Alone(history', handler') /\ Settled(booking', history', handler')
  BY <1>1 DEF PaidInv
<1>2. /\ Alone(history, handler) /\ Settled(booking, history, handler)
      /\ \A what \in Unsettling : what \notin past'
  BY PaidBefore
<1>3. CASE CreateContract
  BY <1>3, PaidCreate
<1>4. ASSUME NEW u \in Updates, Update(u)
      PROVE  Alone(history', handler') /\ Settled(booking', history', handler')
  <2>1. handler' = handler
    BY <1>4, UpdateStep
  <2>2. CASE UNCHANGED <<booking, history>>
    BY <1>2, <2>1, <2>2
  <2>3. ASSUME NEW charge \in BOOLEAN, ApplyUpdate(u, charge), charge => IsCharge(u)
        PROVE  Alone(history', handler') /\ Settled(booking', history', handler')
    BY <2>1, <2>3, PaidUpdate
  <2> QED
    BY <1>4, <2>2, <2>3, UpdateCharge
<1>5. ASSUME NEW r \in Reports, ReportEvent(r)
      PROVE  Alone(history', handler') /\ Settled(booking', history', handler')
  BY <1>5, PaidReport
<1>6. ASSUME NEW h \in Handlers, NEW e \in DOMAIN history, StartDelete(h, e)
      PROVE  Alone(history', handler') /\ Settled(booking', history', handler')
  BY <1>6, PaidStart
<1>7. ASSUME NEW h \in Handlers, Handle(h)
      PROVE  Alone(history', handler') /\ Settled(booking', history', handler')
  BY <1>7, PaidCascade, PaidRestore, PaidMark, PaidUnlink DEF Handle
<1>8. \A h \in Handlers : ~Abort(h)
  BY <1>2 DEF Abort, Unsettling
<1>9. CASE \/ \E m \in DOMAIN movements : DeleteMovement(m) \/ RestoreMovement(m)
           \/ \E e \in DOMAIN history : RestoreEntry(e)
           \/ UNCHANGED vars
  <2>1. UNCHANGED <<booking, history, handler>>
    BY <1>2, <1>9 DEF DeleteMovement, RestoreMovement, RestoreEntry, vars, Unsettling
  <2> QED
    BY <1>2, <2>1
<1> QED
  BY <1>3, <1>4, <1>5, <1>6, <1>7, <1>8, <1>9 DEF Next

\* A booking starts paid, or owed.
LEMMA PaidInit ==
    ASSUME Init
    PROVE  PaidInv
<1>1. PICK cart \in Carts, hasDelivery \in BOOLEAN, paid \in {0, Total} :
        booking = [cart |-> cart, total |-> Total, totalPaid |-> paid,
                   deliveryCost |-> IF hasDelivery THEN DeliveryCost ELSE 0]
  BY DEF Init
<1>2. /\ booking.total = Total /\ booking.totalPaid \in {0, Total}
      /\ booking.deliveryCost \in {0, DeliveryCost}
  BY <1>1
<1>3. Total \in Nat /\ DeliveryCost \in Nat /\ DeliveryCost <= Total
  BY ConstantsAssumption
<1>4. /\ history = <<>> /\ \A h \in Handlers : handler[h].stage = "idle"
      /\ past = IF booking.totalPaid < Total THEN {"owed"} ELSE {}
  BY DEF Init, Idle
<1>5. Priced(history)
  BY <1>4 DEF Priced
<1>6. Costs(booking)
  BY <1>2, <1>3 DEF Costs
<1>7. Never(Unsettling) => booking.totalPaid = booking.total + SumOf(history)
  <2>1. Never(Unsettling) => ~(booking.totalPaid < Total)
    BY <1>4 DEF Never, Unsettling
  <2>2. SumOf(history) = 0
    BY <1>4, SumOfNothing
  <2> QED
    BY <1>2, <1>3, <2>1, <2>2
<1> QED
  BY <1>4, <1>5, <1>6, <1>7, PaidIdle DEF PaidInv

\* BookingTotalsService.calculateTotals: what a booking that is settled as it goes has
\* paid is what its contract comes to, through any number of extensions, charges,
\* discounts and deletions, and whatever falls with what is deleted.
THEOREM PaidIsNet ==
    ASSUME ChargesAndRefunds
    PROVE  Spec => []PaidMatchesNet
<1>1. Init => PaidInv
  BY PaidInit
<1>2. IInv /\ PaidInv /\ [Next]_vars => PaidInv'
  BY PaidNext
<1>3. IInv /\ PaidInv => PaidMatchesNet
  <2> SUFFICES ASSUME PaidInv, Never(Unsettling), ~Busy
               PROVE  booking.totalPaid = NetTotal
    BY DEF PaidMatchesNet, Unsettling
  <2>1. \A h \in Handlers : handler[h].stage = "idle"
    BY DEF Busy
  <2> QED
    BY <2>1, PaidIdle DEF PaidInv, NetTotal
<1> QED
  BY <1>1, <1>2, <1>3, LinksHold, PTL DEF Spec
=============================================================================
