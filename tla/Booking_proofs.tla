--------------------------- MODULE Booking_proofs ---------------------------
(***************************************************************************)
(* What holds of a booking: of its number, for any number of concurrent    *)
(* saves and any collection to start from; and of its life, for any        *)
(* number of handlers at once, any amounts and any number of calls.        *)
(*                                                                         *)
(* DistinctNumbers is not inductive by itself. What makes it so: a saved   *)
(* number is in the collection (SavedIsTaken), so that the unique index    *)
(* speaks for all saved bookings. NoGap needs to know in addition that     *)
(* everything of the series below a number a save carries is already in    *)
(* the collection (NumberedIsNext), however old the maximum it has read;   *)
(* and FailureMeansProgress that the number was not there when it was      *)
(* read (NumberedIsNew).                                                   *)
(*                                                                         *)
(* ReserveMeansOwing and NoDuplicatePayment speak of the document only,    *)
(* but every handler will write back the copy it holds, so they must hold  *)
(* of every copy as well, however old: Sound is required of all of them.   *)
(* CancelledIsNotPaid needs to know in addition which handlers may write   *)
(* the status of a cancellation, and that each of them will still clear    *)
(* totalPaid.                                                              *)
(*                                                                         *)
(* ApprovedIsPaid, OneCommission and ContractFollowsBooking hold of        *)
(* handlers that run one after the other. SInv says what such a handler    *)
(* knows at each of its stages: that the booking has the status which it   *)
(* wrote, that the contract has it too unless it is about to write it,     *)
(* and that there are no commissions when it makes them.                   *)
(***************************************************************************)
EXTENDS BookingNumber, BookingLifecycle, TLAPS

-----------------------------------------------------------------------------
(* The number. *)

\* The number of a saved booking is in the collection.
SavedIsTaken ==
    \A s \in Saves : phase[s] = "saved" => number[s] \in taken

\* Below the number a save has drawn, the series is full.
NumberedIsNext ==
    \A s \in Saves : phase[s] = "numbered" =>
        /\ number[s] >= FirstNumber
        /\ \A k \in FirstNumber .. (number[s] - 1) : k \in taken

NumberInv ==
    /\ NumberTypeOK
    /\ HasGreatest(taken)
    /\ SavedIsTaken
    /\ NumberedIsNext
    /\ NoGap
    /\ DistinctNumbers

-----------------------------------------------------------------------------
\* Max is the greatest member of a set that has one.
LEMMA MaxIsGreatest ==
    ASSUME NEW S \in SUBSET Nat, S # {}, HasGreatest(S)
    PROVE  /\ Max(S) \in S
           /\ \A n \in S : n <= Max(S)
<1>1. PICK m \in S : \A n \in S : n <= m
  BY DEF HasGreatest
<1>2. \E x \in S : \A y \in S : x >= y
  BY <1>1
<1> QED
  BY <1>2 DEF Max

\* The hook's number is of the series, and the series is full below it.
LEMMA NextNumberIsNext ==
    ASSUME NEW S \in SUBSET Nat, HasGreatest(S),
           \A n \in S : \A k \in FirstNumber .. n : k \in S
    PROVE  /\ NextNumber(S) \in Nat
           /\ NextNumber(S) >= FirstNumber
           /\ \A k \in FirstNumber .. (NextNumber(S) - 1) : k \in S
<1>1. CASE \E n \in S : n >= FirstNumber
  <2>1. /\ Max(S) \in S
        /\ \A n \in S : n <= Max(S)
    BY <1>1, MaxIsGreatest
  <2>2. NextNumber(S) = Max(S) + 1
    BY <1>1 DEF NextNumber
  <2>3. Max(S) \in Nat /\ Max(S) >= FirstNumber
    <3>1. PICK n \in S : n >= FirstNumber
      BY <1>1
    <3>2. n \in Nat /\ Max(S) \in Nat /\ n <= Max(S)
      BY <2>1
    <3> QED
      BY <3>1, <3>2 DEF FirstNumber
  <2> QED
    BY <2>1, <2>2, <2>3 DEF FirstNumber
<1>2. CASE ~ \E n \in S : n >= FirstNumber
  BY <1>2 DEF NextNumber, FirstNumber
<1> QED
  BY <1>1, <1>2

LEMMA InitNumberInv == NumberInit => NumberInv
BY ExistingAssumption
   DEF NumberInit, NumberInv, NumberTypeOK, SavedIsTaken, NumberedIsNext, NoGap, DistinctNumbers, NoNumber

LEMMA AssignNumberInv ==
    ASSUME NumberInv, NEW s \in Saves, AssignNumber(s)
    PROVE  NumberInv'
<1> USE DEF NumberInv, AssignNumber
<1>1. /\ NextNumber(taken) \in Nat
      /\ NextNumber(taken) >= FirstNumber
      /\ \A k \in FirstNumber .. (NextNumber(taken) - 1) : k \in taken
  BY NextNumberIsNext DEF NumberTypeOK, NoGap
<1>2. NumberTypeOK'
  BY <1>1 DEF NumberTypeOK
<1>3. HasGreatest(taken)'
  BY DEF HasGreatest
<1>4. SavedIsTaken'
  BY DEF SavedIsTaken, NumberTypeOK
<1>5. NumberedIsNext'
  BY <1>1 DEF NumberedIsNext, NumberTypeOK
<1>6. NoGap'
  BY DEF NoGap
<1>7. DistinctNumbers'
  BY DEF DistinctNumbers, NumberTypeOK
<1> QED
  BY <1>2, <1>3, <1>4, <1>5, <1>6, <1>7

LEMMA InsertNumberInv ==
    ASSUME NumberInv, NEW s \in Saves, Insert(s)
    PROVE  NumberInv'
<1> USE DEF NumberInv, Insert
<1>1. number[s] \in Nat
  BY DEF NumberTypeOK
<1>2. NumberTypeOK'
  BY <1>1 DEF NumberTypeOK
<1>3. HasGreatest(taken)'
  <2>1. CASE taken = {}
    BY <1>1, <2>1 DEF HasGreatest
  <2>2. CASE taken # {}
    <3>1. PICK m \in taken : \A n \in taken : n <= m
      BY <2>2 DEF HasGreatest
    <3>2. m \in Nat /\ taken \subseteq Nat
      BY DEF NumberTypeOK
    <3>3. CASE number[s] <= m
      BY <1>1, <3>1, <3>2, <3>3 DEF HasGreatest
    <3>4. CASE m <= number[s]
      <4>1. \A n \in taken' : n <= number[s]
        BY <1>1, <3>1, <3>2, <3>4
      <4> QED
        BY <4>1 DEF HasGreatest
    <3> QED
      BY <1>1, <3>2, <3>3, <3>4
  <2> QED
    BY <2>1, <2>2
<1>4. SavedIsTaken'
  BY DEF SavedIsTaken, NumberTypeOK
<1>5. NumberedIsNext'
  BY DEF NumberedIsNext, NumberTypeOK
<1>6. NoGap'
  BY <1>1 DEF NoGap, NumberedIsNext, NumberTypeOK, FirstNumber
<1>7. DistinctNumbers'
  BY DEF DistinctNumbers, SavedIsTaken, NumberTypeOK
<1> QED
  BY <1>2, <1>3, <1>4, <1>5, <1>6, <1>7

LEMMA DuplicateKeyInv ==
    ASSUME NumberInv, NEW s \in Saves, DuplicateKey(s)
    PROVE  NumberInv'
BY DEF NumberInv, DuplicateKey, NumberTypeOK, HasGreatest, SavedIsTaken, NumberedIsNext,
       NoGap, DistinctNumbers

LEMMA ResubmitInv ==
    ASSUME NumberInv, NEW s \in Saves, Resubmit(s)
    PROVE  NumberInv'
BY DEF NumberInv, Resubmit, NumberTypeOK, HasGreatest, SavedIsTaken, NumberedIsNext,
       NoGap, DistinctNumbers, NoNumber

LEMMA StutterNumberInv == NumberInv /\ UNCHANGED numberVars => NumberInv'
BY DEF NumberInv, numberVars, NumberTypeOK, HasGreatest, SavedIsTaken, NumberedIsNext,
       NoGap, DistinctNumbers

\* The inductive invariant holds of every behaviour.
THEOREM NumberInvariance == NumberSpec => []NumberInv
<1>1. NumberInv /\ [NumberNext]_numberVars => NumberInv'
  <2> SUFFICES ASSUME NumberInv, [NumberNext]_numberVars
               PROVE  NumberInv'
    OBVIOUS
  <2>1. CASE UNCHANGED numberVars
    BY <2>1, StutterNumberInv
  <2>2. ASSUME NEW s \in Saves, AssignNumber(s)
        PROVE  NumberInv'
    BY <2>2, AssignNumberInv
  <2>3. ASSUME NEW s \in Saves, Insert(s)
        PROVE  NumberInv'
    BY <2>3, InsertNumberInv
  <2>4. ASSUME NEW s \in Saves, DuplicateKey(s)
        PROVE  NumberInv'
    BY <2>4, DuplicateKeyInv
  <2>5. ASSUME NEW s \in Saves, Resubmit(s)
        PROVE  NumberInv'
    BY <2>5, ResubmitInv
  <2> QED
    BY <2>1, <2>2, <2>3, <2>4, <2>5 DEF NumberNext
<1> QED
  BY InitNumberInv, <1>1, PTL DEF NumberSpec

\* Every save carries a number once the hook has run, for any number of
\* concurrent saves.
THEOREM NumbersAreTyped == NumberSpec => []NumberTypeOK
BY NumberInvariance, PTL DEF NumberInv

\* The unique index and the read-then-insert of the hook together never leave
\* two saved bookings with one number.
THEOREM NumbersAreDistinct == NumberSpec => []DistinctNumbers
BY NumberInvariance, PTL DEF NumberInv

\* The numbers of the collection are a series without gaps.
THEOREM SeriesHasNoGap == NumberSpec => []NoGap
BY NumberInvariance, PTL DEF NumberInv

-----------------------------------------------------------------------------
(* Why a save is refused. *)

\* A number in hand is none of those that the collection started with.
NumberedIsNew ==
    \A s \in Saves : phase[s] = "numbered" => number[s] \notin Existing

\* What has come into the collection since is the number of a saved booking.
TakenIsSaved ==
    \A n \in taken : n \in Existing \/ \E s \in Saves : phase[s] = "saved" /\ number[s] = n

ProgressInv ==
    /\ Existing \subseteq taken
    /\ NumberedIsNew
    /\ TakenIsSaved

\* The number that the hook computes is not in the collection that it has read.
LEMMA NextNumberIsNew ==
    ASSUME NEW S \in SUBSET Nat, HasGreatest(S)
    PROVE  NextNumber(S) \notin S
<1>1. CASE \E n \in S : n >= FirstNumber
  <2>1. /\ Max(S) \in S
        /\ \A n \in S : n <= Max(S)
    BY <1>1, MaxIsGreatest
  <2>2. NextNumber(S) = Max(S) + 1
    BY <1>1 DEF NextNumber
  <2>3. \A n \in Nat : ~(n + 1 <= n)
    OBVIOUS
  <2>4. Max(S) \in Nat
    BY <2>1
  <2> QED
    BY <2>1, <2>2, <2>3, <2>4
<1>2. CASE ~ \E n \in S : n >= FirstNumber
  BY <1>2 DEF NextNumber, FirstNumber
<1> QED
  BY <1>1, <1>2

LEMMA ProgressNext ==
    ASSUME NumberInv, ProgressInv, [NumberNext]_numberVars
    PROVE  ProgressInv'
<1> USE DEF ProgressInv, NumberedIsNew, TakenIsSaved
<1>0. NumberTypeOK
  BY DEF NumberInv
<1>1. ASSUME NEW s \in Saves, AssignNumber(s)
      PROVE  ProgressInv'
  <2>1. NextNumber(taken) \notin Existing
    BY NextNumberIsNew DEF NumberInv, NumberTypeOK
  <2>2. \A t \in Saves : phase[t] = "saved" => phase'[t] = "saved" /\ number'[t] = number[t]
    BY <1>0, <1>1 DEF AssignNumber, NumberTypeOK
  <2>3. TakenIsSaved'
    BY <1>1, <2>2 DEF AssignNumber
  <2>4. NumberedIsNew'
    BY <1>0, <1>1, <2>1 DEF AssignNumber, NumberTypeOK
  <2> QED
    BY <1>1, <2>3, <2>4 DEF AssignNumber
<1>2. ASSUME NEW s \in Saves, Insert(s)
      PROVE  ProgressInv'
  BY <1>0, <1>2 DEF Insert, NumberTypeOK
<1>3. ASSUME NEW s \in Saves, DuplicateKey(s)
      PROVE  ProgressInv'
  BY <1>0, <1>3 DEF DuplicateKey, NumberTypeOK
<1>4. ASSUME NEW s \in Saves, Resubmit(s)
      PROVE  ProgressInv'
  BY <1>0, <1>4 DEF Resubmit, NumberTypeOK
<1>5. CASE UNCHANGED numberVars
  BY <1>5 DEF numberVars
<1> QED
  BY <1>1, <1>2, <1>3, <1>4, <1>5 DEF NumberNext

\* A save that is refused was overtaken: another booking was saved with its number since it
\* read the greatest one.
THEOREM RefusalsMeanProgress == NumberSpec => FailureMeansProgress
<1>1. NumberInit => ProgressInv
  BY DEF NumberInit, ProgressInv, NumberedIsNew, TakenIsSaved
<1>2. NumberInv /\ ProgressInv =>
        \A s \in Saves : DuplicateKey(s) =>
          \E t \in Saves \ {s} : phase[t] = "saved" /\ number[t] = number[s]
  BY DEF ProgressInv, NumberedIsNew, TakenIsSaved, DuplicateKey
<1> QED
  BY <1>1, <1>2, ProgressNext, NumberInvariance, PTL DEF NumberSpec, FailureMeansProgress

-----------------------------------------------------------------------------
(* The life. *)

\* What holds of the document and of every copy of it.
Sound(b) ==
    /\ b.isReserve => b.totalPaid < Total
    /\ Deposit # Total - Deposit => \A a \in Amounts : b.payments[a] <= 1

IInv ==
    /\ TypeOK
    /\ Sound(booking)
    /\ \A r \in Requests : Sound(request[r].copy)

-----------------------------------------------------------------------------
\* Amounts are natural numbers, and none is above the total.
LEMMA AmountsAreNat ==
    /\ Amounts \subseteq Nat
    /\ \A a \in Amounts : 0 < a /\ a <= Total
    /\ Deposit \in Amounts /\ Total \in Amounts /\ Deposit < Total
    /\ Total \in Nat /\ Deposit \in Nat
BY ConstantsAssumption DEF Amounts

LEMMA NoRequestType == NoRequest \in Request /\ Sound(NoRequest.copy)
<1>1. NoPayments \in Payments
  BY DEF NoPayments, Payments
<1>2. \A a \in Amounts : NoPayments[a] = 0
  BY DEF NoPayments
<1> QED
  BY <1>1, <1>2 DEF NoRequest, Request, Booking, Stages, Statuses, Sound, Pending

\* What payBooking and the payments of a validation make of a copy.
LEMMA ValidatedIsSound ==
    ASSUME NEW b \in Booking, Sound(b), NEW call \in Call, terms \in Terms
    PROVE  Validated(b, call) \in Booking /\ Sound(Validated(b, call))
<1>2. /\ call.paid \in BOOLEAN /\ call.isValidated \in BOOLEAN
      /\ call.amount \in Amounts /\ call.amount \in Nat
      /\ call.payments \in {"one", "initialAndFinal", "none"}
  BY AmountsAreNat, ConstantsAssumption DEF Call
<1>3. Decision(terms, call) \in Statuses
  BY <1>2 DEF Decision, Statuses
<1> DEFINE paid == PayBooking(b, call)
           card == IF terms.method = "Credito/Debito" /\ ~call.paid
                     THEN [paid EXCEPT !.isReserve = FALSE, !.totalPaid = 0]
                     ELSE paid
<1>4. paid \in Booking /\ Sound(paid)
  <2>1. CASE call.paid /\ call.amount >= Total
    <3>1. paid = [b EXCEPT !.totalPaid = call.amount, !.isReserve = FALSE]
      BY <2>1 DEF PayBooking
    <3> QED
      BY <1>2, <3>1 DEF Booking, Sound
  <2>2. CASE call.paid /\ ~(call.amount >= Total)
    <3>1. paid = [b EXCEPT !.totalPaid = call.amount, !.isReserve = b.isReserve]
      BY <2>2 DEF PayBooking
    <3>2. call.amount < Total
      BY <1>2, <2>2, AmountsAreNat
    <3> QED
      BY <1>2, <3>1, <3>2 DEF Booking, Sound
  <2>3. CASE ~call.paid
    <3>1. paid = [b EXCEPT !.totalPaid = 0, !.isReserve = TRUE]
      BY <2>3 DEF PayBooking
    <3> QED
      BY <3>1, AmountsAreNat, ConstantsAssumption DEF Booking, Sound
  <2> QED
    BY <2>1, <2>2, <2>3
<1>5. card \in Booking /\ Sound(card)
  BY <1>4 DEF Booking, Sound
<1>6. InitialAndFinal \in Payments /\
      (Deposit # Total - Deposit => \A a \in Amounts : InitialAndFinal[a] <= 1)
  BY AmountsAreNat DEF InitialAndFinal, Payments
<1> HIDE DEF paid, card
<1>7. Registered(card, call) \in Booking /\ Sound(Registered(card, call))
  <2>1. CASE call.payments = "initialAndFinal"
    BY <2>1, <1>5, <1>6 DEF Registered, Booking, Sound
  <2>2. CASE call.payments = "one" /\ call.paid /\ card.payments[call.amount] = 0
    <3>1. Registered(card, call) = [card EXCEPT !.payments[call.amount] = 1]
      BY <2>2 DEF Registered
    <3>2. card.payments \in [Amounts -> Nat]
      BY <1>5 DEF Booking, Payments
    <3>3. [card.payments EXCEPT ![call.amount] = 1] \in [Amounts -> Nat]
      BY <3>2, <1>2
    <3>4. Registered(card, call) = [card EXCEPT !.payments =
                                      [card.payments EXCEPT ![call.amount] = 1]]
      BY <3>1, <1>5 DEF Booking
    <3> QED
      BY <3>2, <3>3, <3>4, <1>2, <1>5, AmountsAreNat DEF Booking, Payments, Sound
  <2>3. CASE call.payments # "initialAndFinal" /\
             ~(call.payments = "one" /\ call.paid /\ card.payments[call.amount] = 0)
    BY <2>3, <1>5 DEF Registered
  <2> QED
    BY <2>1, <2>2, <2>3
<1>8. Validated(b, call) =
        [Registered(card, call) EXCEPT !.status = Decision(terms, call),
                                       !.isValidated = call.isValidated]
  BY DEF Validated, card, paid
<1> QED
  BY <1>2, <1>3, <1>7, <1>8 DEF Booking, Sound

-----------------------------------------------------------------------------
\* A handler that starts changes nothing but its own record.
LEMMA BeginIInv ==
    ASSUME IInv, NEW r \in Requests, NEW op, NEW stage, NEW copy,
           op \in {"validate", "confirm", "cancel", "webhook"}, stage = "write",
           copy \in Booking, Sound(copy), Begin(r, op, stage, copy)
    PROVE  IInv'
<1>1. request' \in [Requests -> Request]
  BY DEF IInv, TypeOK, Begin, Request, Stages
<1>2. \A q \in Requests : Sound(request'[q].copy)
  BY DEF IInv, TypeOK, Begin
<1>3. calls' \in 0 .. MaxCalls
  BY ConstantsAssumption DEF IInv, TypeOK, Begin
<1>4. \A q \in Requests : request'[q] = request[q] \/ request'[q].stage = "write"
  BY DEF IInv, TypeOK, Begin
<1>5. TypeOK'
  BY <1>1, <1>3, <1>4 DEF IInv, TypeOK, Begin
<1> QED
  BY <1>2, <1>5 DEF IInv, Begin, Sound

\* A handler that goes on to another stage keeps its copies; at the end it forgets them.
LEMMA GoKeeps ==
    ASSUME request \in [Requests -> Request], NEW r \in Requests,
           NEW stage \in Stages, Go(r, stage)
    PROVE  /\ request' \in [Requests -> Request]
           /\ \A q \in Requests : q # r => request'[q] = request[q]
           /\ request'[r].stage = stage
           /\ stage = "idle" => request'[r] = NoRequest
           /\ stage # "idle" => /\ request'[r].copy = request[r].copy
                                /\ request'[r].op = request[r].op
<1>1. NoRequest \in Request /\ NoRequest.stage = "idle"
  BY NoRequestType DEF NoRequest
<1>2. [request[r] EXCEPT !.stage = stage] \in Request
  BY DEF Request
<1> QED
  BY <1>1, <1>2 DEF Go, Request

-----------------------------------------------------------------------------
LEMMA InitIInv == Init => IInv
<1> SUFFICES ASSUME Init PROVE IInv
  OBVIOUS
<1>1. booking \in Booking
  <2>1. booking \in [status : {Pending, Rejected}, isReserve : BOOLEAN,
                     isValidated : {FALSE}, totalPaid : {0, Deposit, Total},
                     payments : [Amounts -> {0, 1}]]
    BY DEF Init
  <2>2. /\ {0, Deposit, Total} \subseteq {0} \cup Amounts
        /\ [Amounts -> {0, 1}] \subseteq Payments
        /\ {Pending, Rejected} \subseteq Statuses
    BY AmountsAreNat DEF Payments, Statuses
  <2> QED
    BY <2>1, <2>2 DEF Booking
<1>2. Sound(booking)
  BY <1>1, AmountsAreNat, ConstantsAssumption DEF Init, Sound, Booking
<1>3. mails \subseteq Mails /\ recent \in BOOLEAN
  BY DEF Init, Mails
<1>4. request \in [Requests -> Request] /\ \A r \in Requests : Sound(request[r].copy)
  BY NoRequestType DEF Init
<1>5. \A r \in Requests : request[r].stage = "idle"
  BY DEF Init, NoRequest
<1>6. contract \in Statuses \cup {NoContract} /\ terms \in Terms
  BY <1>1 DEF Init, Booking
<1>7. commissions \in Nat /\ calls \in 0 .. MaxCalls
  BY ConstantsAssumption DEF Init
<1> QED
  BY <1>1, <1>2, <1>3, <1>4, <1>5, <1>6, <1>7 DEF IInv, TypeOK

\* The four ways to ask for something.
LEMMA AskIInv ==
    ASSUME IInv, NEW r \in Requests, Ask(r)
    PROVE  IInv'
<1>0. booking \in Booking /\ Sound(booking) /\ terms \in Terms
  BY DEF IInv, TypeOK
<1>1. ASSUME NEW call \in Call, StartValidate(r, call)
      PROVE  IInv'
  <2>1. Validated(booking, call) \in Booking /\ Sound(Validated(booking, call))
    BY <1>0, ValidatedIsSound
  <2> QED
    BY <1>1, <2>1, BeginIInv DEF StartValidate
<1>2. CASE StartConfirm(r)
  <2> DEFINE copy == [booking EXCEPT !.status = Approved, !.isReserve = FALSE,
                                     !.totalPaid = Total]
  <2>1. copy \in Booking /\ Sound(copy)
    BY <1>0, AmountsAreNat DEF Booking, Sound, Statuses
  <2> QED
    BY <1>2, <2>1, BeginIInv DEF StartConfirm
<1>3. CASE StartCancel(r)
  <2> DEFINE copy == [booking EXCEPT !.status = Cancelled]
  <2>1. copy \in Booking /\ Sound(copy)
    BY <1>0 DEF Booking, Sound, Statuses
  <2> QED
    BY <1>3, <2>1, BeginIInv DEF StartCancel
<1>4. CASE StartWebhook(r)
  BY <1>0, <1>4, BeginIInv DEF StartWebhook
<1> QED
  BY <1>1, <1>2, <1>3, <1>4 DEF Ask

\* A step of a handler: what it may do to the document and to its own stage, and
\* what IInv needs of that.
LEMMA StepIInv ==
    ASSUME IInv, NEW r \in Requests, NEW stage \in Stages, Go(r, stage),
           booking' \in Booking, Sound(booking'),
           contract' \in Statuses \cup {NoContract}, commissions' \in Nat,
           mails' \subseteq Mails, recent' \in BOOLEAN,
           UNCHANGED <<terms, calls>>,
           stage = "reset" => request[r].copy.status = Rejected,
           stage = "clear" => request[r].copy.status = Cancelled,
           stage \in {"check", "create"} => request[r].copy.status = Approved
    PROVE  IInv'
<1>1. request \in [Requests -> Request]
  BY DEF IInv, TypeOK
<1>2. /\ request' \in [Requests -> Request]
      /\ \A q \in Requests : q # r => request'[q] = request[q]
      /\ request'[r].stage = stage
      /\ stage = "idle" => request'[r] = NoRequest
      /\ stage # "idle" => /\ request'[r].copy = request[r].copy
                           /\ request'[r].op = request[r].op
  BY <1>1, GoKeeps
<1>3. \A q \in Requests : Sound(request'[q].copy)
  <2>1. \A q \in Requests : Sound(request[q].copy)
    BY DEF IInv
  <2> QED
    BY <1>2, <2>1, NoRequestType
<1>4. \A q \in Requests :
         /\ request'[q].stage = "reset" => request'[q].copy.status = Rejected
         /\ request'[q].stage = "clear" => request'[q].copy.status = Cancelled
         /\ request'[q].stage \in {"check", "create"} => request'[q].copy.status = Approved
  BY <1>2 DEF IInv, TypeOK
<1>5. TypeOK'
  BY <1>2, <1>4 DEF IInv, TypeOK
<1> QED
  BY <1>3, <1>5 DEF IInv, Sound

\* The steps of the handlers.
LEMMA HandleIInv ==
    ASSUME IInv, NEW r \in Requests, Handle(r)
    PROVE  IInv'
<1>0. /\ booking \in Booking /\ Sound(booking)
      /\ request[r] \in Request /\ Sound(request[r].copy)
      /\ contract \in Statuses \cup {NoContract} /\ commissions \in Nat
      /\ mails \subseteq Mails /\ recent \in BOOLEAN
      /\ request[r].copy \in Booking /\ request[r].copy.status \in Statuses
  BY DEF IInv, TypeOK, Request, Booking
<1>1. CASE WriteBooking(r)
  <2>1. PICK stage \in {"contract", "mail"} : Go(r, stage)
    BY <1>1 DEF WriteBooking
  <2> QED
    BY <1>0, <1>1, <2>1, StepIInv DEF WriteBooking, Stages
<1>2. ASSUME NEW amount \in {Deposit, Total}, WriteWebhook(r, amount)
      PROVE  IInv'
  <2>1. booking' \in Booking /\ Sound(booking')
    BY <1>0, <1>2, AmountsAreNat DEF WriteWebhook, Booking, Sound, Statuses
  <2> QED
    BY <1>0, <1>2, <2>1, StepIInv DEF WriteWebhook, Stages
<1>3. CASE FindUserFails(r)
  BY <1>0, <1>3, StepIInv DEF FindUserFails, Stages
<1>4. CASE WriteContract(r)
  <2> DEFINE stage == IF request[r].copy.status # Rejected THEN "mail"
                      ELSE IF request[r].read.status = Approved THEN "idle" ELSE "reset"
  <2>1. /\ Go(r, stage) /\ stage \in Stages
        /\ stage \notin {"clear", "check", "create"}
        /\ stage = "reset" => request[r].copy.status = Rejected
    BY <1>4 DEF WriteContract, Stages
  <2>2. contract' \in Statuses \cup {NoContract}
    BY <1>0, <1>4 DEF WriteContract
  <2>3. UNCHANGED <<booking, terms, commissions, mails, recent, calls>>
    BY <1>4 DEF WriteContract
  <2> HIDE DEF stage
  <2> QED
    BY <1>0, <2>1, <2>2, <2>3, StepIInv
<1>5. CASE ResetTotalPaid(r)
  <2>1. booking' \in Booking /\ Sound(booking')
    BY <1>0, <1>5, ConstantsAssumption DEF ResetTotalPaid, Booking, Sound
  <2> QED
    BY <1>0, <1>5, <2>1, StepIInv DEF ResetTotalPaid, Stages
<1>6. CASE SendMail(r)
  <2>1. mails' \subseteq Mails /\ recent' \in BOOLEAN
    BY <1>0, <1>6 DEF SendMail, CreatedMail, Mails
  <2>2. PICK stage \in {"create", "check", "idle", "clear"} :
           /\ Go(r, stage)
           /\ stage = "clear" => request[r].copy.status = Cancelled
           /\ stage \in {"check", "create"} => request[r].copy.status = Approved
    BY <1>6 DEF SendMail
  <2>3. UNCHANGED <<booking, terms, contract, commissions, calls>>
    BY <1>6 DEF SendMail
  <2> QED
    BY <1>0, <2>1, <2>2, <2>3, StepIInv DEF Stages
<1>7. CASE CheckCommissions(r)
  <2>1. request[r].copy.status = Approved
    BY <1>7 DEF CheckCommissions, IInv, TypeOK
  <2>2. PICK stage \in {"create", "idle"} : Go(r, stage)
    BY <1>7 DEF CheckCommissions
  <2> QED
    BY <1>0, <1>7, <2>1, <2>2, StepIInv DEF CheckCommissions, Stages
<1>8. CASE CreateCommissions(r)
  BY <1>0, <1>8, StepIInv DEF CreateCommissions, Stages
<1>9. CASE ClearTotalPaid(r)
  <2>1. booking' \in Booking /\ Sound(booking')
    BY <1>0, <1>9, ConstantsAssumption DEF ClearTotalPaid, Booking, Sound
  <2> QED
    BY <1>0, <1>9, <2>1, StepIInv DEF ClearTotalPaid, Stages
<1> QED
  BY <1>1, <1>2, <1>3, <1>4, <1>5, <1>6, <1>7, <1>8, <1>9 DEF Handle

LEMMA OtherIInv == IInv /\ (WindowPasses \/ UNCHANGED vars) => IInv'
BY DEF IInv, TypeOK, Sound, WindowPasses, vars

\* The inductive invariant holds of every behaviour.
THEOREM IInvariance == Spec => []IInv
<1>1. IInv /\ [Next]_vars => IInv'
  BY AskIInv, HandleIInv, OtherIInv DEF Next
<1> QED
  BY InitIInv, <1>1, PTL DEF Spec

\* Types, and what the stage of a handler tells of the status it has written.
THEOREM TypeCorrect == Spec => []TypeOK
BY IInvariance, PTL DEF IInv

\* No interleaving of validations, confirmations, cancellations and webhooks leaves
\* a booking a reserve on which nothing is owed.
THEOREM ReservesOwe == Spec => []ReserveMeansOwing
<1>1. IInv => ReserveMeansOwing
  BY DEF IInv, Sound, ReserveMeansOwing
<1> QED
  BY <1>1, IInvariance, PTL

\* No interleaving registers a payment twice.
THEOREM PaymentsAreNotDuplicated == Spec => []NoDuplicatePayment
<1>1. IInv => NoDuplicatePayment
  BY DEF IInv, Sound, NoDuplicatePayment
<1> QED
  BY <1>1, IInvariance, PTL

-----------------------------------------------------------------------------
\* The handler has written the status of a cancellation and will clear totalPaid.
Clearing(r) ==
    request[r].op = "cancel" /\ request[r].stage \in {"mail", "clear"}

\* Only a cancellation writes its status, and after it, it clears totalPaid.
CancelInv ==
    /\ request \in [Requests -> Request]
    /\ \A r \in Requests :
          /\ request[r].op = "cancel" => request[r].copy.status = Cancelled
          /\ request[r].op \in {"validate", "confirm"} =>
                request[r].copy.status # Cancelled
          /\ request[r].op = "none" => request[r].stage = "idle"
    /\ booking.status = Cancelled =>
          booking.totalPaid = 0 \/ \E r \in Requests : Clearing(r)

\* A handler that starts has not written anything.
LEMMA AskCancelInv ==
    ASSUME IInv, CancelInv, NEW r \in Requests, Ask(r)
    PROVE  CancelInv'
<1>0. PICK op \in {"validate", "confirm", "cancel", "webhook"}, copy \in Booking :
         /\ Begin(r, op, "write", copy)
         /\ op = "cancel" => copy.status = Cancelled
         /\ op \in {"validate", "confirm"} => copy.status # Cancelled
  <2>0. booking \in Booking /\ Sound(booking) /\ terms \in Terms
    BY DEF IInv, TypeOK
  <2>1. ASSUME NEW call \in Call, StartValidate(r, call)
        PROVE  /\ Validated(booking, call) \in Booking
               /\ Validated(booking, call).status # Cancelled
    <3>1. Validated(booking, call) \in Booking
      BY <2>0, ValidatedIsSound
    <3>2. Validated(booking, call).status = Decision(terms, call)
      <4> DEFINE paid == PayBooking(booking, call)
                 card == IF terms.method = "Credito/Debito" /\ ~call.paid
                           THEN [paid EXCEPT !.isReserve = FALSE, !.totalPaid = 0]
                           ELSE paid
      <4>1. Validated(booking, call) =
              [Registered(card, call) EXCEPT !.status = Decision(terms, call),
                                             !.isValidated = call.isValidated]
        BY DEF Validated
      <4>2. "status" \in DOMAIN Validated(booking, call)
        BY <3>1 DEF Booking
      <4> HIDE DEF card, paid
      <4>3. DOMAIN Validated(booking, call) = DOMAIN Registered(card, call)
        BY <4>1
      <4> QED
        BY <4>1, <4>2, <4>3
    <3>3. Decision(terms, call) # Cancelled
      BY DEF Decision, Approved, Rejected, Pending, Cancelled
    <3> QED
      BY <3>1, <3>2, <3>3
  <2>2. CASE StartConfirm(r)
    <3> DEFINE copy == [booking EXCEPT !.status = Approved, !.isReserve = FALSE,
                                       !.totalPaid = Total]
    <3>1. copy \in Booking /\ copy.status # Cancelled
      BY <2>0, AmountsAreNat DEF Booking, Statuses, Approved, Cancelled
    <3> QED
      BY <2>2, <3>1 DEF StartConfirm
  <2>3. CASE StartCancel(r)
    <3> DEFINE copy == [booking EXCEPT !.status = Cancelled]
    <3>1. copy \in Booking /\ copy.status = Cancelled
      BY <2>0 DEF Booking, Statuses
    <3> QED
      BY <2>3, <3>1 DEF StartCancel
  <2>4. CASE StartWebhook(r)
    BY <2>0, <2>4 DEF StartWebhook
  <2>5. CASE \E call \in Call : StartValidate(r, call)
    BY <2>1, <2>5 DEF StartValidate
  <2> QED
    BY <2>2, <2>3, <2>4, <2>5 DEF Ask
<1>1. /\ request[r].stage = "idle"
      /\ \A q \in Requests \ {r} : request'[q] = request[q]
      /\ request'[r] = [stage |-> "write", op |-> op, read |-> booking, copy |-> copy]
      /\ UNCHANGED booking
  BY <1>0 DEF CancelInv, Begin
<1>2. request' \in [Requests -> Request]
  BY <1>0 DEF IInv, TypeOK, Begin, Request, Stages
<1>3. \A q \in Requests : Clearing(q) => Clearing(q)'
  BY <1>1 DEF Clearing
<1> QED
  BY <1>0, <1>1, <1>2, <1>3 DEF CancelInv

\* A handler that goes on, unless it is a cancellation that forgets to clear.
LEMMA StepCancelInv ==
    ASSUME CancelInv, NEW r \in Requests, NEW stage \in Stages, Go(r, stage),
           request[r].stage # "idle",
           booking'.status = Cancelled =>
              \/ booking'.totalPaid = 0
              \/ booking.status = Cancelled /\ booking'.totalPaid = booking.totalPaid
              \/ request[r].op = "cancel" /\ stage = "mail",
           Clearing(r) /\ stage \notin {"mail", "clear"} =>
              (booking'.status = Cancelled => booking'.totalPaid = 0)
    PROVE  CancelInv'
<1>1. /\ request' \in [Requests -> Request]
      /\ \A q \in Requests : q # r => request'[q] = request[q]
      /\ request'[r].stage = stage
      /\ stage = "idle" => request'[r] = NoRequest
      /\ stage # "idle" => /\ request'[r].copy = request[r].copy
                           /\ request'[r].op = request[r].op
  BY GoKeeps DEF CancelInv
<1>2. \A q \in Requests : Clearing(q) =>
         Clearing(q)' \/ (q = r /\ stage \notin {"mail", "clear"})
  BY <1>1 DEF Clearing
<1>3. NoRequest.op = "none" /\ NoRequest.stage = "idle"
  BY DEF NoRequest
<1>4. \A q \in Requests :
         /\ request'[q].op = "cancel" => request'[q].copy.status = Cancelled
         /\ request'[q].op \in {"validate", "confirm"} =>
               request'[q].copy.status # Cancelled
         /\ request'[q].op = "none" => request'[q].stage = "idle"
  <2> SUFFICES ASSUME NEW q \in Requests
               PROVE  /\ request'[q].op = "cancel" => request'[q].copy.status = Cancelled
                      /\ request'[q].op \in {"validate", "confirm"} =>
                            request'[q].copy.status # Cancelled
                      /\ request'[q].op = "none" => request'[q].stage = "idle"
    OBVIOUS
  <2>1. CASE q # r
    BY <1>1, <2>1 DEF CancelInv
  <2>2. CASE q = r /\ stage = "idle"
    BY <1>1, <1>3, <2>2
  <2>3. CASE q = r /\ stage # "idle" /\ request[r].stage # "idle"
    BY <1>1, <2>3 DEF CancelInv
  <2> QED
    BY <2>1, <2>2, <2>3
<1>5. booking'.status = Cancelled =>
         booking'.totalPaid = 0 \/ \E q \in Requests : Clearing(q)'
  <2> SUFFICES ASSUME booking'.status = Cancelled, booking'.totalPaid # 0
               PROVE  \E q \in Requests : Clearing(q)'
    OBVIOUS
  <2>1. CASE booking.status = Cancelled /\ booking'.totalPaid = booking.totalPaid
    BY <1>2, <2>1 DEF CancelInv
  <2>2. CASE request[r].op = "cancel" /\ stage = "mail"
    BY <1>1, <2>2 DEF Clearing
  <2> QED
    BY <2>1, <2>2
<1> QED
  BY <1>1, <1>4, <1>5 DEF CancelInv

LEMMA HandleCancelInv ==
    ASSUME "userGone" \notin Operations, IInv, CancelInv, NEW r \in Requests, Handle(r)
    PROVE  CancelInv'
<1>0. /\ booking \in Booking /\ request[r] \in Request /\ request[r].copy \in Booking
      /\ request[r].op = "cancel" => request[r].copy.status = Cancelled
      /\ request[r].op \in {"validate", "confirm"} => request[r].copy.status # Cancelled
  BY DEF IInv, TypeOK, Request, CancelInv
<1>1. CASE WriteBooking(r)
  <2>1. /\ Go(r, IF request[r].op = "validate" THEN "contract" ELSE "mail")
        /\ booking' = request[r].copy
        /\ request[r].stage = "write" /\ request[r].op # "webhook"
    BY <1>1 DEF WriteBooking
  <2>2. request[r].op \in {"validate", "confirm", "cancel"} \/ request[r].op = "none"
    BY <1>0, <2>1 DEF Request
  <2>3. request[r].op # "none"
    BY <2>1 DEF CancelInv
  <2>4. CASE request[r].op = "cancel"
    BY <2>1, <2>4, StepCancelInv DEF Stages, Clearing
  <2>5. CASE request[r].op # "cancel"
    <3>1. PICK stage \in {"contract", "mail"} : Go(r, stage)
      BY <2>1
    <3> QED
      BY <1>0, <2>1, <2>2, <2>3, <2>5, <3>1, StepCancelInv DEF Stages, Clearing
  <2> QED
    BY <2>4, <2>5
<1>2. ASSUME NEW amount \in {Deposit, Total}, WriteWebhook(r, amount)
      PROVE  CancelInv'
  <2>1. booking'.status # Cancelled
    BY <1>0, <1>2 DEF WriteWebhook, Booking, Approved, Cancelled
  <2> QED
    BY <1>2, <2>1, StepCancelInv DEF WriteWebhook, Stages
<1>3. CASE FindUserFails(r)
  BY <1>3 DEF FindUserFails
<1>4. CASE WriteContract(r)
  <2>1. PICK stage \in {"mail", "idle", "reset"} : Go(r, stage)
    BY <1>4 DEF WriteContract
  <2> QED
    BY <1>4, <2>1, StepCancelInv DEF WriteContract, Stages, Clearing
<1>5. CASE ResetTotalPaid(r)
  <2>1. booking'.totalPaid = 0
    BY <1>0, <1>5 DEF ResetTotalPaid, Booking
  <2> QED
    BY <1>5, <2>1, StepCancelInv DEF ResetTotalPaid, Stages
<1>6. CASE SendMail(r)
  <2>1. PICK stage \in {"create", "check", "idle", "clear"} :
           /\ Go(r, stage)
           /\ request[r].copy.status = Cancelled => stage = "clear"
    BY <1>6 DEF SendMail, Approved, Pending, Rejected, Cancelled
  <2>2. UNCHANGED booking /\ request[r].stage = "mail"
    BY <1>6 DEF SendMail
  <2> QED
    BY <1>0, <2>1, <2>2, StepCancelInv DEF Stages, Clearing
<1>7. CASE CheckCommissions(r)
  <2>1. PICK stage \in {"create", "idle"} : Go(r, stage)
    BY <1>7 DEF CheckCommissions
  <2> QED
    BY <1>7, <2>1, StepCancelInv DEF CheckCommissions, Stages, Clearing
<1>8. CASE CreateCommissions(r)
  BY <1>8, StepCancelInv DEF CreateCommissions, Stages, Clearing
<1>9. CASE ClearTotalPaid(r)
  <2>1. booking'.totalPaid = 0
    BY <1>0, <1>9 DEF ClearTotalPaid, Booking
  <2> QED
    BY <1>9, <2>1, StepCancelInv DEF ClearTotalPaid, Stages
<1> QED
  BY <1>1, <1>2, <1>3, <1>4, <1>5, <1>6, <1>7, <1>8, <1>9 DEF Handle

LEMMA OtherCancelInv == CancelInv /\ (WindowPasses \/ UNCHANGED vars) => CancelInv'
BY DEF CancelInv, Clearing, WindowPasses, vars

\* As long as every booking has its user, a cancelled booking ends with totalPaid 0,
\* whatever validations, confirmations and webhooks run into its cancellation.
THEOREM CancelledIsCleared ==
    ASSUME "userGone" \notin Operations
    PROVE  Spec => []CancelledIsNotPaid
<1>1. Init => CancelInv
  <2> SUFFICES ASSUME Init PROVE CancelInv
    OBVIOUS
  <2>1. booking.status # Cancelled
    BY DEF Init, Pending, Rejected, Cancelled
  <2>2. \A r \in Requests : request[r].op = "none" /\ request[r].stage = "idle"
    BY DEF Init, NoRequest
  <2>3. request \in [Requests -> Request]
    BY NoRequestType DEF Init
  <2> QED
    BY <2>1, <2>2, <2>3 DEF CancelInv
<1>2. IInv /\ CancelInv /\ [Next]_vars => CancelInv'
  BY AskCancelInv, HandleCancelInv, OtherCancelInv DEF Next
<1>3. CancelInv => CancelledIsNotPaid
  BY DEF CancelInv, Clearing, CancelledIsNotPaid, Settled
<1> QED
  BY <1>1, <1>2, <1>3, IInvariance, PTL DEF Spec

-----------------------------------------------------------------------------
(* One handler at a time: what it has written is still there when it goes  *)
(* on.                                                                     *)

OneRequest == \E r \in Requests : Requests = {r}

\* What an approved booking, or copy of it, says.
Paid(b) == b.status = Approved => b.totalPaid > 0

\* The contract says what the booking says.
Agree(b, c) == c # NoContract /\ b.status \in {Pending, Rejected} => c = b.status

\* What is known of the handler: what it has written is the booking, and at the stage
\* "create" it has looked for commissions.
Serial(q, b, c, n) ==
    /\ q.op = "none" => q.stage = "idle"
    /\ q.op = "confirm" => q.copy.status = Approved /\ "confirm" \in Operations
    /\ q.op = "cancel" => q.copy.status = Cancelled
    /\ Paid(q.copy)
    /\ q.stage \notin {"idle", "write"} => b.status = q.copy.status
    /\ q.stage # "contract" /\ "userGone" \notin Operations => Agree(b, c)
    /\ q.stage = "create" /\ "confirm" \notin Operations => n = 0

SInv ==
    /\ Paid(booking)
    /\ \A r \in Requests : Serial(request[r], booking, contract, commissions)
    /\ "confirm" \notin Operations => commissions <= 1

LEMMA SerialIdle ==
    ASSUME NEW b, NEW c, NEW n, "userGone" \notin Operations => Agree(b, c)
    PROVE  Serial(NoRequest, b, c, n)
BY DEF Serial, NoRequest, Paid, Pending, Approved

\* An approval has been paid.
LEMMA ValidatedIsPaid ==
    ASSUME NEW b \in Booking, Sound(b), NEW call \in Call, terms \in Terms
    PROVE  Paid(Validated(b, call))
<1> DEFINE paid == PayBooking(b, call)
           card == IF terms.method = "Credito/Debito" /\ ~call.paid
                     THEN [paid EXCEPT !.isReserve = FALSE, !.totalPaid = 0]
                     ELSE paid
           done == Registered(card, call)
<1>1. Validated(b, call) = [done EXCEPT !.status = Decision(terms, call),
                                        !.isValidated = call.isValidated]
  BY DEF Validated
<1>2. Validated(b, call) \in Booking
  BY ValidatedIsSound
<1>3. call.paid => card = paid /\ paid.totalPaid = call.amount
  BY DEF PayBooking, Booking
<1>4. done.totalPaid = card.totalPaid
  BY DEF Registered
<1> HIDE DEF card, paid, done
<1>5. /\ Validated(b, call).status = Decision(terms, call)
      /\ Validated(b, call).totalPaid = done.totalPaid
  BY <1>1, <1>2 DEF Booking
<1>6. Decision(terms, call) = Approved => call.paid
  BY DEF Decision, Approved, Rejected, Pending
<1>7. call.amount > 0
  BY ConstantsAssumption DEF Call
<1> QED
  BY <1>3, <1>4, <1>5, <1>6, <1>7 DEF Paid

\* The only handler goes on, and the booking is what it has written.
LEMMA SerialStep ==
    ASSUME OneRequest, IInv, SInv, NEW r \in Requests, NEW stage \in Stages, Go(r, stage),
           request[r].stage # "idle",
           Paid(booking'),
           stage # "idle" => booking'.status = request[r].copy.status,
           stage # "contract" /\ "userGone" \notin Operations => Agree(booking', contract'),
           stage = "create" /\ "confirm" \notin Operations => commissions' = 0,
           "confirm" \notin Operations => commissions' <= 1,
           stage # "write"
    PROVE  SInv'
<1>1. \A s \in Requests : s = r
  BY DEF OneRequest
<1>2. /\ stage = "idle" => request'[r] = NoRequest
      /\ stage # "idle" => /\ request'[r].copy = request[r].copy
                           /\ request'[r].op = request[r].op
      /\ request'[r].stage = stage
  BY GoKeeps DEF IInv, TypeOK
<1>3. Serial(request'[r], booking', contract', commissions')
  <2>1. CASE stage = "idle"
    BY <1>2, <2>1, SerialIdle
  <2>2. CASE stage # "idle"
    <3>1. Serial(request[r], booking, contract, commissions)
      BY DEF SInv
    <3> QED
      BY <1>2, <2>2, <3>1 DEF Serial
  <2> QED
    BY <2>1, <2>2
<1> QED
  BY <1>1, <1>3 DEF SInv

LEMMA AskSerial ==
    ASSUME OneRequest, IInv, SInv, NEW r \in Requests, Ask(r)
    PROVE  SInv'
<1>0. booking \in Booking /\ Sound(booking) /\ terms \in Terms /\ Paid(booking)
  BY DEF IInv, TypeOK, SInv
<1>1. PICK op, copy :
         /\ op \in {"validate", "confirm", "cancel", "webhook"}
         /\ Begin(r, op, "write", copy)
         /\ op = "cancel" => copy.status = Cancelled
         /\ op = "confirm" => copy.status = Approved
         /\ Paid(copy)
  <2>1. ASSUME NEW call \in Call, StartValidate(r, call)
        PROVE  Begin(r, "validate", "write", Validated(booking, call)) /\
               Paid(Validated(booking, call))
    BY <1>0, <2>1, ValidatedIsPaid DEF StartValidate
  <2>2. CASE StartConfirm(r)
    <3> DEFINE copy == [booking EXCEPT !.status = Approved, !.isReserve = FALSE,
                                       !.totalPaid = Total]
    <3>1. copy.status = Approved /\ Paid(copy)
      BY <1>0, AmountsAreNat DEF Booking, Paid
    <3>2. Begin(r, "confirm", "write", copy)
      BY <2>2 DEF StartConfirm
    <3> HIDE DEF copy
    <3> QED
      BY <3>1, <3>2
  <2>3. CASE StartCancel(r)
    <3> DEFINE copy == [booking EXCEPT !.status = Cancelled]
    <3>1. copy.status = Cancelled /\ Paid(copy)
      BY <1>0 DEF Booking, Paid, Approved, Cancelled
    <3>2. Begin(r, "cancel", "write", copy)
      BY <2>3 DEF StartCancel
    <3> HIDE DEF copy
    <3> QED
      BY <3>1, <3>2
  <2>4. CASE StartWebhook(r)
    BY <1>0, <2>4 DEF StartWebhook
  <2> QED
    BY <2>1, <2>2, <2>3, <2>4 DEF Ask
<1>2. /\ request[r].stage = "idle" /\ op \in Operations
      /\ request'[r] = [stage |-> "write", op |-> op, read |-> booking, copy |-> copy]
      /\ UNCHANGED <<booking, contract, commissions>>
  BY <1>1 DEF Begin, IInv, TypeOK
<1>3. Serial(request[r], booking, contract, commissions)
  BY DEF SInv
<1>4. Serial(request'[r], booking', contract', commissions')
  BY <1>1, <1>2, <1>3 DEF Serial
<1>5. \A s \in Requests : s = r
  BY DEF OneRequest
<1> QED
  BY <1>2, <1>4, <1>5 DEF SInv

LEMMA HandleSerial ==
    ASSUME OneRequest, IInv, SInv, NEW r \in Requests, Handle(r)
    PROVE  SInv'
<1>0. /\ booking \in Booking /\ Paid(booking) /\ commissions \in Nat
      /\ request[r] \in Request /\ request[r].copy \in Booking
      /\ Serial(request[r], booking, contract, commissions)
      /\ "confirm" \notin Operations => commissions <= 1
  BY DEF IInv, TypeOK, SInv, Request
<1>1. CASE WriteBooking(r)
  <2>1. /\ Go(r, IF request[r].op = "validate" THEN "contract" ELSE "mail")
        /\ booking' = request[r].copy /\ UNCHANGED <<contract, commissions>>
        /\ request[r].stage = "write" /\ request[r].op # "webhook"
    BY <1>1 DEF WriteBooking
  <2>2. Paid(booking')
    BY <1>0, <2>1 DEF Serial
  <2>3. CASE request[r].op = "validate"
    BY <1>0, <2>1, <2>2, <2>3, SerialStep DEF Stages
  <2>4. CASE request[r].op # "validate"
    <3>1. request[r].op \in {"confirm", "cancel"}
      BY <1>0, <2>1, <2>4 DEF Request, Serial
    <3>2. Agree(booking', contract')
      BY <1>0, <2>1, <3>1 DEF Serial, Agree, Approved, Cancelled, Pending, Rejected
    <3> QED
      BY <1>0, <2>1, <2>2, <2>4, <3>2, SerialStep DEF Stages
  <2> QED
    BY <2>3, <2>4
<1>2. ASSUME NEW amount \in {Deposit, Total}, WriteWebhook(r, amount)
      PROVE  SInv'
  <2>1. booking'.status = Approved /\ booking'.totalPaid = amount
    BY <1>0, <1>2 DEF WriteWebhook, Booking
  <2>2. Paid(booking') /\ Agree(booking', contract')
    BY <2>1, AmountsAreNat, ConstantsAssumption
       DEF Paid, Agree, Approved, Pending, Rejected
  <2> QED
    BY <1>0, <1>2, <2>2, SerialStep DEF WriteWebhook, Stages
<1>3. CASE FindUserFails(r)
  <2>1. "userGone" \in Operations /\ request[r].stage # "idle"
    BY <1>3 DEF FindUserFails, UserStages
  <2> QED
    BY <1>0, <1>3, <2>1, SerialStep DEF FindUserFails, Stages
<1>4. CASE WriteContract(r)
  <2>1. PICK stage \in {"mail", "idle", "reset"} : Go(r, stage)
    BY <1>4 DEF WriteContract
  <2>2. /\ request[r].stage = "contract" /\ UNCHANGED <<booking, commissions>>
        /\ booking.status = request[r].copy.status
    BY <1>0, <1>4 DEF WriteContract, Serial
  <2>3. Agree(booking', contract')
    BY <1>4, <2>2 DEF WriteContract, Agree
  <2> QED
    BY <1>0, <2>1, <2>2, <2>3, SerialStep DEF Stages
<1>5. CASE ResetTotalPaid(r)
  <2>1. /\ request[r].stage = "reset" /\ UNCHANGED <<contract, commissions>> /\ Go(r, "mail")
        /\ booking'.status = booking.status /\ booking.status = request[r].copy.status
        /\ request[r].copy.status = Rejected
    BY <1>0, <1>5 DEF ResetTotalPaid, Serial, Booking, IInv, TypeOK
  <2>2. Paid(booking') /\ ("userGone" \notin Operations => Agree(booking', contract'))
    BY <1>0, <2>1 DEF Serial, Paid, Agree, Approved, Rejected
  <2> QED
    BY <1>0, <2>1, <2>2, SerialStep DEF Stages
<1>6. CASE SendMail(r)
  <2>1. /\ request[r].stage = "mail" /\ UNCHANGED <<booking, contract, commissions>>
        /\ booking.status = request[r].copy.status
        /\ "userGone" \notin Operations => Agree(booking, contract)
    BY <1>0, <1>6 DEF SendMail, Serial
  <2>2. PICK stage \in {"create", "check", "idle", "clear"} :
           Go(r, stage) /\ (stage = "create" => request[r].op = "confirm")
    BY <1>6 DEF SendMail
  <2>3. stage = "create" => "confirm" \in Operations
    BY <1>0, <2>2 DEF Serial
  <2> QED
    BY <1>0, <2>1, <2>2, <2>3, SerialStep DEF Stages
<1>7. CASE CheckCommissions(r)
  <2>1. /\ request[r].stage = "check" /\ UNCHANGED <<booking, contract, commissions>>
        /\ booking.status = request[r].copy.status
        /\ "userGone" \notin Operations => Agree(booking, contract)
    BY <1>0, <1>7 DEF CheckCommissions, Serial
  <2>2. PICK stage \in {"create", "idle"} :
           Go(r, stage) /\ (stage = "create" => ~(commissions > 0))
    BY <1>7 DEF CheckCommissions
  <2> QED
    BY <1>0, <2>1, <2>2, SerialStep DEF Stages
<1>8. CASE CreateCommissions(r)
  <2>1. /\ request[r].stage = "create" /\ UNCHANGED <<booking, contract>> /\ Go(r, "idle")
        /\ "userGone" \notin Operations => Agree(booking, contract)
        /\ "confirm" \notin Operations => commissions' = 1
    BY <1>0, <1>8 DEF CreateCommissions, Serial
  <2> QED
    BY <1>0, <2>1, SerialStep DEF Stages
<1>9. CASE ClearTotalPaid(r)
  <2>1. /\ request[r].stage = "clear" /\ UNCHANGED <<contract, commissions>> /\ Go(r, "idle")
        /\ booking'.status = booking.status /\ booking.status = request[r].copy.status
        /\ request[r].copy.status = Cancelled
    BY <1>0, <1>9 DEF ClearTotalPaid, Serial, Booking, IInv, TypeOK
  <2>2. Paid(booking') /\ ("userGone" \notin Operations => Agree(booking', contract'))
    BY <1>0, <2>1 DEF Serial, Paid, Agree, Approved, Cancelled
  <2> QED
    BY <1>0, <2>1, <2>2, SerialStep DEF Stages
<1> QED
  BY <1>1, <1>2, <1>3, <1>4, <1>5, <1>6, <1>7, <1>8, <1>9 DEF Handle

LEMMA SerialInvariance ==
    ASSUME OneRequest
    PROVE  Spec => [](IInv /\ SInv)
<1>1. Init => SInv
  <2> SUFFICES ASSUME Init PROVE SInv
    OBVIOUS
  <2>1. Paid(booking) /\ Agree(booking, contract) /\ commissions = 0
    BY DEF Init, Paid, Agree, Approved, Pending, Rejected
  <2>2. \A r \in Requests : Serial(request[r], booking, contract, commissions)
    BY <2>1, SerialIdle DEF Init
  <2> QED
    BY <2>1, <2>2 DEF SInv
<1>2. SInv /\ (WindowPasses \/ UNCHANGED vars) => SInv'
  BY DEF SInv, Serial, Paid, Agree, WindowPasses, vars
<1>3. IInv /\ SInv /\ [Next]_vars => SInv'
  BY <1>2, AskSerial, HandleSerial DEF Next
<1> QED
  BY <1>1, <1>3, IInvariance, PTL DEF Spec

\* Handlers that run one after the other never leave an approved booking unpaid, in
\* whatever order staff, the customer and Stripe call them and whichever of them stop.
THEOREM ApprovedHasPaid ==
    ASSUME OneRequest
    PROVE  Spec => []ApprovedIsPaid
<1>1. SInv => ApprovedIsPaid
  BY DEF SInv, Paid, ApprovedIsPaid
<1> QED
  BY <1>1, SerialInvariance, PTL

\* ... and pay the commissions of a booking once, unless it is a reserve that staff
\* confirms: only validations look whether there are commissions.
THEOREM CommissionsOnce ==
    ASSUME OneRequest, "confirm" \notin Operations
    PROVE  Spec => []OneCommission
<1>1. SInv => OneCommission
  BY DEF SInv, OneCommission
<1> QED
  BY <1>1, SerialInvariance, PTL

\* ... and leave the contract with the status of a pending or a rejected booking, as long
\* as every booking has its user.
THEOREM ContractAgrees ==
    ASSUME OneRequest, "userGone" \notin Operations
    PROVE  Spec => []ContractFollowsBooking
<1>1. SInv => ContractFollowsBooking
  BY DEF SInv, Serial, Agree, OneRequest, Settled, ContractFollowsBooking
<1> QED
  BY <1>1, SerialInvariance, PTL
=============================================================================
