--------------------------- MODULE BookingLifecycle ---------------------------
(***************************************************************************)
(* The life of one booking after it was created on the web: validation by  *)
(* the customer's return from Stripe or by staff, confirmation of a        *)
(* deposit, cancellation, and the webhook of Stripe.  Every handler reads  *)
(* the booking document, decides on the copy, writes the copy back whole,  *)
(* and goes on to the contract, the mails and the commissions, one await   *)
(* after the other.  No two handlers exclude each other.                   *)
(***************************************************************************)
EXTENDS Integers, FiniteSets

CONSTANTS
    Requests,     \* the handlers that may run at the same time
    Methods,      \* the payment methods of the instance
    Total,        \* what the booking costs
    Deposit,      \* a part of it that is paid first
    Operations,   \* what clients call, and the faults
    MaxCalls      \* bound: how many handlers run in all

Pending == "PENDIENTE"
Approved == "APROBADO"
Rejected == "RECHAZADO"
Cancelled == "CANCELADO"

Statuses == {Pending, Approved, Rejected, Cancelled}

AllMethods == {"Credito/Debito", "Efectivo", "Transferencia", "Otro"}

AllOperations == {"validate", "confirm", "cancel", "webhook", "userGone"}

ASSUME ConstantsAssumption ==
    /\ Total \in Nat /\ Deposit \in Nat /\ 0 < Deposit /\ Deposit < Total
    /\ Methods \subseteq AllMethods
    /\ Operations \subseteq AllOperations
    /\ MaxCalls \in Nat

VARIABLES
    booking,       \* the fields of the booking document that the handlers change
    terms,         \* what does not change: payment method, concierge, contract source
    contract,      \* the status of the contract of the booking, if it has one
    commissions,   \* how often commissions were created for the booking
    mails,         \* the kinds of mail the customer has been sent
    recent,        \* a created mail was sent within DEDUP_WINDOW_MS
    request,       \* where each handler is, and the copy it works on
    calls          \* how many handlers have started (bounded by MaxCalls)

vars == <<booking, terms, contract, commissions, mails, recent, request, calls>>

NoContract == "none"

\* The amounts that payments are made of.
Amounts == {Deposit, Total - Deposit, Total}

\* How often the payments of the booking hold each amount.
Payments == [Amounts -> Nat]

NoPayments == [a \in Amounts |-> 0]

Booking ==
    [status : Statuses, isReserve : BOOLEAN, isValidated : BOOLEAN,
     totalPaid : {0} \cup Amounts, payments : Payments]

Terms ==
    [method : AllMethods, concierge : BOOLEAN, source : {"Web", "Dashboard"}]

Mails == {"pending", "approved", "confirmed", "rejected", "cancelled"}

Stages ==
    {"idle", "write", "contract", "reset", "mail", "check", "create", "clear"}

\* The payload of PUT validate/:id: an amount, or an initial and a final payment,
\* or neither; without an amount it is the total.
Call ==
    {c \in [paid : BOOLEAN, isValidated : BOOLEAN, amount : {Deposit, Total},
            payments : {"one", "initialAndFinal", "none"}] :
        c.payments = "none" => c.amount = Total}

-----------------------------------------------------------------------------
\* The status that validateBooking gives.
Decision(t, call) ==
    CASE t.method = "Credito/Debito" ->
           IF call.paid THEN Approved
           ELSE IF call.isValidated THEN Rejected ELSE Pending
      [] t.method = "Efectivo" -> IF call.paid THEN Approved ELSE Rejected
      [] t.method = "Transferencia" /\ t.source = "Web" -> Pending
      [] OTHER -> IF call.paid THEN Approved ELSE Pending

\* Mutant of PayBooking: a full payment leaves a reserve.
MutantPayBookingKeepsReserve(b, call) ==
    IF call.paid
      THEN [b EXCEPT !.totalPaid = call.amount,
                     !.isReserve = IF call.amount > Total THEN FALSE ELSE @]
      ELSE [b EXCEPT !.totalPaid = 0, !.isReserve = TRUE]

\* BookingModel.payBooking.
PayBooking(b, call) ==
    IF call.paid
      THEN [b EXCEPT !.totalPaid = call.amount,
                     !.isReserve = IF call.amount >= Total THEN FALSE ELSE @]
      ELSE [b EXCEPT !.totalPaid = 0, !.isReserve = TRUE]

InitialAndFinal ==
    [a \in Amounts |-> (IF a = Deposit THEN 1 ELSE 0) +
                       (IF a = Total - Deposit THEN 1 ELSE 0)]

\* Mutant of Registered: no check for a payment of the same amount.
MutantRegisteredTwice(b, call) ==
    CASE call.payments = "initialAndFinal" ->
           [b EXCEPT !.payments = InitialAndFinal]
      [] call.payments = "one" /\ call.paid ->
           [b EXCEPT !.payments[call.amount] = @ + 1]
      [] OTHER -> b

\* The payments after a validation: those of the payload, or one more, unless
\* there is one of that amount already.
Registered(b, call) ==
    CASE call.payments = "initialAndFinal" ->
           [b EXCEPT !.payments = InitialAndFinal]
      [] call.payments = "one" /\ call.paid /\ b.payments[call.amount] = 0 ->
           [b EXCEPT !.payments[call.amount] = 1]
      [] OTHER -> b

\* What validateBooking makes of the copy it has read.
Validated(b, call) ==
    LET paid == PayBooking(b, call)
        card == IF terms.method = "Credito/Debito" /\ ~call.paid
                  THEN [paid EXCEPT !.isReserve = FALSE, !.totalPaid = 0]
                  ELSE paid
    IN  [Registered(card, call) EXCEPT !.status = Decision(terms, call),
                                       !.isValidated = call.isValidated]

-----------------------------------------------------------------------------
NoRequest ==
    LET b == [status |-> Pending, isReserve |-> FALSE, isValidated |-> FALSE,
              totalPaid |-> 0, payments |-> NoPayments]
    IN  [stage |-> "idle", op |-> "none", read |-> b, copy |-> b]

\* Mails of the event send-booking.created are sent at most once in the window,
\* whatever they say; the key is the booking and the language.
CreatedMail(kind) ==
    /\ mails' = IF recent THEN mails ELSE mails \cup {kind}
    /\ recent' = TRUE

\* BookingService.create: cards and cash start as rejected, and a payment that came
\* with the booking is registered.  Only the other methods are announced at once.
Init ==
    /\ terms \in {t \in Terms : t.method \in Methods}
    /\ booking \in {b \in [status : {Pending, Rejected}, isReserve : BOOLEAN,
                           isValidated : {FALSE}, totalPaid : {0, Deposit, Total},
                           payments : [Amounts -> {0, 1}]] :
          /\ b.status = IF terms.method \in {"Credito/Debito", "Efectivo"}
                          THEN Rejected ELSE Pending
          /\ b.totalPaid \in IF b.isReserve THEN {0, Deposit} ELSE {0, Total}
          /\ b.payments = [a \in Amounts |-> IF a = b.totalPaid THEN 1 ELSE 0]}
    /\ contract \in {NoContract, booking.status}
    /\ contract = NoContract => terms.source = "Web"
    /\ commissions = 0
    /\ mails = IF terms.method \in {"Credito/Debito", "Efectivo"} THEN {}
               ELSE IF booking.isReserve THEN {"pending"} ELSE {"approved"}
    /\ recent = (mails # {})
    /\ request = [r \in Requests |-> NoRequest]
    /\ calls = 0

Begin(r, op, stage, copy) ==
    /\ op \in Operations
    /\ request[r].stage = "idle"
    /\ calls < MaxCalls
    /\ calls' = calls + 1
    /\ request' = [request EXCEPT ![r] =
          [stage |-> stage, op |-> op, read |-> booking, copy |-> copy]]
    /\ UNCHANGED <<booking, terms, contract, commissions, mails, recent>>

Go(r, stage) ==
    request' = [request EXCEPT ![r] =
        IF stage = "idle" THEN NoRequest ELSE [@ EXCEPT !.stage = stage]]

\* Mutant of StartValidate: the decision is made on what was paid before.
MutantStartValidateNoPay(r, call) ==
    Begin(r, "validate", "write",
          [Registered(booking, call) EXCEPT !.status = Decision(terms, call),
                                            !.isValidated = call.isValidated])

\* validateBooking reads the booking and computes the new one.
StartValidate(r, call) == Begin(r, "validate", "write", Validated(booking, call))

\* confirmReservation: only for a reserve; its status is not looked at.
StartConfirm(r) ==
    /\ booking.isReserve
    /\ Begin(r, "confirm", "write",
             [booking EXCEPT !.status = Approved, !.isReserve = FALSE,
                             !.totalPaid = Total])

\* cancelBooking: not twice.  (The vehicles are the subject of VehicleReservations.)
StartCancel(r) ==
    /\ booking.status # Cancelled
    /\ Begin(r, "cancel", "write", [booking EXCEPT !.status = Cancelled])

\* handleWebhook on checkout.session.completed: not for a validated booking.
StartWebhook(r) ==
    /\ ~booking.isValidated
    /\ Begin(r, "webhook", "write", booking)

\* The copy replaces the document; the webhook sets four fields only.
WriteBooking(r) ==
    /\ request[r].stage = "write" /\ request[r].op # "webhook"
    /\ booking' = request[r].copy
    /\ Go(r, IF request[r].op = "validate" THEN "contract" ELSE "mail")
    /\ UNCHANGED <<terms, contract, commissions, mails, recent, calls>>

WriteWebhook(r, amount) ==
    /\ request[r].stage = "write" /\ request[r].op = "webhook"
    /\ booking' = [booking EXCEPT !.status = Approved, !.isValidated = TRUE,
                                  !.totalPaid = amount, !.isReserve = FALSE]
    /\ Go(r, "idle")
    /\ UNCHANGED <<terms, contract, commissions, mails, recent, calls>>

\* The stages at which a handler looks up the user of the booking, who may be gone.
\* validateBooking does it after the write, if isManual, and before the commissions,
\* the webhook before the write, the other two between the write and the mail.
UserStages(op) ==
    CASE op = "validate" -> {"contract", "check"}
      [] op = "webhook" -> {"write"}
      [] OTHER -> {"mail"}

\* findUserByBookingId throws, and what was left to do is not done.
FindUserFails(r) ==
    /\ "userGone" \in Operations
    /\ request[r].stage \in UserStages(request[r].op)
    /\ Go(r, "idle")
    /\ UNCHANGED <<booking, terms, contract, commissions, mails, recent, calls>>

\* Mutant of WriteContract: the contract is given the status that was read.
MutantWriteContractOld(r) ==
    /\ request[r].stage = "contract"
    /\ contract' = IF contract = NoContract THEN NoContract ELSE request[r].read.status
    /\ Go(r, IF request[r].copy.status # Rejected THEN "mail"
             ELSE IF request[r].read.status = Approved THEN "idle" ELSE "reset")
    /\ UNCHANGED <<booking, terms, commissions, mails, recent, calls>>

\* Mutant of WriteContract: the branch of a rejection is taken for every status.
MutantWriteContractResets(r) ==
    /\ request[r].stage = "contract"
    /\ contract' = IF contract = NoContract THEN NoContract ELSE request[r].copy.status
    /\ Go(r, IF request[r].read.status = Approved THEN "idle" ELSE "reset")
    /\ UNCHANGED <<booking, terms, commissions, mails, recent, calls>>

\* validateBooking gives the contract the status, if there is a contract.  The mail of
\* a rejection is blocked when the booking was approved when it was read.
WriteContract(r) ==
    /\ request[r].stage = "contract"
    /\ contract' = IF contract = NoContract THEN NoContract ELSE request[r].copy.status
    /\ Go(r, IF request[r].copy.status # Rejected THEN "mail"
             ELSE IF request[r].read.status = Approved THEN "idle" ELSE "reset")
    /\ UNCHANGED <<booking, terms, commissions, mails, recent, calls>>

\* A rejection sets totalPaid to 0 once more, whoever has written it since.
ResetTotalPaid(r) ==
    /\ request[r].stage = "reset"
    /\ booking' = [booking EXCEPT !.totalPaid = 0]
    /\ Go(r, "mail")
    /\ UNCHANGED <<terms, contract, commissions, mails, recent, calls>>

\* The mail for the status the handler has written.
SendMail(r) ==
    LET done == request[r].copy
        isNowFullyPaid == request[r].read.isReserve /\ ~done.isReserve
    IN
    /\ request[r].stage = "mail"
    /\ \/ /\ done.status = Approved
          /\ IF request[r].op = "confirm" \/ isNowFullyPaid
               THEN mails' = mails \cup {"confirmed"} /\ UNCHANGED recent
               ELSE CreatedMail("approved")
          /\ Go(r, IF request[r].op = "confirm" /\ terms.concierge
                     THEN "create" ELSE "check")
       \/ /\ done.status = Pending
          /\ CreatedMail("pending")
          /\ Go(r, "idle")
       \/ /\ done.status = Rejected
          /\ mails' = mails \cup {"rejected"}
          /\ Go(r, "idle")
          /\ UNCHANGED recent
       \/ /\ done.status = Cancelled
          /\ mails' = mails \cup {"cancelled"}
          /\ Go(r, "clear")
          /\ UNCHANGED recent
    /\ UNCHANGED <<booking, terms, contract, commissions, calls>>

\* Mutant of CheckCommissions: nobody looks for commissions of the booking.
MutantCheckNothing(r) ==
    /\ request[r].stage = "check"
    /\ Go(r, "create")
    /\ UNCHANGED <<booking, terms, contract, commissions, mails, recent, calls>>

\* Commissions are created only when there are none yet; confirmReservation does not
\* look when the booking has a concierge.
CheckCommissions(r) ==
    /\ request[r].stage = "check"
    /\ Go(r, IF commissions > 0 THEN "idle" ELSE "create")
    /\ UNCHANGED <<booking, terms, contract, commissions, mails, recent, calls>>

CreateCommissions(r) ==
    /\ request[r].stage = "create"
    /\ commissions' = commissions + 1
    /\ Go(r, "idle")
    /\ UNCHANGED <<booking, terms, contract, mails, recent, calls>>

\* Mutant of ClearTotalPaid: the reset of a cancelled booking is forgotten.
MutantClearNothing(r) ==
    /\ request[r].stage = "clear"
    /\ Go(r, "idle")
    /\ UNCHANGED <<booking, terms, contract, commissions, mails, recent, calls>>

\* cancelBooking ends by setting totalPaid to 0.
ClearTotalPaid(r) ==
    /\ request[r].stage = "clear"
    /\ booking' = [booking EXCEPT !.totalPaid = 0]
    /\ Go(r, "idle")
    /\ UNCHANGED <<terms, contract, commissions, mails, recent, calls>>

\* DEDUP_WINDOW_MS passes, or the next mail is sent by another server instance.
WindowPasses ==
    /\ recent
    /\ recent' = FALSE
    /\ UNCHANGED <<booking, terms, contract, commissions, mails, request, calls>>

Handle(r) ==
    \/ WriteBooking(r)
    \/ \E amount \in {Deposit, Total} : WriteWebhook(r, amount)
    \/ FindUserFails(r)
    \/ WriteContract(r) \/ ResetTotalPaid(r) \/ SendMail(r)
    \/ CheckCommissions(r) \/ CreateCommissions(r)
    \/ ClearTotalPaid(r)

Ask(r) ==
    \/ \E call \in Call : StartValidate(r, call)
    \/ StartConfirm(r) \/ StartCancel(r) \/ StartWebhook(r)

Next == WindowPasses \/ \E r \in Requests : Handle(r) \/ Ask(r)

Spec == Init /\ [][Next]_vars

-----------------------------------------------------------------------------
Request ==
    [stage : Stages, op : {"none", "validate", "confirm", "cancel", "webhook"},
     read : Booking, copy : Booking]

\* Types, and what the stage of a handler tells of the status it writes.
TypeOK ==
    /\ booking \in Booking
    /\ terms \in Terms
    /\ contract \in Statuses \cup {NoContract}
    /\ commissions \in Nat
    /\ mails \subseteq Mails
    /\ recent \in BOOLEAN
    /\ request \in [Requests -> Request]
    /\ calls \in 0 .. MaxCalls
    /\ \A r \in Requests :
          /\ request[r].stage = "reset" => request[r].copy.status = Rejected
          /\ request[r].stage = "clear" => request[r].copy.status = Cancelled
          /\ request[r].stage \in {"check", "create"} => request[r].copy.status = Approved

Settled == \A r \in Requests : request[r].stage = "idle"

\* A booking is a reserve only while something is owed, even where copies of it that
\* are out of date are written back over newer ones.
ReserveMeansOwing == booking.isReserve => booking.totalPaid < Total

\* No payment is registered twice: neither by a handler that runs twice nor by two
\* that run at once and do not see each other's.
NoDuplicatePayment ==
    Deposit # Total - Deposit => \A a \in Amounts : booking.payments[a] <= 1

\* A booking that ends up cancelled owes its customer nothing on paper: totalPaid is
\* 0, whatever was written between the steps of its cancellation.
CancelledIsNotPaid ==
    Settled /\ booking.status = Cancelled => booking.totalPaid = 0

\* totalPaid is reset only for a booking that is not approved.
ApprovedIsPaid ==
    Settled /\ booking.status = Approved => booking.totalPaid > 0

\* A booking has its commissions created once.
OneCommission == commissions <= 1

\* A booking that is pending or rejected has a contract which says so: only an approval
\* by the webhook and a cancellation leave the contract behind, and the next validation
\* brings the two together again.
ContractFollowsBooking ==
    Settled /\ contract # NoContract /\ booking.status \in {Pending, Rejected} =>
        contract = booking.status

\* A customer who was told of the approval is not told of a rejection later.
NoRejectionAfterApproval ==
    [][{"approved", "confirmed"} \cap mails # {} => ("rejected" \in mails' => "rejected" \in mails)]_vars

\* A customer whose booking was approved has been told so.
ApprovalAnnounced ==
    Settled /\ booking.status = Approved => {"approved", "confirmed"} \cap mails # {}
=============================================================================
