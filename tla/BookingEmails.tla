---------------------------- MODULE BookingEmails ----------------------------
(***************************************************************************)
(* The mails about one booking.  BookingService emits an event and goes on *)
(* without waiting; a handler in the same process reads the contract,      *)
(* drops what looks like a repetition, reads the user and the catalogue,   *)
(* renders a template and hands it to the mail service with retries, first *)
(* for the customer, then for the business.  Handlers of several events    *)
(* interleave, the mail service may take a mail and not answer, and the    *)
(* process may be replaced, which loses handlers and what they remember.   *)
(***************************************************************************)
EXTENDS Integers, Sequences, FiniteSets

CONSTANTS
    Methods,        \* the methods of payment that are tried, see RequiresConfirmation
    Langs,          \* what callers pass as language
    Window,         \* DEDUP_WINDOW_MS, in the time of one attempt
    MaxRetries,     \* the attempts for a mail
    Deposit, Total, \* what is paid to reserve, and the price
    MaxTime,        \* bound: the time that passes
    MaxEvents,      \* bound: the events that are emitted
    MaxRestarts     \* bound: how often the process is replaced

VARIABLES
    now,
    booking,        \* what the database says: [status, method, source, reserve, paid, full]
    price,          \* the price of the booked item in the catalogue
    jobs,           \* the handlers, in the order of their events
    sentEmails,     \* by language: when a mail was last registered, or Never
    inbox,          \* the mails that reached the customer
    restarts        \* (bounded by MaxRestarts)

vars == <<now, booking, price, jobs, sentEmails, inbox, restarts>>

Never == -1

Statuses == {"PENDIENTE", "APROBADO", "RECHAZADO", "CANCELADO"}

Events == {"created", "confirmed", "cancelled", "rejected"}

Ended == {"done", "failed", "skipped", "lost"}

Steps == {"contract", "user", "customer", "admin"} \cup Ended

NoBooking == [status |-> "none", method |-> "none", source |-> "none", reserve |-> FALSE,
              paid |-> 0, full |-> TRUE]

Init ==
    /\ now = 0
    /\ booking = NoBooking
    /\ price = Total
    /\ jobs = <<>>
    /\ sentEmails = [l \in Langs |-> Never]
    /\ inbox = {}
    /\ restarts = 0

-----------------------------------------------------------------------------
(***************************************************************************)
(* The service: which event tells of what.                                 *)
(***************************************************************************)

\* The handler of an event.  object: the booking that the event carries, which the service
\* may still change if it kept a reference, and will if resets; was: the booking when the
\* event was emitted; creation: the route by which its booking was made, if it tells of that;
\* read: when the contract was read; epoch: the process it runs in.
Job(event, object, lang) ==
    [event |-> event, object |-> object, was |-> booking', lang |-> lang, creation |-> "no",
     read |-> Never, step |-> "contract", attempt |-> 1, mail |-> <<>>, resets |-> FALSE,
     epoch |-> restarts]

Emit(job) ==
    /\ Len(jobs) < MaxEvents
    /\ jobs' = Append(jobs, job)

\* A payment with these is confirmed later, by validateBooking.
RequiresConfirmation(method) == method \in {"Credito/Debito", "Efectivo"}

\* BookingService.create.  full: whether the cart holds the items themselves or their
\* identifiers.
Request(method, reserve, paid, full, lang) ==
    LET made == [status |-> IF RequiresConfirmation(method) THEN "RECHAZADO" ELSE "PENDIENTE",
                 method |-> method, source |-> "Web", reserve |-> reserve,
                 paid   |-> paid, full |-> full]
    IN  /\ booking.status = "none"
        /\ booking' = made
        /\ IF RequiresConfirmation(method) THEN UNCHANGED jobs
           ELSE Emit([Job("created", made, lang) EXCEPT !.creation = "request"])
        /\ UNCHANGED <<now, price, sentEmails, inbox, restarts>>

\* addManualBookingInUserFromCart
Purchase(method, source, reserve, paid, full, lang) ==
    LET made == [status  |-> IF reserve \/ source = "Dashboard" THEN "APROBADO" ELSE "PENDIENTE",
                 method  |-> method, source |-> source, reserve |-> reserve,
                 paid    |-> paid, full |-> full]
        shown == IF source = "Web" /\ method = "Transferencia" THEN [made EXCEPT !.reserve = TRUE]
                 ELSE made
    IN  /\ booking.status = "none"
        /\ booking' = made
        /\ IF source = "Dashboard" \/ ~RequiresConfirmation(method)
           THEN Emit([Job("created", shown, lang) EXCEPT !.creation = "purchase"])
           ELSE UNCHANGED jobs
        /\ UNCHANGED <<now, price, sentEmails, inbox, restarts>>

\* The status that validateBooking gives.
Outcome(paid, isValidated) ==
    CASE booking.method = "Credito/Debito" ->
           IF paid > 0 THEN "APROBADO" ELSE IF isValidated THEN "RECHAZADO" ELSE "PENDIENTE"
      [] booking.method = "Efectivo" -> IF paid > 0 THEN "APROBADO" ELSE "RECHAZADO"
      [] OTHER -> IF paid > 0 /\ booking.source = "Dashboard" THEN "APROBADO" ELSE "PENDIENTE"

MutantForConfirmation(object) == object

\* What the mail about an approved payment is made from: a copy with isReserve = false.
ForConfirmation(object) == [object EXCEPT !.reserve = FALSE]

Validate(paid, isValidated, lang) ==
    LET status  == Outcome(paid, isValidated)
        credit  == booking.method = "Credito/Debito" /\ paid = 0
        changed == [booking EXCEPT !.status = status, !.paid = paid,
                                   !.reserve = IF credit THEN FALSE
                                               ELSE IF paid = 0 THEN TRUE
                                               ELSE IF paid >= Total THEN FALSE ELSE @]
    IN  /\ booking.status # "none"
        /\ booking' = changed
        /\ CASE status = "APROBADO" /\ booking.reserve /\ ~changed.reserve ->
                  Emit(Job("confirmed", changed, lang))
             [] status = "APROBADO" /\ ~(booking.reserve /\ ~changed.reserve) ->
                  Emit(Job("created", ForConfirmation(changed), lang))
             [] status = "PENDIENTE" ->
                  Emit(Job("created", [changed EXCEPT !.reserve = TRUE], lang))
             [] status = "RECHAZADO" /\ booking.status # "APROBADO" ->
                  Emit(Job("rejected", changed, lang))
             [] OTHER -> UNCHANGED jobs
        /\ UNCHANGED <<now, price, sentEmails, inbox, restarts>>

\* confirmReservation
Confirm(lang) ==
    LET changed == [booking EXCEPT !.status = "APROBADO", !.reserve = FALSE, !.paid = Total]
    IN  /\ booking.reserve
        /\ booking' = changed
        /\ Emit(Job("confirmed", changed, lang))
        /\ UNCHANGED <<now, price, sentEmails, inbox, restarts>>

\* cancelBooking up to its second write: the event carries the object that the service
\* keeps and sets to "nothing paid" afterwards.
Cancel(lang) ==
    LET changed == [booking EXCEPT !.status = "CANCELADO"]
    IN  /\ booking.status \notin {"none", "CANCELADO"}
        /\ booking' = changed
        /\ Emit([Job("cancelled", changed, lang) EXCEPT !.resets = TRUE])
        /\ UNCHANGED <<now, price, sentEmails, inbox, restarts>>

\* And the rest of it, which runs whatever its handler is doing.
ResetPaid(j) ==
    /\ jobs[j].resets
    /\ booking' = [booking EXCEPT !.paid = 0]
    /\ jobs' = [jobs EXCEPT ![j].object.paid = 0, ![j].resets = FALSE]
    /\ UNCHANGED <<now, price, sentEmails, inbox, restarts>>

-----------------------------------------------------------------------------
(***************************************************************************)
(* The handlers.                                                           *)
(***************************************************************************)

MutantRepeated(lang) ==
    sentEmails[lang] # Never /\ now - sentEmails[lang] > Window

\* sendBookingCreated: was a mail with this key registered lately?
Repeated(lang) ==
    sentEmails[lang] # Never /\ now - sentEmails[lang] < Window

\* The contract has been read; the mails of "created" are registered before they are sent.
ReadContract(j) ==
    /\ jobs[j].step = "contract"
    /\ IF jobs[j].event = "created" /\ Repeated(jobs[j].lang)
       THEN /\ jobs' = [jobs EXCEPT ![j].step = "skipped", ![j].read = now]
            /\ UNCHANGED sentEmails
       ELSE /\ jobs' = [jobs EXCEPT ![j].step = "user", ![j].read = now]
            /\ sentEmails' = IF jobs[j].event = "created"
                             THEN [sentEmails EXCEPT ![jobs[j].lang] = now] ELSE sentEmails
    /\ UNCHANGED <<now, booking, price, inbox, restarts>>

\* A booking that is paid in cash and approved is confirmed, though it is a reservation.
EffectiveReserve(job) ==
    /\ job.object.reserve
    /\ ~(job.event = "created" /\ job.object.method = "Efectivo" /\ job.object.status = "APROBADO")

MutantTemplate(job) ==
    CASE job.event \in {"cancelled", "rejected"} -> "rejection"
      [] OTHER -> IF EffectiveReserve(job) THEN "reserve" ELSE "confirmation"

Template(job) ==
    CASE job.event = "cancelled" -> "cancellation"
      [] job.event = "rejected"  -> "rejection"
      [] OTHER -> IF EffectiveReserve(job) THEN "reserve" ELSE "confirmation"

MutantRowPrice(object) == price

\* enrichBookingCart: an item of which the cart has the identifier only is shown as the
\* catalogue has it now.
RowPrice(object) == IF object.full THEN Total ELSE price

Mail(job) ==
    [template |-> Template(job), paid |-> job.object.paid,
     balance |-> Total - job.object.paid, row |-> RowPrice(job.object)]

Render(j) ==
    /\ jobs[j].step = "user"
    /\ jobs' = [jobs EXCEPT ![j].step = "customer", ![j].mail = <<Mail(jobs[j])>>]
    /\ UNCHANGED <<now, booking, price, sentEmails, inbox, restarts>>

MutantAfterFailure(job) == [job EXCEPT !.attempt = IF @ < MaxRetries THEN @ + 1 ELSE 1]

\* sendEmailWithBrevo: the next attempt, or none is left.
AfterFailure(job) ==
    IF job.attempt < MaxRetries THEN [job EXCEPT !.attempt = @ + 1] ELSE [job EXCEPT !.step = "failed"]

\* The business is not told of rejections.
AfterSuccess(job) == [job EXCEPT !.step = IF job.event = "rejected" THEN "done" ELSE "admin"]

Copies(j) == {m \in inbox : m.job = j}

Deliver(j) ==
    inbox' = inbox \cup {[job |-> j, mail |-> jobs[j].mail[1], copy |-> Cardinality(Copies(j)) + 1]}

\* The mail service takes the mail and says so, takes it and the answer is late, does not
\* take it, or refuses it for good (400, 401).
Send(j) ==
    /\ jobs[j].step = "customer"
    /\ \/ Deliver(j) /\ jobs' = [jobs EXCEPT ![j] = AfterSuccess(@)]
       \/ Deliver(j) /\ jobs' = [jobs EXCEPT ![j] = AfterFailure(@)]
       \/ jobs' = [jobs EXCEPT ![j] = AfterFailure(@)] /\ UNCHANGED inbox
       \/ jobs' = [jobs EXCEPT ![j].step = "failed"] /\ UNCHANGED inbox
    /\ UNCHANGED <<now, booking, price, sentEmails, restarts>>

\* The same for the business; whatever comes of it, nobody waits for it.
Tell(j) ==
    /\ jobs[j].step = "admin"
    /\ jobs' = [jobs EXCEPT ![j].step = "done"]
    /\ UNCHANGED <<now, booking, price, sentEmails, inbox, restarts>>

-----------------------------------------------------------------------------
(***************************************************************************)
(* The world.                                                              *)
(***************************************************************************)

\* Time passes, in which staff may change the price in the catalogue.
Tick ==
    /\ now < MaxTime
    /\ now' = now + 1
    /\ price' \in {price, Total + 1}
    /\ UNCHANGED <<booking, jobs, sentEmails, inbox, restarts>>

\* Another process takes over: what was in flight is lost.
Restart ==
    /\ restarts < MaxRestarts
    /\ restarts' = restarts + 1
    /\ jobs' = [j \in DOMAIN jobs |->
                  [jobs[j] EXCEPT !.step = IF @ \in Ended THEN @ ELSE "lost", !.resets = FALSE]]
    /\ sentEmails' = [l \in Langs |-> Never]
    /\ UNCHANGED <<now, booking, price, inbox>>

Next ==
    \/ \E lang \in Langs :
         \/ \E method \in Methods, paid \in {0, Deposit, Total}, reserve \in BOOLEAN, full \in BOOLEAN :
              /\ reserve <=> paid = Deposit
              /\ \/ Request(method, reserve, paid, full, lang)
                 \/ \E source \in {"Web", "Dashboard"} :
                       Purchase(method, source, reserve, paid, full, lang)
         \/ \E paid \in {0, Deposit, Total}, isValidated \in BOOLEAN :
              Validate(paid, isValidated, lang)
         \/ Confirm(lang)
         \/ Cancel(lang)
    \/ \E j \in DOMAIN jobs : ResetPaid(j) \/ ReadContract(j) \/ Render(j) \/ Send(j) \/ Tell(j)
    \/ Tick
    \/ Restart

Spec == Init /\ [][Next]_vars

-----------------------------------------------------------------------------
(***************************************************************************)
(* Properties.                                                             *)
(***************************************************************************)

\* sentEmails: of the mails about created bookings that one process registers for one key,
\* no two are closer than the window, however their handlers interleave; and nothing is
\* skipped but for one that was registered within the window before.
Deduplicates ==
    LET registered == {j \in DOMAIN jobs :
                         jobs[j].event = "created" /\ jobs[j].read # Never /\ jobs[j].step # "skipped"}
        same(j, k) == j # k /\ jobs[j].lang = jobs[k].lang /\ jobs[j].epoch = jobs[k].epoch
    IN  /\ \A j, k \in registered :
              same(j, k) => jobs[j].read + Window <= jobs[k].read \/ jobs[k].read + Window <= jobs[j].read
        /\ \A j \in DOMAIN jobs : jobs[j].step = "skipped" =>
              \E k \in registered :
                 same(j, k) /\ jobs[k].read <= jobs[j].read /\ jobs[j].read < jobs[k].read + Window

\* Retries: nobody gets a mail more often than it is tried, all copies say the same, and the
\* business hears of nothing that the mail service did not take for the customer.
CopiesAreBounded ==
    \A j \in DOMAIN jobs :
        /\ Cardinality(Copies(j)) <= MaxRetries
        /\ \A m, n \in Copies(j) : m.mail = n.mail
        /\ jobs[j].step \in {"admin", "done"} => Copies(j) # {}

\* A mail that comes late, after retries, still shows the booking as it was when its event
\* was emitted: an approval that was validated is confirmed even if a balance is due, a
\* payment that is pending is never called confirmed, and the amounts are those of then.
\* (BookingService.create calls every transfer confirmed that is no reservation.)
\* Amounts of cancellations are left to CancellationTellsPaid.
MailsAreTrue ==
    \A m \in inbox :
        LET job  == jobs[m.job]
            mail == m.mail
        IN  /\ job.was.status = "APROBADO" /\ job.creation = "no" => mail.template = "confirmation"
            /\ job.was.status = "PENDIENTE" /\ job.creation # "request" => mail.template = "reserve"
            /\ job.was.status = "RECHAZADO" => mail.template = "rejection"
            /\ job.was.status # "CANCELADO" => mail.paid = job.was.paid
            /\ mail.balance >= 0

\* enrichBookingCart: what the customer agreed to is shown at the price of then, whatever
\* happened to the catalogue, if the cart holds the item itself.
RowsAsAgreed ==
    \A m \in inbox : jobs[m.job].object.full => m.mail.row = Total

\* When nothing is in flight, a customer whose booking is approved or cancelled was told so,
\* or a mail about it failed for good, was lost with its process, or was skipped for being
\* within the window of another, which may have said something else.  (A reservation from the
\* web that is to be paid in cash is approved without any event, until it is validated.)
CustomerIsTold ==
    LET told(templates) == \E m \in inbox : m.mail.template \in templates
        mishap == \E j \in DOMAIN jobs : jobs[j].step \in {"failed", "lost", "skipped"}
        quiet  == \A j \in DOMAIN jobs : jobs[j].step \in Ended
    IN  quiet /\ ~mishap =>
          /\ booking.status = "APROBADO" /\ jobs # <<>> =>
                told({"confirmation", "reserve"})
          /\ booking.status = "CANCELADO" => told({"cancellation"})

\* "El email se envia ANTES de modificar totalPaid": a cancellation tells the customer what
\* had been paid.
CancellationTellsPaid ==
    \A m \in inbox : m.mail.template = "cancellation" => m.mail.paid = jobs[m.job].was.paid

\* All of it but the amounts of cancellations: the customer is told, once, and the truth.
ToldOnceAndTruly ==
    /\ Deduplicates
    /\ CopiesAreBounded
    /\ MailsAreTrue
    /\ RowsAsAgreed
    /\ CustomerIsTold
=============================================================================
