------------------------------ MODULE Accounts ------------------------------
(***************************************************************************)
(* Users: registration, changes, deletion, and the list of their bookings. *)
(* A registration looks for the email and then saves; a change reads the   *)
(* whole user and writes the whole user; a booking is saved and then       *)
(* pushed to its user.  Other requests run between the steps.              *)
(***************************************************************************)
EXTENDS Integers, Sequences, FiniteSets

CONSTANTS
    Emails,
    MaxUsers,       \* bound: users that are saved
    MaxBookings,    \* bound: bookings
    MaxPasswords,   \* bound: passwords that are set
    MaxRequests     \* bound: requests that run at a time

VARIABLES
    users,          \* a sequence of [email, password, bookings, deleted]
    requests,       \* those that have read and not yet written
    passwords,      \* how many passwords were set; a password is its number
    bookings,       \* a sequence: the user of each booking that was saved
    asked,          \* for each user the email and the password that were last asked for
    doubled,        \* emails that were registered by two requests at a time, or changed into
    raced           \* users a request wrote after another one wrote what it had not read

vars == <<users, requests, passwords, bookings, asked, doubled, raced>>

None == "none"

NoPassword == 0

Init ==
    /\ users = <<>>
    /\ requests = {}
    /\ passwords = 0
    /\ bookings = <<>>
    /\ asked = <<>>
    /\ doubled = {}
    /\ raced = {}

-----------------------------------------------------------------------------
\* The schema's hooks hide those that are deleted.
Live == {u \in DOMAIN users : ~users[u].deleted}

\* findByEmail
WithEmail(email) == {u \in Live : users[u].email = email}

Running(request) ==
    /\ Cardinality(requests) < MaxRequests
    /\ requests' = requests \cup {request}

MutantCheckEmail(email) ==
    /\ Running([op |-> "register", user |-> 0, read |-> {}, email |-> email,
                password |-> NoPassword, behind |-> FALSE])
    /\ UNCHANGED <<users, passwords, bookings, asked, doubled, raced>>

\* create, createWithEmail and autoCreate, until the email has been looked for
CheckEmail(email) ==
    /\ WithEmail(email) = {}
    /\ Running([op |-> "register", user |-> 0, read |-> {}, email |-> email,
                password |-> NoPassword, behind |-> FALSE])
    /\ UNCHANGED <<users, passwords, bookings, asked, doubled, raced>>

\* ... and from the address, the cart and the user being saved on
Register(r) ==
    /\ r.op = "register"
    /\ Len(users) < MaxUsers /\ passwords < MaxPasswords
    /\ passwords' = passwords + 1
    /\ users' = Append(users, [email |-> r.email, password |-> passwords',
                               bookings |-> {}, deleted |-> FALSE])
    /\ asked' = Append(asked, [email |-> r.email, password |-> passwords'])
    /\ doubled' = IF r.behind THEN doubled \cup {r.email} ELSE doubled
    /\ requests' = {[q EXCEPT !.behind = @ \/ (q.op = "register" /\ q.email = r.email)] :
                        q \in requests \ {r}}
    /\ UNCHANGED <<bookings, raced>>

\* It fails on the way: an address and a cart are left over, and no user.
RegisterFails(r) ==
    /\ r.op = "register"
    /\ requests' = requests \ {r}
    /\ UNCHANGED <<users, passwords, bookings, asked, doubled, raced>>

\* UserRepository.update until the user has been read; the email is not looked for.
ReadUser(u, email, password) ==
    /\ u \in Live
    /\ password # NoPassword => passwords < MaxPasswords
    /\ passwords' = IF password # NoPassword THEN password ELSE passwords
    /\ Running([op |-> "update", user |-> u, read |-> users[u], email |-> email,
                password |-> password, behind |-> FALSE])
    /\ UNCHANGED <<users, bookings, asked, doubled, raced>>

MutantMerged(r) ==
    [r.read EXCEPT !.email = IF r.email = None THEN @ ELSE r.email,
                   !.password = IF r.password = NoPassword THEN -@ ELSE r.password]

MutantWithoutBookings(r) ==
    [r.read EXCEPT !.email = IF r.email = None THEN @ ELSE r.email,
                   !.password = IF r.password = NoPassword THEN @ ELSE r.password,
                   !.bookings = {}]

\* What was read, with what the request contains.  (A password is hashed if it is given.)
Merged(r) ==
    [r.read EXCEPT !.email = IF r.email = None THEN @ ELSE r.email,
                   !.password = IF r.password = NoPassword THEN @ ELSE r.password]

Overtaken(u, rest) == {IF r.user = u THEN [r EXCEPT !.behind = TRUE] ELSE r : r \in rest}

\* ... and from then on: all of it is written, the list of bookings included, unless the user
\* was deleted meanwhile.
WriteUser(r) ==
    /\ r.op = "update"
    /\ IF r.user \in Live
       THEN /\ users' = [users EXCEPT ![r.user] = Merged(r)]
            /\ asked' = [asked EXCEPT ![r.user] =
                   [email |-> IF r.email = None THEN @.email ELSE r.email,
                    password |-> IF r.password = NoPassword THEN @.password ELSE r.password]]
            /\ raced' = IF r.behind THEN raced \cup {r.user} ELSE raced
            /\ doubled' = IF r.email \notin {None, users[r.user].email} \/ r.behind
                          THEN doubled \cup {users'[r.user].email} ELSE doubled
            /\ requests' = Overtaken(r.user, requests \ {r})
       ELSE requests' = requests \ {r} /\ UNCHANGED <<users, asked, raced, doubled>>
    /\ UNCHANGED <<passwords, bookings>>

\* softDelete
Delete(u) ==
    /\ u \in Live
    /\ users' = [users EXCEPT ![u].deleted = TRUE]
    /\ UNCHANGED <<requests, passwords, bookings, asked, doubled, raced>>

\* BookingRepository.create: the booking is saved first, and refused if then there is no user.
SaveBooking(u) ==
    /\ Len(bookings) < MaxBookings /\ u \in DOMAIN users
    /\ bookings' = Append(bookings, u)
    /\ IF u \in Live
       THEN /\ users' = [users EXCEPT ![u].bookings = @ \cup {Len(bookings')}]
            /\ requests' = Overtaken(u, requests)
       ELSE UNCHANGED <<users, requests>>
    /\ UNCHANGED <<passwords, asked, doubled, raced>>

-----------------------------------------------------------------------------
\* BookingRepository.findUserByBookingId finds one of these or answers that there is none.
UsersOf(booking) == {u \in Live : booking \in users[u].bookings}

\* BookingRepository.findByUserId
BookingsOf(u) == IF u \in Live THEN users[u].bookings ELSE {}

Next ==
    \/ \E email \in Emails : CheckEmail(email)
    \/ \E r \in requests : Register(r) \/ RegisterFails(r) \/ WriteUser(r)
    \/ \E u \in DOMAIN users, email \in Emails \cup {None}, password \in {NoPassword, passwords + 1} :
          ReadUser(u, email, password)
    \/ \E u \in DOMAIN users : Delete(u) \/ SaveBooking(u)

Spec == Init /\ [][Next]_vars

-----------------------------------------------------------------------------
(***************************************************************************)
(* Properties.                                                             *)
(***************************************************************************)

\* "This email is already in use": two users have one email only if they were registered at
\* the same time or an update, which does not look, gave it to one; whatever was deleted and
\* registered again before.
EmailsUnique ==
    \A u, v \in Live : u # v /\ users[u].email \notin doubled => users[u].email # users[v].email

\* The customer of a booking can be found and sees it in his list, as long as he has an
\* account, through all changes of his data; unless a change had read him before the booking
\* was made and wrote him back afterwards.
BookingsKeepTheirCustomer ==
    \A b \in DOMAIN bookings :
        /\ bookings[b] \in Live \ raced => UsersOf(b) = {bookings[b]} /\ b \in BookingsOf(bookings[b])
        /\ \A u \in UsersOf(b) : u = bookings[b]

\* A user's email and password are those that were last asked for: what a request does not
\* contain it does not change, unless it had read the user before another one wrote him.
LastRequestWins ==
    \A u \in Live \ raced :
        users[u].email = asked[u].email /\ users[u].password = asked[u].password

\* All three: what a user is found by is kept through registrations, updates and bookings.
AccountsKept ==
    /\ EmailsUnique
    /\ BookingsKeepTheirCustomer
    /\ LastRequestWins
=============================================================================
