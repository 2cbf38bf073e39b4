--------------------------- MODULE Accounts_proofs ---------------------------
(***************************************************************************)
(* The properties of Accounts for any emails and any number of users,      *)
(* bookings, passwords and requests.                                       *)
(*                                                                         *)
(* None of them is inductive, for they say nothing of the requests that    *)
(* have read and not yet written.  ReadsAreCurrent: what an update holds   *)
(* is the user as he is, unless another one wrote him (`behind').          *)
(* CheckedIsFree: an email that was looked for is still free, unless       *)
(* another request registered it.                                          *)
(***************************************************************************)
EXTENDS Accounts, TLAPS

User == [email : Emails, password : Nat, bookings : SUBSET Nat, deleted : BOOLEAN]

\* What was last asked for a user.
Wish == [email : Emails, password : Nat]

Registration ==
    [op : {"register"}, user : {0}, read : {{}}, email : Emails, password : {NoPassword},
     behind : BOOLEAN]

Update ==
    [op : {"update"}, user : Nat, read : User, email : Emails \cup {None}, password : Nat,
     behind : BOOLEAN]

TypeOK ==
    /\ users \in Seq(User)
    /\ requests \in SUBSET (Registration \cup Update)
    /\ passwords \in Nat
    /\ bookings \in Seq(Nat)
    /\ asked \in Seq(Wish)
    /\ Len(asked) = Len(users)
    /\ \A b \in DOMAIN bookings : bookings[b] \in DOMAIN users

\* What an update holds is a user who was not deleted, and him as he is unless it is behind.
ReadsAreCurrent ==
    \A r \in requests : r.op = "update" =>
        /\ r.user \in DOMAIN users
        /\ ~r.read.deleted
        /\ r.user \in Live /\ ~r.behind => r.read = users[r.user]

\* An email that was looked for is free, unless it was doubled or the request is behind.
CheckedIsFree ==
    \A r \in requests : r.op = "register" /\ ~r.behind /\ r.email \notin doubled =>
        WithEmail(r.email) = {}

IsOwn(list, u) == \A b \in list : b \in DOMAIN bookings /\ bookings[b] = u

\* A list of bookings has only those of its user, and so has every copy of one.
ListsAreOwn ==
    /\ \A u \in DOMAIN users : IsOwn(users[u].bookings, u)
    /\ \A r \in requests : r.op = "update" => IsOwn(r.read.bookings, r.user)

\* It has all of them, unless a stale copy was written.
ListsAreWhole ==
    \A b \in DOMAIN bookings :
        bookings[b] \in Live \ raced => b \in users[bookings[b]].bookings

IInv ==
    /\ TypeOK
    /\ ReadsAreCurrent
    /\ CheckedIsFree
    /\ ListsAreOwn
    /\ ListsAreWhole
    /\ EmailsUnique
    /\ LastRequestWins

-----------------------------------------------------------------------------
\* What holds of requests, one at a time.
Held(r) ==
    /\ r \in Registration \cup Update
    /\ r.op = "update" => /\ r.user \in DOMAIN users
                          /\ ~r.read.deleted
                          /\ r.user \in Live /\ ~r.behind => r.read = users[r.user]
                          /\ IsOwn(r.read.bookings, r.user)
    /\ r.op = "register" /\ ~r.behind /\ r.email \notin doubled => WithEmail(r.email) = {}

\* What holds of what is saved.
Saved ==
    /\ users \in Seq(User)
    /\ passwords \in Nat
    /\ bookings \in Seq(Nat)
    /\ asked \in Seq(Wish)
    /\ Len(asked) = Len(users)
    /\ \A b \in DOMAIN bookings : bookings[b] \in DOMAIN users
    /\ \A u \in DOMAIN users : IsOwn(users[u].bookings, u)
    /\ ListsAreWhole
    /\ EmailsUnique
    /\ LastRequestWins

LEMMA InParts == IInv <=> Saved /\ \A r \in requests : Held(r)
BY DEF IInv, TypeOK, ReadsAreCurrent, CheckedIsFree, ListsAreOwn, Saved, Held

LEMMA LiveIsThere == Live \in SUBSET DOMAIN users
BY DEF Live

LEMMA InitHolds ==
    ASSUME Init
    PROVE  IInv
<1>1. requests = {} /\ users = <<>> /\ bookings = <<>> /\ asked = <<>> /\ passwords = 0
  BY DEF Init
<1>2. Live = {}
  BY <1>1 DEF Live
<1>3. ListsAreWhole /\ EmailsUnique /\ LastRequestWins
  BY <1>1, <1>2 DEF ListsAreWhole, EmailsUnique, LastRequestWins
<1>4. Saved
  BY <1>1, <1>3 DEF Saved
<1> QED
  BY <1>1, <1>4, InParts

\* Nothing is saved, and whatever is new among the requests is as it should be.
LEMMA RequestsChange ==
    ASSUME IInv, UNCHANGED <<users, bookings, asked, doubled, raced>>, passwords' \in Nat,
           \A r \in requests' : r \in requests \/ Held(r)
    PROVE  IInv'
<1>1. Saved /\ \A r \in requests : Held(r)
  BY InParts
<1>2. Saved'
  BY <1>1 DEF Saved, ListsAreWhole, EmailsUnique, LastRequestWins, IsOwn, Live
<1>3. \A r \in requests' : Held(r)'
  BY <1>1 DEF Held, IsOwn, WithEmail, Live
<1>4. (Saved /\ \A r \in requests : Held(r))' => IInv'
  BY InParts, PTL
<1> QED
  BY <1>2, <1>3, <1>4

\* The same for a step that saves something.
LEMMA InPartsNext == IInv' <=> Saved' /\ \A r \in requests' : Held(r)'
<1>1. (IInv <=> Saved /\ \A r \in requests : Held(r))'
  BY InParts, PTL
<1> QED
  BY <1>1

\* A user that is registered has no bookings; if his email is in use, it was doubled.
LEMMA RegisterKeeps ==
    ASSUME IInv, NEW r \in requests, Register(r)
    PROVE  IInv'
<1> DEFINE new == Len(users) + 1
           user == [email |-> r.email, password |-> passwords + 1, bookings |-> {}, deleted |-> FALSE]
           ask == [email |-> r.email, password |-> passwords + 1]
<1>1. Saved /\ \A q \in requests : Held(q)
  BY InParts
<1>2. /\ r.op = "register" /\ passwords' = passwords + 1
      /\ users' = Append(users, user) /\ asked' = Append(asked, ask)
      /\ doubled' = IF r.behind THEN doubled \cup {r.email} ELSE doubled
      /\ UNCHANGED <<bookings, raced>>
  BY DEF Register
<1>3. r.email \in Emails
  BY <1>1, <1>2 DEF Held, Registration, Update
<1>4. passwords + 1 \in Nat /\ user \in User /\ ask \in Wish
  BY <1>1, <1>3 DEF Saved, User, Wish
<1>5. user.email = r.email /\ user.password = passwords + 1 /\ user.bookings = {} /\ ~user.deleted
  OBVIOUS
<1>6. ask.email = r.email /\ ask.password = passwords + 1
  OBVIOUS
<1> HIDE DEF user, ask
<1>7. /\ users' \in Seq(User) /\ DOMAIN users' = DOMAIN users \cup {new} /\ new \notin DOMAIN users
      /\ users'[new] = user /\ \A u \in DOMAIN users : users'[u] = users[u]
  BY <1>1, <1>2, <1>4 DEF Saved
<1>8. /\ asked' \in Seq(Wish) /\ Len(asked') = Len(users')
      /\ asked'[new] = ask /\ \A u \in DOMAIN users : asked'[u] = asked[u]
  BY <1>1, <1>2, <1>4 DEF Saved
<1> HIDE DEF new
<1>9. Live' = Live \cup {new} /\ Live \in SUBSET DOMAIN users
  BY <1>5, <1>7 DEF Live
<1>10. \A email \in Emails : WithEmail(email)' = IF email = r.email THEN WithEmail(email) \cup {new}
                                                                  ELSE WithEmail(email)
  BY <1>5, <1>7, <1>9 DEF WithEmail
<1>11. Saved'
  <2>1. (\A u \in DOMAIN users : IsOwn(users[u].bookings, u))'
    BY <1>1, <1>2, <1>5, <1>7 DEF Saved, IsOwn
  <2>2. ListsAreWhole'
    BY <1>1, <1>2, <1>7, <1>9 DEF Saved, ListsAreWhole
  <2>3. EmailsUnique'
    <3>1. r.email \in doubled' \/ WithEmail(r.email) = {}
      BY <1>1, <1>2 DEF Held
    <3>2. \A u \in Live : users[u].email = r.email => r.email \in doubled'
      BY <3>1 DEF WithEmail
    <3>3. doubled \in SUBSET doubled'
      BY <1>2
    <3> QED
      BY <1>1, <1>5, <1>7, <1>9, <3>2, <3>3 DEF Saved, EmailsUnique
  <2>4. LastRequestWins'
    BY <1>1, <1>2, <1>5, <1>6, <1>7, <1>8, <1>9 DEF Saved, LastRequestWins
  <2>5. \A b \in DOMAIN bookings' : bookings'[b] \in DOMAIN users'
    BY <1>1, <1>2, <1>7 DEF Saved
  <2> QED
    BY <1>1, <1>2, <1>4, <1>7, <1>8, <2>1, <2>2, <2>3, <2>4, <2>5 DEF Saved
<1>12. \A q \in requests' : Held(q)'
  <2> SUFFICES ASSUME NEW q \in requests'
               PROVE  Held(q)'
    OBVIOUS
  <2>1. PICK p \in requests :
            q = [p EXCEPT !.behind = @ \/ (p.op = "register" /\ p.email = r.email)]
    BY DEF Register
  <2>2. /\ q \in Registration \cup Update
        /\ q.op = p.op /\ q.user = p.user /\ q.read = p.read /\ q.email = p.email
        /\ q.behind <=> p.behind \/ (p.op = "register" /\ p.email = r.email)
    <3>1. Held(p)
      BY <1>1
    <3> QED
      BY <2>1, <3>1 DEF Held, Registration, Update
  <2>3. CASE p.op = "update"
    <3>1. q.op # "register"
      BY <2>2, <2>3
    <3>2. p.user \in Live' => p.user \in Live
      BY <1>1, <1>7, <1>9, <2>3 DEF Held
    <3> QED
      BY <1>1, <1>2, <1>7, <2>2, <2>3, <3>1, <3>2 DEF Held, IsOwn
  <2>4. CASE p.op # "update"
    <3>1. p.email \in Emails
      BY <1>1, <2>4 DEF Held, Registration, Update
    <3> QED
      BY <1>1, <1>2, <1>10, <2>2, <2>4, <3>1 DEF Held
  <2> QED
    BY <2>3, <2>4
<1> QED
  BY <1>11, <1>12, InPartsNext

\* Who is deleted is not live any more, and everything else stays.
LEMMA DeleteKeeps ==
    ASSUME IInv, NEW u \in DOMAIN users, Delete(u)
    PROVE  IInv'
<1> DEFINE gone == [users[u] EXCEPT !.deleted = TRUE]
<1>1. Saved /\ \A q \in requests : Held(q)
  BY InParts
<1>2. users' = [users EXCEPT ![u] = gone]
      /\ UNCHANGED <<requests, passwords, bookings, asked, doubled, raced>>
  BY DEF Delete
<1>3. gone \in User /\ gone.deleted /\ gone.bookings = users[u].bookings
  <2>1. users[u] \in User
    BY <1>1 DEF Saved
  <2> QED
    BY <2>1 DEF User
<1> HIDE DEF gone
<1>4. /\ users' \in Seq(User) /\ DOMAIN users' = DOMAIN users /\ Len(users') = Len(users)
      /\ users'[u] = gone /\ \A v \in DOMAIN users \ {u} : users'[v] = users[v]
  BY <1>1, <1>2, <1>3 DEF Saved
<1>5. Live' = Live \ {u}
  BY <1>3, <1>4 DEF Live
<1>6. \A v \in Live' : v \in Live /\ users'[v] = users[v]
  BY <1>4, <1>5 DEF Live
<1>7. Saved'
  <2>1. (\A v \in DOMAIN users : IsOwn(users[v].bookings, v))'
    BY <1>1, <1>2, <1>3, <1>4 DEF Saved, IsOwn
  <2>2. ListsAreWhole' /\ EmailsUnique' /\ LastRequestWins'
    BY <1>1, <1>2, <1>6 DEF Saved, ListsAreWhole, EmailsUnique, LastRequestWins
  <2> QED
    BY <1>1, <1>2, <1>4, <2>1, <2>2 DEF Saved
<1>8. \A q \in requests' : Held(q)'
  <2>1. \A email : WithEmail(email) = {} => WithEmail(email)' = {}
    BY <1>6 DEF WithEmail
  <2> QED
    BY <1>1, <1>2, <1>4, <1>6, <2>1 DEF Held, IsOwn
<1> QED
  BY <1>7, <1>8, InPartsNext

\* Requests about a user who was written are behind, and the others are as they were.
LEMMA OvertakenIs ==
    ASSUME NEW u, NEW rest \in SUBSET (Registration \cup Update), NEW q \in Overtaken(u, rest)
    PROVE  \E p \in rest :
              /\ q \in Registration \cup Update
              /\ q.op = p.op /\ q.user = p.user /\ q.read = p.read /\ q.email = p.email
              /\ ~q.behind => ~p.behind /\ q.user # u
<1>1. PICK p \in rest : q = IF p.user = u THEN [p EXCEPT !.behind = TRUE] ELSE p
  BY DEF Overtaken
<1> QED
  BY <1>1 DEF Registration, Update

\* A booking that is saved is the last one, and in the list of its user if he has an account.
LEMMA SaveBookingKeeps ==
    ASSUME IInv, NEW u \in DOMAIN users, SaveBooking(u)
    PROVE  IInv'
<1> DEFINE last == Len(bookings) + 1
           user == [users[u] EXCEPT !.bookings = @ \cup {last}]
<1>1. Saved /\ \A q \in requests : Held(q)
  BY InParts
<1>2. bookings' = Append(bookings, u) /\ UNCHANGED <<passwords, asked, doubled, raced>>
  BY DEF SaveBooking
<1>3. u \in Nat /\ last \in Nat
  BY <1>1 DEF Saved
<1>4. /\ bookings' \in Seq(Nat) /\ DOMAIN bookings' = DOMAIN bookings \cup {last}
      /\ last \notin DOMAIN bookings /\ Len(bookings') = last
      /\ bookings'[last] = u /\ \A b \in DOMAIN bookings : bookings'[b] = bookings[b]
  BY <1>1, <1>2, <1>3 DEF Saved
<1>5. /\ user \in User /\ user.bookings = users[u].bookings \cup {last}
      /\ user.email = users[u].email /\ user.password = users[u].password
      /\ user.deleted = users[u].deleted
  <2>1. users[u] \in User
    BY <1>1 DEF Saved
  <2> QED
    BY <1>3, <2>1 DEF User
<1>6. CASE u \in Live
  <2>1. users' = [users EXCEPT ![u] = user] /\ requests' = Overtaken(u, requests)
    BY <1>4, <1>6 DEF SaveBooking
  <2> HIDE DEF user, last
  <2>2. /\ users' \in Seq(User) /\ DOMAIN users' = DOMAIN users /\ Len(users') = Len(users)
        /\ users'[u] = user /\ \A v \in DOMAIN users \ {u} : users'[v] = users[v]
    BY <1>1, <1>5, <2>1 DEF Saved
  <2>3. /\ \A v \in DOMAIN users :
             /\ users'[v].email = users[v].email /\ users'[v].password = users[v].password
             /\ users'[v].deleted = users[v].deleted
             /\ users[v].bookings \in SUBSET users'[v].bookings
        /\ last \in users'[u].bookings
    BY <1>5, <2>2
  <2>4. Live' = Live /\ Live \in SUBSET DOMAIN users
    <3>1. \A v : v \in Live' <=> v \in DOMAIN users /\ ~users'[v].deleted
      BY <2>2 DEF Live
    <3>2. \A v : v \in Live <=> v \in DOMAIN users /\ ~users[v].deleted
      BY DEF Live
    <3> QED
      BY <2>3, <3>1, <3>2
  <2>5. Saved'
    <3>1. (\A v \in DOMAIN users : IsOwn(users[v].bookings, v))'
      <4> SUFFICES ASSUME NEW v \in DOMAIN users, NEW b \in users'[v].bookings
                   PROVE  b \in DOMAIN bookings' /\ bookings'[b] = v
        BY <2>2 DEF IsOwn
      <4>1. b \in users[v].bookings => b \in DOMAIN bookings /\ bookings[b] = v
        BY <1>1 DEF Saved, IsOwn
      <4>2. b \in users[v].bookings \/ (v = u /\ b = last)
        BY <1>5, <2>2
      <4> QED
        BY <1>4, <4>1, <4>2
    <3>2. EmailsUnique' /\ LastRequestWins'
      <4>1. \A v \in Live :
                users'[v].email = users[v].email /\ users'[v].password = users[v].password
        BY <2>3, <2>4
      <4>2. EmailsUnique /\ LastRequestWins
        BY <1>1 DEF Saved
      <4>3. EmailsUnique'
        BY <1>2, <2>4, <4>1, <4>2 DEF EmailsUnique
      <4>4. LastRequestWins'
        BY <1>2, <2>4, <4>1, <4>2 DEF LastRequestWins
      <4> QED
        BY <4>3, <4>4
    <3>3. ListsAreWhole'
      <4> SUFFICES ASSUME NEW b \in DOMAIN bookings', bookings'[b] \in Live \ raced
                   PROVE  b \in users'[bookings'[b]].bookings
        BY <1>2, <2>4 DEF ListsAreWhole
      <4>1. CASE b = last
        BY <1>4, <2>3, <4>1
      <4>2. CASE b # last
        <5>1. b \in DOMAIN bookings /\ bookings'[b] = bookings[b]
          BY <1>4, <4>2
        <5>2. b \in users[bookings[b]].bookings
          BY <1>1, <5>1 DEF Saved, ListsAreWhole
        <5> QED
          BY <2>3, <2>4, <5>1, <5>2
      <4> QED
        BY <4>1, <4>2
    <3>4. (\A b \in DOMAIN bookings : bookings[b] \in DOMAIN users)'
      BY <1>1, <1>4, <2>2 DEF Saved
    <3> QED
      BY <1>1, <1>2, <1>4, <2>2, <3>1, <3>2, <3>3, <3>4 DEF Saved
  <2>6. \A q \in requests' : Held(q)'
    <3> SUFFICES ASSUME NEW q \in Overtaken(u, requests)
                 PROVE  Held(q)'
      BY <2>1
    <3>1. requests \in SUBSET (Registration \cup Update)
      BY <1>1 DEF Held
    <3>2. PICK p \in requests :
              /\ q \in Registration \cup Update
              /\ q.op = p.op /\ q.user = p.user /\ q.read = p.read /\ q.email = p.email
              /\ ~q.behind => ~p.behind /\ q.user # u
      BY <3>1, OvertakenIs
    <3>3. \A email : WithEmail(email)' = WithEmail(email)
      BY <2>3, <2>4 DEF WithEmail
    <3> QED
      BY <1>1, <1>2, <1>4, <2>2, <2>4, <3>2, <3>3 DEF Held, IsOwn
  <2> QED
    BY <2>5, <2>6, InPartsNext
<1>7. CASE u \notin Live
  <2>1. UNCHANGED <<users, requests>>
    BY <1>7 DEF SaveBooking
  <2>2. Live' = Live
    BY <2>1 DEF Live
  <2>3. Saved'
    <3>1. (\A v \in DOMAIN users : IsOwn(users[v].bookings, v))'
      BY <1>1, <1>4, <2>1 DEF Saved, IsOwn
    <3>2. EmailsUnique' /\ LastRequestWins'
      BY <1>1, <1>2, <2>1, <2>2 DEF Saved, EmailsUnique, LastRequestWins
    <3>3. ListsAreWhole'
      BY <1>1, <1>2, <1>4, <1>7, <2>1, <2>2 DEF Saved, ListsAreWhole
    <3> QED
      BY <1>1, <1>2, <1>4, <2>1, <3>1, <3>2, <3>3 DEF Saved
  <2>4. \A q \in requests' : Held(q)'
    BY <1>1, <1>2, <1>4, <2>1, <2>2 DEF Held, IsOwn, WithEmail
  <2> QED
    BY <2>3, <2>4, InPartsNext
<1> QED
  BY <1>6, <1>7

\* What an update writes is what it holds, with what it contains; if it is behind, the user is
\* remembered as raced and his email as doubled.
LEMMA WriteUserKeeps ==
    ASSUME IInv, NEW r \in requests, WriteUser(r), r.user \in Live
    PROVE  IInv'
<1> DEFINE u == r.user
           user == Merged(r)
           ask == [email |-> IF r.email = None THEN asked[u].email ELSE r.email,
                   password |-> IF r.password = NoPassword THEN asked[u].password ELSE r.password]
<1>1. Saved /\ \A q \in requests : Held(q)
  BY InParts
<1>2. /\ r.op = "update" /\ users' = [users EXCEPT ![u] = user]
      /\ asked' = [asked EXCEPT ![u] = ask]
      /\ raced' = IF r.behind THEN raced \cup {u} ELSE raced
      /\ doubled' = IF r.email \notin {None, users[u].email} \/ r.behind
                    THEN doubled \cup {users'[u].email} ELSE doubled
      /\ requests' = Overtaken(u, requests \ {r})
      /\ UNCHANGED <<passwords, bookings>>
  BY DEF WriteUser
<1>3. /\ u \in DOMAIN users /\ u \in Live /\ ~r.read.deleted /\ IsOwn(r.read.bookings, u)
      /\ ~r.behind => r.read = users[u]
      /\ r.read \in User /\ r.email \in Emails \cup {None} /\ r.password \in Nat
  BY <1>1, <1>2 DEF Held, Registration, Update
<1>4. /\ user \in User /\ ~user.deleted /\ user.bookings = r.read.bookings
      /\ user.email = IF r.email = None THEN r.read.email ELSE r.email
      /\ user.password = IF r.password = NoPassword THEN r.read.password ELSE r.password
  BY <1>3 DEF Merged, User
<1>5. asked[u] \in Wish /\ u \in DOMAIN asked
  <2> HIDE DEF u, user, ask
  <2>1. /\ users \in Seq(User) /\ Len(asked) = Len(users)
        /\ asked \in Seq(Wish)
    BY <1>1 DEF Saved
  <2>2. u \in 1 .. Len(asked)
    BY <1>3, <2>1
  <2> QED
    BY <2>1, <2>2
<1>6. /\ ask \in Wish
      /\ ask.email = IF r.email = None THEN asked[u].email ELSE r.email
      /\ ask.password = IF r.password = NoPassword THEN asked[u].password ELSE r.password
  BY <1>3, <1>5 DEF Wish
<1> HIDE DEF u, user, ask
<1>7. /\ users' \in Seq(User) /\ DOMAIN users' = DOMAIN users /\ Len(users') = Len(users)
      /\ users'[u] = user /\ \A v \in DOMAIN users \ {u} : users'[v] = users[v]
  BY <1>1, <1>2, <1>3, <1>4 DEF Saved
<1>8. /\ asked' \in Seq(Wish) /\ Len(asked') = Len(asked)
      /\ asked'[u] = ask /\ \A v \in DOMAIN users \ {u} : asked'[v] = asked[v]
  BY <1>1, <1>2, <1>5, <1>6 DEF Saved
<1>9. Live' = Live /\ Live \in SUBSET DOMAIN users
  <2>1. \A v : v \in Live' <=> v \in DOMAIN users /\ ~users'[v].deleted
    BY <1>7 DEF Live
  <2>2. \A v : v \in Live <=> v \in DOMAIN users /\ ~users[v].deleted
    BY DEF Live
  <2> QED
    BY <1>3, <1>4, <1>7, <2>1, <2>2
<1>10. users'[u].email = users[u].email \/ users'[u].email \in doubled'
  <2>1. CASE r.email \notin {None, users[u].email} \/ r.behind
    BY <1>2, <2>1
  <2>2. CASE r.email \in {None, users[u].email} /\ ~r.behind
    BY <1>3, <1>4, <1>7, <2>2
  <2> QED
    BY <2>1, <2>2
<1>11. doubled \in SUBSET doubled' /\ raced \in SUBSET raced'
  BY <1>2
<1>12. Saved'
  <2>1. (\A v \in DOMAIN users : IsOwn(users[v].bookings, v))'
    BY <1>1, <1>2, <1>3, <1>4, <1>7 DEF Saved, IsOwn
  <2>2. ListsAreWhole'
    <3> SUFFICES ASSUME NEW b \in DOMAIN bookings, bookings[b] \in Live, bookings[b] \notin raced'
                 PROVE  b \in users'[bookings[b]].bookings
      BY <1>2, <1>9 DEF ListsAreWhole
    <3>1. b \in users[bookings[b]].bookings
      BY <1>1, <1>11 DEF Saved, ListsAreWhole
    <3>2. CASE bookings[b] = u
      <4>1. ~r.behind
        BY <1>2, <3>2
      <4> QED
        BY <1>3, <1>4, <1>7, <3>1, <3>2, <4>1
    <3>3. CASE bookings[b] # u
      BY <1>7, <1>9, <3>1, <3>3
    <3> QED
      BY <3>2, <3>3
  <2>3. EmailsUnique'
    <3> SUFFICES ASSUME NEW v \in Live, NEW w \in Live, v # w, users'[v].email = users'[w].email
                 PROVE  users'[v].email \in doubled'
      BY <1>9 DEF EmailsUnique
    <3>1. CASE users'[u].email \in doubled' /\ u \in {v, w}
      BY <3>1
    <3>2. CASE users'[u].email \notin doubled' \/ u \notin {v, w}
      <4>1. users'[v].email = users[v].email /\ users'[w].email = users[w].email
        BY <1>7, <1>9, <1>10, <3>2
      <4> QED
        BY <1>1, <1>11, <4>1 DEF Saved, EmailsUnique
    <3> QED
      BY <3>1, <3>2
  <2>4. LastRequestWins'
    <3> SUFFICES ASSUME NEW v \in Live, v \notin raced'
                 PROVE  users'[v].email = asked'[v].email /\ users'[v].password = asked'[v].password
      BY <1>9 DEF LastRequestWins
    <3>1. users[v].email = asked[v].email /\ users[v].password = asked[v].password
      BY <1>1, <1>11 DEF Saved, LastRequestWins
    <3>2. CASE v = u
      <4>1. ~r.behind
        BY <1>2, <3>2
      <4> QED
        BY <1>3, <1>4, <1>6, <1>7, <1>8, <3>1, <3>2, <4>1
    <3>3. CASE v # u
      BY <1>7, <1>8, <1>9, <3>1, <3>3
    <3> QED
      BY <3>2, <3>3
  <2> QED
    BY <1>1, <1>2, <1>7, <1>8, <2>1, <2>2, <2>3, <2>4 DEF Saved
<1>13. \A q \in requests' : Held(q)'
  <2> SUFFICES ASSUME NEW q \in Overtaken(u, requests \ {r})
               PROVE  Held(q)'
    BY <1>2
  <2>1. requests \ {r} \in SUBSET (Registration \cup Update)
    BY <1>1 DEF Held
  <2>2. PICK p \in requests \ {r} :
            /\ q \in Registration \cup Update
            /\ q.op = p.op /\ q.user = p.user /\ q.read = p.read /\ q.email = p.email
            /\ ~q.behind => ~p.behind /\ q.user # u
    BY <2>1, OvertakenIs
  <2>3. Held(p)
    BY <1>1
  <2>4. CASE q.op = "update"
    BY <1>2, <1>7, <1>9, <2>2, <2>3, <2>4 DEF Held, IsOwn
  <2>5. CASE q.op # "update"
    <3>1. \A email : email \notin doubled' /\ WithEmail(email) = {} => WithEmail(email)' = {}
      BY <1>7, <1>9, <1>10 DEF WithEmail
    <3> QED
      BY <1>11, <2>2, <2>3, <2>5, <3>1 DEF Held
  <2> QED
    BY <2>4, <2>5
<1> QED
  BY <1>12, <1>13, InPartsNext

\* The inductive invariant holds of every behaviour.
THEOREM IInvariance == Spec => []IInv
<1>1. Init => IInv
  BY InitHolds
<1>2. IInv /\ [Next]_vars => IInv'
  <2> SUFFICES ASSUME IInv, [Next]_vars
               PROVE  IInv'
    OBVIOUS
  <2>0. Saved
    BY InParts
  <2>1. ASSUME NEW email \in Emails, CheckEmail(email)
        PROVE  IInv'
    <3> DEFINE new == [op |-> "register", user |-> 0, read |-> {}, email |-> email,
                       password |-> NoPassword, behind |-> FALSE]
    <3>1. Held(new)
      BY <2>1 DEF CheckEmail, Held, Registration
    <3>2. \A r \in requests' : r \in requests \/ Held(r)
      BY <2>1, <3>1 DEF CheckEmail, Running
    <3> QED
      BY <2>0, <2>1, <3>2, RequestsChange DEF CheckEmail, Saved
  <2>2. ASSUME NEW r \in requests, Register(r)
        PROVE  IInv'
    BY <2>2, RegisterKeeps
  <2>3. ASSUME NEW r \in requests, RegisterFails(r)
        PROVE  IInv'
    BY <2>0, <2>3, RequestsChange DEF RegisterFails, Saved
  <2>4. ASSUME NEW r \in requests, WriteUser(r)
        PROVE  IInv'
    <3>1. CASE r.user \in Live
      BY <2>4, <3>1, WriteUserKeeps
    <3>2. CASE r.user \notin Live
      BY <2>0, <2>4, <3>2, RequestsChange DEF WriteUser, Saved
    <3> QED
      BY <3>1, <3>2
  <2>5. ASSUME NEW u \in DOMAIN users, NEW email \in Emails \cup {None},
               NEW password \in {NoPassword, passwords + 1}, ReadUser(u, email, password)
        PROVE  IInv'
    <3> DEFINE new == [op |-> "update", user |-> u, read |-> users[u], email |-> email,
                       password |-> password, behind |-> FALSE]
    <3>1. password \in Nat /\ passwords' \in Nat
      BY <2>0, <2>5 DEF ReadUser, NoPassword, Saved
    <3>2. users[u] \in User /\ u \in Nat /\ u \in Live /\ IsOwn(users[u].bookings, u)
      BY <2>0, <2>5 DEF ReadUser, Saved
    <3>3. Held(new)
      BY <3>1, <3>2 DEF Held, Update, Live
    <3>4. \A r \in requests' : r \in requests \/ Held(r)
      BY <2>5, <3>3 DEF ReadUser, Running
    <3> QED
      BY <2>5, <3>1, <3>4, RequestsChange DEF ReadUser
  <2>6. ASSUME NEW u \in DOMAIN users, Delete(u)
        PROVE  IInv'
    BY <2>6, DeleteKeeps
  <2>7. ASSUME NEW u \in DOMAIN users, SaveBooking(u)
        PROVE  IInv'
    BY <2>7, SaveBookingKeeps
  <2>8. CASE UNCHANGED vars
    BY <2>0, <2>8, RequestsChange DEF vars, Saved
  <2> QED
    BY <2>1, <2>2, <2>3, <2>4, <2>5, <2>6, <2>7, <2>8 DEF Next
<1> QED
  BY <1>1, <1>2, PTL DEF Spec

\* "This email is already in use" (UserService): two users have one email only after requests
\* that ran at the same time, or an update that gave it to one.
THEOREM EmailsOfOneUser == Spec => []EmailsUnique
<1>1. IInv => EmailsUnique
  BY DEF IInv
<1> QED
  BY <1>1, IInvariance, PTL

\* BookingRepository.create and findUserByBookingId: a booking and its customer find each other,
\* unless a stale copy of him was written.
THEOREM CustomersAreFound == Spec => []BookingsKeepTheirCustomer
<1>1. IInv => BookingsKeepTheirCustomer
  <2> SUFFICES ASSUME IInv, NEW b \in DOMAIN bookings
               PROVE  /\ bookings[b] \in Live \ raced =>
                             UsersOf(b) = {bookings[b]} /\ b \in BookingsOf(bookings[b])
                      /\ \A u \in UsersOf(b) : u = bookings[b]
    BY DEF BookingsKeepTheirCustomer
  <2>1. \A u \in UsersOf(b) : u = bookings[b]
    BY DEF UsersOf, Live, IInv, ListsAreOwn, IsOwn
  <2>2. ASSUME bookings[b] \in Live \ raced
        PROVE  UsersOf(b) = {bookings[b]} /\ b \in BookingsOf(bookings[b])
    <3>1. b \in users[bookings[b]].bookings
      BY <2>2 DEF IInv, ListsAreWhole
    <3> QED
      BY <2>1, <2>2, <3>1 DEF UsersOf, BookingsOf
  <2> QED
    BY <2>1, <2>2
<1> QED
  BY <1>1, IInvariance, PTL

\* UserRepository.update: a user's email and password are those that were last asked for, unless a
\* stale copy of him was written.
THEOREM UsersAreAsAsked == Spec => []LastRequestWins
<1>1. IInv => LastRequestWins
  BY DEF IInv
<1> QED
  BY <1>1, IInvariance, PTL

\* All of it: emails, customers and what was asked for are kept.
THEOREM AccountsAreKept == Spec => []AccountsKept
<1>1. EmailsUnique /\ BookingsKeepTheirCustomer /\ LastRequestWins => AccountsKept
  BY DEF AccountsKept
<1> QED
  BY <1>1, EmailsOfOneUser, CustomersAreFound, UsersAreAsAsked, PTL
=============================================================================
