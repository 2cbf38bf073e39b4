------------------------- MODULE BookingEmails_proofs -------------------------
(***************************************************************************)
(* The mails of a booking, for any window, languages, and any number of    *)
(* events, retries, restarts and units of time, however handlers           *)
(* interleave.                                                             *)
(*                                                                         *)
(* Deduplicates speaks of mails that were registered long ago and says     *)
(* nothing of sentEmails, which decides on the next one; Remembered says   *)
(* that sentEmails is the latest of the mails that the running process     *)
(* registered. CopiesAreBounded says nothing of the attempts that are      *)
(* left; Attempted says that a mail under way has fewer copies than it     *)
(* had attempts.                                                           *)
(*                                                                         *)
(* MailsAreTrue and CustomerIsTold speak of mails that were delivered;     *)
(* Truth says what each handler has in its hands before, that its object   *)
(* of the booking is that of its event until the service changes it, and   *)
(* which events there must have been for the booking to be as it is.       *)
(***************************************************************************)
EXTENDS BookingEmails, FiniteSetTheorems, TLAPS

ConstantsAssumption ==
    /\ MaxRetries \in Nat \ {0}
    /\ Window \in Int
    /\ Deposit \in Int /\ Total \in Int

Booking ==
    [status : Statuses \cup {"none"}, method : Methods \cup {"none"},
     source : {"none", "Web", "Dashboard"}, reserve : BOOLEAN, paid : Int, full : BOOLEAN]

MailShown ==
    [template : {"confirmation", "reserve", "cancellation", "rejection"},
     paid : Int, balance : Int, row : Int]

Handler ==
    [event : Events, object : Booking, was : Booking, lang : Langs,
     creation : {"no", "request", "purchase"}, read : Int, step : Steps, attempt : Nat,
     mail : Seq(MailShown), resets : BOOLEAN, epoch : Nat]

Copy == [job : Nat, mail : MailShown, copy : Nat]

TypeOK ==
    /\ now \in Nat
    /\ booking \in Booking
    /\ price \in Int
    /\ jobs \in Seq(Handler)
    /\ sentEmails \in [Langs -> Int]
    /\ inbox \in SUBSET Copy
    /\ restarts \in Nat

\* A mail about a created booking that was not dropped.
Registered(job) == job.event = "created" /\ job.read # Never /\ job.step # "skipped"

\* What one handler may be like.
HandlerOK(job) ==
    /\ job.read # Never => job.read >= 0 /\ job.read <= now
    /\ job.step = "contract" => job.read = Never /\ job.epoch = restarts
    /\ job.epoch <= restarts
    /\ job.step = "skipped" => job.event = "created"

\* sentEmails is when the process that runs last registered a mail.
Remembered ==
    \A l \in Langs :
        LET mine == {j \in DOMAIN jobs :
                       Registered(jobs[j]) /\ jobs[j].lang = l /\ jobs[j].epoch = restarts}
        IN  /\ sentEmails[l] # Never => /\ sentEmails[l] >= 0 /\ sentEmails[l] <= now
                                        /\ \E j \in mine : jobs[j].read = sentEmails[l]
            /\ \A j \in mine : sentEmails[l] # Never /\ jobs[j].read <= sentEmails[l]

\* A mail under way has fewer copies than attempts, and one that is not written has none.
Attempted ==
    /\ \A m \in inbox : m.job \in DOMAIN jobs /\ m.mail = jobs[m.job].mail[1]
    /\ \A j \in DOMAIN jobs :
         /\ IsFiniteSet(Copies(j)) /\ Cardinality(Copies(j)) <= MaxRetries
         /\ jobs[j].step = "customer" => /\ jobs[j].mail # <<>>
                                         /\ Cardinality(Copies(j)) < jobs[j].attempt
                                         /\ jobs[j].attempt <= MaxRetries
         /\ jobs[j].step \in {"contract", "user"} => Copies(j) = {} /\ jobs[j].attempt = 1
         /\ jobs[j].step \in {"admin", "done"} => Copies(j) # {}

IInv ==
    /\ TypeOK
    /\ \A j \in DOMAIN jobs : HandlerOK(jobs[j])
    /\ Remembered
    /\ Deduplicates
    /\ Attempted

-----------------------------------------------------------------------------
(***************************************************************************)
(* The window.                                                             *)
(***************************************************************************)

\* Two handlers of one process with the same key.
SameKey(j, k) == j # k /\ jobs[j].lang = jobs[k].lang /\ jobs[j].epoch = jobs[k].epoch

Apart ==
    \A j, k \in DOMAIN jobs :
        Registered(jobs[j]) /\ Registered(jobs[k]) /\ SameKey(j, k) =>
            jobs[j].read + Window <= jobs[k].read \/ jobs[k].read + Window <= jobs[j].read

Excused ==
    \A j \in DOMAIN jobs : jobs[j].step = "skipped" =>
        \E k \in DOMAIN jobs :
            /\ Registered(jobs[k]) /\ SameKey(j, k)
            /\ jobs[k].read <= jobs[j].read /\ jobs[j].read < jobs[k].read + Window

LEMMA DeduplicatesIs == Deduplicates <=> Apart /\ Excused
BY DEF Deduplicates, Apart, Excused, Registered, SameKey

Mine(l, j) == j \in DOMAIN jobs /\ Registered(jobs[j]) /\ jobs[j].lang = l /\ jobs[j].epoch = restarts

RememberedIn(l) ==
    /\ sentEmails[l] # Never => /\ sentEmails[l] >= 0 /\ sentEmails[l] <= now
                                /\ \E j : Mine(l, j) /\ jobs[j].read = sentEmails[l]
    /\ \A j : Mine(l, j) => sentEmails[l] # Never /\ jobs[j].read <= sentEmails[l]

LEMMA RememberedIs == Remembered <=> \A l \in Langs : RememberedIn(l)
BY DEF Remembered, RememberedIn, Mine

Windows ==
    /\ \A j \in DOMAIN jobs : HandlerOK(jobs[j])
    /\ \A l \in Langs : RememberedIn(l)
    /\ Apart
    /\ Excused

LEMMA HandlerTypes ==
    ASSUME TypeOK, NEW j \in DOMAIN jobs
    PROVE  /\ jobs[j] \in Handler /\ j \in Nat
           /\ jobs[j].read \in Int /\ jobs[j].epoch \in Nat /\ jobs[j].attempt \in Nat
           /\ jobs[j].lang \in Langs /\ jobs[j].step \in Steps
<1>1. jobs[j] \in Handler /\ j \in Nat
  BY DEF TypeOK
<1> QED
  BY <1>1 DEF Handler

LEMMA InParts == IInv <=> TypeOK /\ Windows /\ Attempted
BY DeduplicatesIs, RememberedIs DEF IInv, Windows

LEMMA InPartsNext == IInv' <=> TypeOK' /\ Windows' /\ Attempted'
<1>1. (IInv <=> TypeOK /\ Windows /\ Attempted)'
  BY InParts, PTL
<1> QED
  BY <1>1

\* Time passes, or events are emitted, or handlers go on with what is not the window's business.
LEMMA WindowsKeep ==
    ASSUME TypeOK, Windows, UNCHANGED <<sentEmails, restarts>>, now' \in Nat, now <= now',
           DOMAIN jobs \in SUBSET DOMAIN jobs',
           \A j \in DOMAIN jobs' \ DOMAIN jobs :
               jobs'[j].read = Never /\ jobs'[j].step = "contract" /\ jobs'[j].epoch = restarts,
           \A j \in DOMAIN jobs :
               /\ jobs'[j].event = jobs[j].event /\ jobs'[j].lang = jobs[j].lang
               /\ jobs'[j].read = jobs[j].read /\ jobs'[j].epoch = jobs[j].epoch
               /\ jobs'[j].step = "skipped" <=> jobs[j].step = "skipped"
               /\ jobs'[j].step = "contract" => jobs[j].step = "contract"
    PROVE  Windows'
<1>1. \A j \in DOMAIN jobs' : Registered(jobs[j])' <=> j \in DOMAIN jobs /\ Registered(jobs[j])
  BY DEF Registered
<1>2. \A j, k \in DOMAIN jobs : SameKey(j, k)' <=> SameKey(j, k)
  BY DEF SameKey
<1>3. \A l, j : Mine(l, j)' <=> Mine(l, j)
  BY <1>1 DEF Mine
<1>4. \A j \in DOMAIN jobs : jobs[j].read \in Int
  BY HandlerTypes
<1>5. (\A j \in DOMAIN jobs : HandlerOK(jobs[j]))'
  BY <1>4 DEF Windows, HandlerOK, TypeOK, Never
<1>6. (\A l \in Langs : RememberedIn(l))'
  <2> SUFFICES ASSUME NEW l \in Langs
               PROVE  RememberedIn(l)'
    OBVIOUS
  <2>1. RememberedIn(l) /\ sentEmails[l] \in Int
    BY DEF Windows, TypeOK
  <2>2. \A j : Mine(l, j) => jobs'[j].read = jobs[j].read
    BY DEF Mine
  <2> QED
    BY <1>3, <2>1, <2>2 DEF RememberedIn, TypeOK
<1>7. Apart'
  BY <1>1, <1>2 DEF Windows, Apart
<1>8. Excused'
  BY <1>1, <1>2 DEF Windows, Excused
<1> QED
  BY <1>5, <1>6, <1>7, <1>8 DEF Windows

\* The contract has been read: a mail with a key that was registered within the window is
\* dropped, and any other is the latest.
LEMMA ReadContractWindows ==
    ASSUME ConstantsAssumption, TypeOK, Windows, NEW i \in DOMAIN jobs, ReadContract(i)
    PROVE  TypeOK' /\ Windows'
<1> DEFINE l == jobs[i].lang
           dropped == jobs[i].event = "created" /\ Repeated(l)
           h == [jobs[i] EXCEPT !.step = IF dropped THEN "skipped" ELSE "user", !.read = now]
<1>1. jobs[i] \in Handler /\ i \in Nat /\ l \in Langs
  BY HandlerTypes
<1>2. jobs[i].step = "contract" /\ UNCHANGED <<now, booking, price, inbox, restarts>>
  BY DEF ReadContract
<1>3. jobs' = [jobs EXCEPT ![i] = h]
  <2>1. CASE dropped
    BY <2>1 DEF ReadContract
  <2>2. CASE ~dropped
    BY <2>2 DEF ReadContract
  <2> QED
    BY <2>1, <2>2
<1>4. sentEmails' = IF jobs[i].event = "created" /\ ~dropped THEN [sentEmails EXCEPT ![l] = now]
                    ELSE sentEmails
  BY DEF ReadContract
<1>5. now \in Nat /\ restarts \in Nat /\ \A m \in Langs : sentEmails[m] \in Int
  BY DEF TypeOK
<1>6. /\ h \in Handler /\ h.event = jobs[i].event /\ h.lang = l /\ h.epoch = jobs[i].epoch
      /\ h.read = now /\ h.step = IF dropped THEN "skipped" ELSE "user"
  <2> DEFINE next == IF dropped THEN "skipped" ELSE "user"
  <2>1. next \in Steps
    BY DEF Steps, Ended
  <2>2. now \in Int
    BY <1>5
  <2> HIDE DEF next, dropped
  <2>3. h = [jobs[i] EXCEPT !.step = next, !.read = now]
    BY DEF next
  <2> HIDE DEF h
  <2>4. h \in Handler
    BY <1>1, <2>1, <2>2, <2>3 DEF Handler
  <2>5. h.event = jobs[i].event /\ h.lang = l /\ h.epoch = jobs[i].epoch /\ h.read = now /\ h.step = next
    BY <1>1, <2>3 DEF Handler
  <2> QED
    BY <2>4, <2>5 DEF next
<1>7. jobs[i].read = Never /\ jobs[i].epoch = restarts
  BY <1>2 DEF Windows, HandlerOK
<1>8. dropped => jobs[i].event = "created"
  OBVIOUS
<1>9. dropped => sentEmails[l] # Never /\ now - sentEmails[l] < Window
  BY DEF Repeated
<1>10. jobs[i].event = "created" /\ ~dropped => sentEmails[l] = Never \/ now - sentEmails[l] >= Window
  BY <1>1, <1>5 DEF Repeated, ConstantsAssumption
<1> HIDE DEF h, dropped
<1>11. /\ jobs' \in Seq(Handler) /\ DOMAIN jobs' = DOMAIN jobs /\ jobs'[i] = h
       /\ \A j \in DOMAIN jobs \ {i} : jobs'[j] = jobs[j]
  BY <1>3, <1>6 DEF TypeOK
<1>12. sentEmails' \in [Langs -> Int] /\ \A m \in Langs \ {l} : sentEmails'[m] = sentEmails[m]
  BY <1>1, <1>4, <1>5 DEF TypeOK
<1>13. TypeOK'
  BY <1>2, <1>11, <1>12 DEF TypeOK
<1>14. \A j \in DOMAIN jobs \ {i} : Registered(jobs[j])' <=> Registered(jobs[j])
  BY <1>11 DEF Registered
<1>15. Registered(jobs[i])' <=> jobs[i].event = "created" /\ ~dropped
  BY <1>5, <1>6, <1>11 DEF Registered, Never
<1>16. ~Registered(jobs[i])
  BY <1>7 DEF Registered
<1>17. \A j, k \in DOMAIN jobs : SameKey(j, k)' <=> SameKey(j, k)
  BY <1>6, <1>11 DEF SameKey
<1>18. RememberedIn(l)
  BY <1>1 DEF Windows
<1>19. \A j \in DOMAIN jobs : jobs[j].read \in Int
  BY HandlerTypes
<1>20. (\A j \in DOMAIN jobs : HandlerOK(jobs[j]))'
  BY <1>2, <1>5, <1>6, <1>7, <1>8, <1>11 DEF Windows, HandlerOK
<1>21. Apart'
  <2>1. ASSUME NEW j \in DOMAIN jobs, Registered(jobs[j])', Registered(jobs[i])', SameKey(i, j)
        PROVE  jobs[j].read + Window <= now
    <3>1. Mine(l, j)
      BY <1>7, <1>14, <2>1 DEF Mine, SameKey
    <3>2. sentEmails[l] # Never /\ jobs[j].read <= sentEmails[l]
      BY <1>18, <3>1 DEF RememberedIn
    <3> QED
      BY <1>1, <1>5, <1>10, <1>15, <1>19, <2>1, <3>2 DEF ConstantsAssumption
  <2>2. \A j \in DOMAIN jobs \ {i} : jobs'[j].read = jobs[j].read
    BY <1>11
  <2>3. \A j, k \in DOMAIN jobs : SameKey(j, k) => j # k /\ SameKey(k, j)
    BY DEF SameKey
  <2>4. jobs'[i].read = now
    BY <1>6, <1>11
  <2> QED
    BY <1>11, <1>14, <1>17, <2>1, <2>2, <2>3, <2>4 DEF Windows, Apart
<1>22. Excused'
  <2> SUFFICES ASSUME NEW j \in DOMAIN jobs, jobs'[j].step = "skipped"
               PROVE  \E k \in DOMAIN jobs :
                         /\ Registered(jobs[k])' /\ SameKey(j, k)
                         /\ jobs'[k].read <= jobs'[j].read /\ jobs'[j].read < jobs'[k].read + Window
    BY <1>11, <1>17 DEF Excused
  <2>1. CASE j = i
    <3>1. dropped
      BY <1>6, <1>11, <2>1
    <3>2. PICK k : Mine(l, k) /\ jobs[k].read = sentEmails[l]
      BY <1>9, <1>18, <3>1 DEF RememberedIn
    <3>3. k \in DOMAIN jobs \ {i} /\ Registered(jobs[k])' /\ SameKey(i, k)
      BY <1>7, <1>14, <1>16, <3>2 DEF Mine, SameKey
    <3>4. sentEmails[l] <= now
      BY <1>9, <1>18, <3>1 DEF RememberedIn
    <3> QED
      BY <1>1, <1>5, <1>6, <1>9, <1>11, <2>1, <3>1, <3>2, <3>3, <3>4 DEF ConstantsAssumption
  <2>2. CASE j # i
    <3>1. PICK k \in DOMAIN jobs :
              /\ Registered(jobs[k]) /\ SameKey(j, k)
              /\ jobs[k].read <= jobs[j].read /\ jobs[j].read < jobs[k].read + Window
      BY <1>11, <2>2 DEF Windows, Excused
    <3> QED
      BY <1>11, <1>14, <1>16, <2>2, <3>1
  <2> QED
    BY <2>1, <2>2
<1>23. (\A m \in Langs : RememberedIn(m))'
  <2> SUFFICES ASSUME NEW m \in Langs
               PROVE  RememberedIn(m)'
    OBVIOUS
  <2>1. RememberedIn(m)
    BY DEF Windows
  <2>2. \A j : j # i => (Mine(m, j)' <=> Mine(m, j)) /\ (Mine(m, j) => jobs'[j].read = jobs[j].read)
    BY <1>2, <1>11, <1>14 DEF Mine
  <2>3. ~Mine(m, i)
    BY <1>16 DEF Mine
  <2>4. CASE m = l /\ jobs[i].event = "created" /\ ~dropped
    <3>1. Mine(m, i)' /\ jobs'[i].read = now /\ sentEmails'[m] = now
      BY <1>1, <1>2, <1>4, <1>6, <1>7, <1>11, <1>15, <2>4 DEF Mine, TypeOK
    <3>2. ASSUME NEW j, Mine(m, j)'
          PROVE  jobs'[j].read <= now
      <4>1. CASE j = i
        BY <1>5, <3>1, <4>1
      <4>2. CASE j # i
        <5>1. Mine(m, j) /\ jobs'[j].read = jobs[j].read /\ j \in DOMAIN jobs
          BY <2>2, <3>2, <4>2 DEF Mine
        <5>2. sentEmails[m] # Never /\ jobs[j].read <= sentEmails[m] /\ sentEmails[m] <= now
          BY <2>1, <5>1 DEF RememberedIn
        <5> QED
          BY <1>5, <1>19, <5>1, <5>2
      <4> QED
        BY <4>1, <4>2
    <3> QED
      BY <1>2, <1>5, <3>1, <3>2 DEF RememberedIn, Never
  <2>5. CASE ~(m = l /\ jobs[i].event = "created" /\ ~dropped)
    <3>1. ~Mine(m, i)' /\ sentEmails'[m] = sentEmails[m]
      BY <1>4, <1>6, <1>11, <1>12, <1>15, <2>5 DEF Mine
    <3> QED
      BY <1>2, <2>1, <2>2, <2>3, <3>1 DEF RememberedIn
  <2> QED
    BY <2>4, <2>5
<1> QED
  BY <1>13, <1>20, <1>21, <1>22, <1>23 DEF Windows

\* A new process remembers nothing, and has registered nothing.
LEMMA RestartWindows ==
    ASSUME TypeOK, Windows, Restart
    PROVE  TypeOK' /\ Windows'
<1>1. /\ restarts' = restarts + 1 /\ sentEmails' = [l \in Langs |-> Never]
      /\ jobs' = [j \in DOMAIN jobs |->
                     [jobs[j] EXCEPT !.step = IF @ \in Ended THEN @ ELSE "lost", !.resets = FALSE]]
      /\ UNCHANGED <<now, booking, price, inbox>>
  BY DEF Restart
<1>2. restarts \in Nat /\ now \in Nat /\ restarts' = restarts + 1 /\ now' = now
  BY <1>1 DEF TypeOK
<1>3. \A j \in DOMAIN jobs :
          /\ jobs'[j] \in Handler
          /\ jobs'[j].event = jobs[j].event /\ jobs'[j].lang = jobs[j].lang
          /\ jobs'[j].read = jobs[j].read /\ jobs'[j].epoch = jobs[j].epoch
          /\ jobs'[j].step = IF jobs[j].step \in Ended THEN jobs[j].step ELSE "lost"
  <2> SUFFICES ASSUME NEW j \in DOMAIN jobs
               PROVE  /\ jobs'[j] \in Handler
                      /\ jobs'[j].event = jobs[j].event /\ jobs'[j].lang = jobs[j].lang
                      /\ jobs'[j].read = jobs[j].read /\ jobs'[j].epoch = jobs[j].epoch
                      /\ jobs'[j].step = IF jobs[j].step \in Ended THEN jobs[j].step ELSE "lost"
    OBVIOUS
  <2>1. jobs[j] \in Handler
    BY HandlerTypes
  <2>2. jobs'[j] = [jobs[j] EXCEPT !.step = IF @ \in Ended THEN @ ELSE "lost", !.resets = FALSE]
    BY <1>1
  <2> QED
    BY <2>1, <2>2 DEF Handler, Steps, Ended
<1>4. DOMAIN jobs' = DOMAIN jobs /\ jobs' \in Seq(Handler)
  <2>1. jobs \in Seq(Handler) /\ DOMAIN jobs = 1 .. Len(jobs) /\ Len(jobs) \in Nat
    BY DEF TypeOK
  <2>2. jobs' \in [1 .. Len(jobs) -> Handler]
    BY <1>1, <1>3, <2>1
  <2> QED
    BY <2>1, <2>2
<1>5. TypeOK'
  <2>1. sentEmails' \in [Langs -> Int]
    <3>1. sentEmails' = [l \in Langs |-> Never]
      BY DEF Restart
    <3>2. Never \in Int
      BY DEF Never
    <3> QED
      BY <3>1, <3>2
  <2>2. booking' = booking /\ price' = price /\ inbox' = inbox
    BY <1>1
  <2> QED
    BY <1>2, <1>4, <2>1, <2>2 DEF TypeOK
<1>6. \A j \in DOMAIN jobs :
          /\ jobs'[j].step = "skipped" <=> jobs[j].step = "skipped"
          /\ jobs'[j].step # "contract" /\ jobs[j].epoch < restarts'
  <2>1. \A j \in DOMAIN jobs : jobs[j].epoch \in Nat /\ jobs[j].epoch <= restarts
    BY HandlerTypes DEF Windows, HandlerOK
  <2> QED
    BY <1>2, <1>3, <2>1 DEF Ended
<1>7. \A j \in DOMAIN jobs : Registered(jobs[j])' <=> Registered(jobs[j])
  BY <1>3, <1>6 DEF Registered
<1>8. \A j, k \in DOMAIN jobs : SameKey(j, k)' <=> SameKey(j, k)
  BY <1>3 DEF SameKey
<1>9. (\A j \in DOMAIN jobs : HandlerOK(jobs[j]))'
  <2>1. \A j \in DOMAIN jobs : jobs[j].epoch \in Nat
    BY HandlerTypes
  <2> QED
    BY <1>2, <1>3, <1>4, <1>6, <2>1 DEF Windows, HandlerOK
<1>10. (\A l \in Langs : RememberedIn(l))'
  <2>1. \A l, j : ~Mine(l, j)'
    <3>1. \A j \in DOMAIN jobs : jobs[j].epoch \in Nat
      BY HandlerTypes
    <3> QED
      BY <1>2, <1>3, <1>4, <1>6, <3>1 DEF Mine
  <2> QED
    BY <1>1, <2>1 DEF RememberedIn
<1>11. Apart'
  BY <1>3, <1>4, <1>7, <1>8 DEF Windows, Apart
<1>12. Excused'
  BY <1>3, <1>4, <1>6, <1>7, <1>8 DEF Windows, Excused
<1> QED
  BY <1>5, <1>9, <1>10, <1>11, <1>12 DEF Windows

-----------------------------------------------------------------------------
(***************************************************************************)
(* The retries.                                                            *)
(***************************************************************************)

\* Nothing is delivered, and no handler goes back.
LEMMA AttemptedKeeps ==
    ASSUME ConstantsAssumption, Attempted, UNCHANGED inbox,
           DOMAIN jobs \in SUBSET DOMAIN jobs',
           \A j \in DOMAIN jobs' \ DOMAIN jobs : jobs'[j].step = "contract" /\ jobs'[j].attempt = 1,
           \A j \in DOMAIN jobs :
               /\ jobs'[j].mail = jobs[j].mail \/ jobs[j].step \in {"contract", "user"}
               /\ jobs'[j].attempt = jobs[j].attempt
               /\ \/ jobs'[j].step = jobs[j].step
                  \/ jobs[j].step = "contract" /\ jobs'[j].step = "user"
                  \/ jobs[j].step = "user" /\ jobs'[j].step = "customer" /\ jobs'[j].mail # <<>>
                  \/ jobs[j].step = "admin" /\ jobs'[j].step = "done"
                  \/ jobs'[j].step \in {"failed", "skipped", "lost"}
    PROVE  Attempted'
<1>1. \A j : Copies(j)' = Copies(j)
  BY DEF Copies
<1>2. \A m \in inbox : jobs[m.job].step \notin {"contract", "user"}
  BY DEF Attempted, Copies
<1>3. (\A m \in inbox : m.job \in DOMAIN jobs /\ m.mail = jobs[m.job].mail[1])'
  BY <1>2 DEF Attempted
<1>4. ASSUME NEW j \in DOMAIN jobs', j \notin DOMAIN jobs
      PROVE  Copies(j) = {}
  BY <1>4 DEF Attempted, Copies
<1>5. IsFiniteSet({}) /\ Cardinality({}) = 0
  BY FS_EmptySet
<1>6. ASSUME NEW j \in DOMAIN jobs
      PROVE  /\ jobs'[j].step = "customer" => /\ jobs'[j].mail # <<>>
                                               /\ Cardinality(Copies(j)) < jobs'[j].attempt
                                               /\ jobs'[j].attempt <= MaxRetries
             /\ jobs'[j].step \in {"contract", "user"} => Copies(j) = {} /\ jobs'[j].attempt = 1
             /\ jobs'[j].step \in {"admin", "done"} => Copies(j) # {}
  <2>1. CASE jobs'[j].step = jobs[j].step
    BY <2>1 DEF Attempted
  <2>2. CASE jobs[j].step = "user" /\ jobs'[j].step = "customer" /\ jobs'[j].mail # <<>>
    <3>1. Copies(j) = {} /\ jobs'[j].attempt = 1
      BY <2>2 DEF Attempted
    <3>2. Cardinality(Copies(j)) = 0 /\ 1 <= MaxRetries
      BY <1>5, <3>1 DEF ConstantsAssumption
    <3> QED
      BY <2>2, <3>1, <3>2
  <2>3. CASE jobs[j].step = "contract" /\ jobs'[j].step = "user"
    BY <2>3 DEF Attempted
  <2>4. CASE jobs[j].step = "admin" /\ jobs'[j].step = "done"
    BY <2>4 DEF Attempted
  <2>5. CASE jobs'[j].step \in {"failed", "skipped", "lost"}
    BY <2>5
  <2> QED
    BY <2>1, <2>2, <2>3, <2>4, <2>5
<1>7. (\A j \in DOMAIN jobs :
         /\ IsFiniteSet(Copies(j)) /\ Cardinality(Copies(j)) <= MaxRetries
         /\ jobs[j].step = "customer" => /\ jobs[j].mail # <<>>
                                         /\ Cardinality(Copies(j)) < jobs[j].attempt
                                         /\ jobs[j].attempt <= MaxRetries
         /\ jobs[j].step \in {"contract", "user"} => Copies(j) = {} /\ jobs[j].attempt = 1
         /\ jobs[j].step \in {"admin", "done"} => Copies(j) # {})'
  <2>1. ASSUME NEW j \in DOMAIN jobs'
        PROVE  IsFiniteSet(Copies(j)) /\ Cardinality(Copies(j)) <= MaxRetries
    <3>1. CASE j \in DOMAIN jobs
      BY <3>1 DEF Attempted
    <3>2. CASE j \notin DOMAIN jobs
      <4>1. IsFiniteSet(Copies(j)) /\ Cardinality(Copies(j)) = 0
        BY <1>4, <1>5, <3>2
      <4> QED
        BY <4>1 DEF ConstantsAssumption
    <3> QED
      BY <3>1, <3>2
  <2> QED
    BY <1>1, <1>4, <1>6, <2>1
<1> QED
  BY <1>3, <1>7 DEF Attempted

\* A copy more is one, and it is what the others are.
LEMMA DeliverAdds ==
    ASSUME TypeOK, Attempted, NEW i \in DOMAIN jobs, Deliver(i), jobs[i].step = "customer"
    PROVE  /\ inbox' \in SUBSET Copy
           /\ \A m \in inbox' : m.job \in DOMAIN jobs /\ m.mail = jobs[m.job].mail[1]
           /\ \A j : j # i => Copies(j)' = Copies(j)
           /\ Copies(i)' # {} /\ IsFiniteSet(Copies(i)')
           /\ Cardinality(Copies(i)') <= Cardinality(Copies(i)) + 1
<1> DEFINE new == [job |-> i, mail |-> jobs[i].mail[1], copy |-> Cardinality(Copies(i)) + 1]
<1>1. inbox' = inbox \cup {new} /\ new.job = i /\ new.mail = jobs[i].mail[1]
  BY DEF Deliver
<1>2. IsFiniteSet(Copies(i)) /\ jobs[i].mail # <<>>
  BY DEF Attempted
<1>3. Cardinality(Copies(i)) \in Nat
  BY <1>2, FS_CardinalityType
<1>4. jobs[i].mail \in Seq(MailShown) /\ i \in Nat
  <2>1. jobs[i] \in Handler /\ i \in Nat
    BY HandlerTypes
  <2> QED
    BY <2>1 DEF Handler
<1>5. jobs[i].mail[1] \in MailShown
  <2> DEFINE mail == jobs[i].mail
  <2>1. mail \in Seq(MailShown) /\ mail # <<>>
    BY <1>2, <1>4
  <2> HIDE DEF mail
  <2>2. mail[1] \in MailShown
    BY <2>1
  <2> QED
    BY <2>2 DEF mail
<1>6. new \in Copy
  BY <1>3, <1>4, <1>5 DEF Copy
<1> HIDE DEF new
<1>7. inbox' \in SUBSET Copy
  BY <1>1, <1>6 DEF TypeOK
<1>8. \A m \in inbox' : m.job \in DOMAIN jobs /\ m.mail = jobs[m.job].mail[1]
  BY <1>1 DEF Attempted
<1>9. \A j : j # i => Copies(j)' = Copies(j)
  BY <1>1 DEF Copies
<1>10. Copies(i)' = Copies(i) \cup {new}
  BY <1>1 DEF Copies
<1>11. /\ IsFiniteSet(Copies(i) \cup {new})
       /\ Cardinality(Copies(i) \cup {new}) =
             IF new \in Copies(i) THEN Cardinality(Copies(i)) ELSE Cardinality(Copies(i)) + 1
  BY <1>2, FS_AddElement
<1> QED
  BY <1>3, <1>7, <1>8, <1>9, <1>10, <1>11

\* sendEmailWithBrevo: an attempt that delivers leaves fewer attempts.
LEMMA SendAttempted ==
    ASSUME ConstantsAssumption, TypeOK, Attempted, NEW i \in DOMAIN jobs, Send(i)
    PROVE  /\ inbox' \in SUBSET Copy
           /\ \E h \in Handler :
                 /\ jobs' = [jobs EXCEPT ![i] = h]
                 /\ h.event = jobs[i].event /\ h.lang = jobs[i].lang
                 /\ h.read = jobs[i].read /\ h.epoch = jobs[i].epoch
                 /\ h.step \notin {"skipped", "contract"} /\ jobs[i].step = "customer"
           /\ Attempted'
<1>1. jobs[i].step = "customer"
  BY DEF Send
<1>2. jobs[i] \in Handler /\ jobs[i].attempt \in Nat
  BY HandlerTypes
<1> DEFINE next(h) ==
        /\ h \in Handler /\ jobs' = [jobs EXCEPT ![i] = h]
        /\ h.event = jobs[i].event /\ h.lang = jobs[i].lang
        /\ h.read = jobs[i].read /\ h.epoch = jobs[i].epoch /\ h.mail = jobs[i].mail
<1>3. ASSUME jobs' = [jobs EXCEPT ![i] = AfterSuccess(@)]
      PROVE  \E h : next(h) /\ h.step \in {"done", "admin"} /\ h.attempt = jobs[i].attempt
  <2> DEFINE h == AfterSuccess(jobs[i])
  <2>1. /\ h \in Handler /\ h.event = jobs[i].event /\ h.lang = jobs[i].lang
        /\ h.read = jobs[i].read /\ h.epoch = jobs[i].epoch /\ h.mail = jobs[i].mail
        /\ h.step \in {"done", "admin"} /\ h.attempt = jobs[i].attempt
    BY <1>2 DEF AfterSuccess, Handler, Steps, Ended
  <2>2. jobs' = [jobs EXCEPT ![i] = h]
    BY <1>3
  <2> HIDE DEF h
  <2> QED
    BY <2>1, <2>2
<1>4. ASSUME jobs' = [jobs EXCEPT ![i] = AfterFailure(@)]
      PROVE  \E h : /\ next(h)
                    /\ \/ h.step = "failed"
                       \/ /\ h.step = "customer" /\ h.attempt = jobs[i].attempt + 1
                          /\ jobs[i].attempt < MaxRetries
  <2> DEFINE h == AfterFailure(jobs[i])
  <2>1. /\ h \in Handler /\ h.event = jobs[i].event /\ h.lang = jobs[i].lang
        /\ h.read = jobs[i].read /\ h.epoch = jobs[i].epoch /\ h.mail = jobs[i].mail
        /\ \/ h.step = "failed"
           \/ /\ h.step = "customer" /\ h.attempt = jobs[i].attempt + 1
              /\ jobs[i].attempt < MaxRetries
    <3>1. CASE jobs[i].attempt < MaxRetries
      BY <1>1, <1>2, <3>1 DEF AfterFailure, Handler
    <3>2. CASE ~(jobs[i].attempt < MaxRetries)
      BY <1>2, <3>2 DEF AfterFailure, Handler, Steps, Ended
    <3> QED
      BY <3>1, <3>2
  <2>2. jobs' = [jobs EXCEPT ![i] = h]
    BY <1>4
  <2> HIDE DEF h
  <2> QED
    BY <2>1, <2>2
<1>5. ASSUME jobs' = [jobs EXCEPT ![i].step = "failed"]
      PROVE  \E h : next(h) /\ h.step = "failed"
  <2> DEFINE h == [jobs[i] EXCEPT !.step = "failed"]
  <2>1. /\ h \in Handler /\ h.event = jobs[i].event /\ h.lang = jobs[i].lang
        /\ h.read = jobs[i].read /\ h.epoch = jobs[i].epoch /\ h.mail = jobs[i].mail
        /\ h.step = "failed"
    BY <1>2 DEF Handler, Steps, Ended
  <2>2. jobs' = [jobs EXCEPT ![i] = h]
    BY <1>5
  <2> HIDE DEF h
  <2> QED
    BY <2>1, <2>2
<1> HIDE DEF next
<1>6. \/ Deliver(i) /\ \E h : next(h) /\ h.step \in {"done", "admin"}
      \/ /\ Deliver(i) \/ UNCHANGED inbox
         /\ \E h : /\ next(h)
                   /\ \/ h.step = "failed"
                      \/ /\ h.step = "customer" /\ h.attempt = jobs[i].attempt + 1
                         /\ jobs[i].attempt < MaxRetries
  BY <1>3, <1>4, <1>5 DEF Send
<1>7. PICK h : /\ next(h)
               /\ h.step \in {"done", "admin", "failed"} \/
                     (h.step = "customer" /\ h.attempt = jobs[i].attempt + 1
                        /\ jobs[i].attempt < MaxRetries)
               /\ Deliver(i) \/ UNCHANGED inbox
               /\ h.step \in {"done", "admin"} => Deliver(i)
  BY <1>6
<1>8. /\ h \in Handler /\ jobs' = [jobs EXCEPT ![i] = h] /\ h.mail = jobs[i].mail
      /\ h.event = jobs[i].event /\ h.lang = jobs[i].lang
      /\ h.read = jobs[i].read /\ h.epoch = jobs[i].epoch
  BY <1>7 DEF next
<1>9. /\ DOMAIN jobs' = DOMAIN jobs /\ jobs'[i] = h
      /\ \A j \in DOMAIN jobs \ {i} : jobs'[j] = jobs[j]
  BY <1>8 DEF TypeOK
<1>10. /\ IsFiniteSet(Copies(i)) /\ Cardinality(Copies(i)) < jobs[i].attempt
       /\ jobs[i].attempt <= MaxRetries /\ jobs[i].mail # <<>>
  BY <1>1 DEF Attempted
<1>11. Cardinality(Copies(i)) \in Nat
  BY <1>10, FS_CardinalityType
<1>12. /\ inbox' \in SUBSET Copy
       /\ \A m \in inbox' : m.job \in DOMAIN jobs /\ m.mail = jobs[m.job].mail[1]
       /\ \A j : j # i => Copies(j)' = Copies(j)
       /\ IsFiniteSet(Copies(i)') /\ Cardinality(Copies(i)') <= Cardinality(Copies(i)) + 1
       /\ Cardinality(Copies(i)') \in Nat
       /\ h.step \in {"done", "admin"} => Copies(i)' # {}
  <2>1. CASE Deliver(i)
    <3>1. Cardinality(Copies(i)') \in Nat
      BY <1>1, <2>1, DeliverAdds, FS_CardinalityType
    <3> QED
      BY <1>1, <2>1, <3>1, DeliverAdds
  <2>2. CASE UNCHANGED inbox /\ ~Deliver(i)
    <3>1. \A j : Copies(j)' = Copies(j)
      BY <2>2 DEF Copies
    <3> QED
      BY <1>7, <1>10, <1>11, <2>2, <3>1 DEF Attempted, TypeOK
  <2> QED
    BY <1>7, <2>1, <2>2
<1>13. Attempted'
  <2>1. (\A m \in inbox : m.job \in DOMAIN jobs /\ m.mail = jobs[m.job].mail[1])'
    BY <1>8, <1>9, <1>12
  <2>2. \A j \in DOMAIN jobs' : IsFiniteSet(Copies(j)') /\ Cardinality(Copies(j)') <= MaxRetries
    BY <1>2, <1>9, <1>10, <1>11, <1>12 DEF Attempted, ConstantsAssumption
  <2>3. h.step = "customer" => Cardinality(Copies(i)') < h.attempt /\ h.attempt <= MaxRetries
    BY <1>2, <1>7, <1>10, <1>11, <1>12 DEF ConstantsAssumption
  <2>4. h.step \notin {"contract", "user"}
    BY <1>7
  <2>5. ASSUME NEW j \in DOMAIN jobs'
        PROVE  /\ jobs'[j].step = "customer" => /\ jobs'[j].mail # <<>>
                                                 /\ Cardinality(Copies(j)') < jobs'[j].attempt
                                                 /\ jobs'[j].attempt <= MaxRetries
               /\ jobs'[j].step \in {"contract", "user"} => Copies(j)' = {} /\ jobs'[j].attempt = 1
               /\ jobs'[j].step \in {"admin", "done"} => Copies(j)' # {}
    <3>1. CASE j = i
      BY <1>8, <1>9, <1>10, <1>12, <2>3, <2>4, <3>1
    <3>2. CASE j # i
      BY <1>9, <1>12, <3>2 DEF Attempted
    <3> QED
      BY <3>1, <3>2
  <2> QED
    BY <2>1, <2>2, <2>5 DEF Attempted
<1> QED
  BY <1>1, <1>7, <1>8, <1>12, <1>13

-----------------------------------------------------------------------------
(***************************************************************************)
(* The steps.                                                              *)
(***************************************************************************)

LEMMA InitHolds ==
    ASSUME ConstantsAssumption, Init
    PROVE  IInv
<1>1. TypeOK
  <2>1. booking \in Booking
    BY DEF Init, NoBooking, Booking
  <2>2. sentEmails \in [Langs -> Int]
    <3>1. sentEmails = [l \in Langs |-> Never]
      BY DEF Init
    <3>2. Never \in Int
      BY DEF Never
    <3> QED
      BY <3>1, <3>2
  <2>3. jobs \in Seq(Handler) /\ now \in Nat /\ price \in Int /\ inbox \in SUBSET Copy /\ restarts \in Nat
    BY DEF Init, ConstantsAssumption
  <2> QED
    BY <2>1, <2>2, <2>3 DEF TypeOK
<1>2. DOMAIN jobs = {}
  BY DEF Init
<1>3. \A l \in Langs : sentEmails[l] = Never
  BY DEF Init
<1>4. Windows
  BY <1>2, <1>3 DEF Windows, RememberedIn, Mine, Apart, Excused
<1>5. Attempted
  BY <1>2 DEF Attempted, Init
<1> QED
  BY <1>1, <1>4, <1>5, InParts

\* A handler that was just made.
Fresh(h) ==
    /\ h \in Handler
    /\ h.step = "contract" /\ h.read = Never /\ h.epoch = restarts /\ h.attempt = 1

\* Job(event, object, lang), whatever it carries.
LEMMA JobIsFresh ==
    ASSUME NEW event \in Events, NEW object \in Booking, NEW lang \in Langs,
           booking' \in Booking, restarts \in Nat
    PROVE  /\ Fresh(Job(event, object, lang))
           /\ \A c \in {"request", "purchase"} :
                  Fresh([Job(event, object, lang) EXCEPT !.creation = c])
           /\ Fresh([Job(event, object, lang) EXCEPT !.resets = TRUE])
<1>1. Never \in Int /\ "contract" \in Steps /\ <<>> \in Seq(MailShown)
  BY DEF Never, Steps
<1> QED
  BY <1>1 DEF Fresh, Job, Handler

\* The service writes the booking and may emit an event.
LEMMA EmitKeeps ==
    ASSUME ConstantsAssumption, IInv, booking' \in Booking,
           UNCHANGED <<now, price, sentEmails, inbox, restarts>>,
           jobs' = jobs \/ \E h : Fresh(h) /\ Emit(h)
    PROVE  IInv'
<1>1. TypeOK /\ Windows /\ Attempted
  BY InParts
<1>2. now \in Nat /\ \A j \in DOMAIN jobs : jobs[j].attempt \in Nat
  BY <1>1, HandlerTypes DEF TypeOK
<1>3. /\ jobs' \in Seq(Handler) /\ DOMAIN jobs \in SUBSET DOMAIN jobs'
      /\ \A j \in DOMAIN jobs : jobs'[j] = jobs[j]
      /\ \A j \in DOMAIN jobs' \ DOMAIN jobs : Fresh(jobs'[j])
  <2>1. CASE jobs' = jobs
    BY <1>1, <2>1 DEF TypeOK
  <2>2. ASSUME NEW h, Fresh(h), Emit(h)
        PROVE  /\ jobs' \in Seq(Handler) /\ DOMAIN jobs \in SUBSET DOMAIN jobs'
               /\ \A j \in DOMAIN jobs : jobs'[j] = jobs[j]
               /\ \A j \in DOMAIN jobs' \ DOMAIN jobs : Fresh(jobs'[j])
    <3>1. jobs' = Append(jobs, h) /\ h \in Handler /\ jobs \in Seq(Handler)
      BY <1>1, <2>2 DEF Emit, Fresh, TypeOK
    <3>2. /\ jobs' \in Seq(Handler) /\ DOMAIN jobs' = DOMAIN jobs \cup {Len(jobs) + 1}
          /\ jobs'[Len(jobs) + 1] = h /\ \A j \in DOMAIN jobs : jobs'[j] = jobs[j]
      BY <3>1
    <3> QED
      BY <2>2, <3>2
  <2> QED
    BY <2>1, <2>2
<1>4. TypeOK'
  BY <1>1, <1>3 DEF TypeOK
<1>5. Windows'
  BY <1>1, <1>2, <1>3, WindowsKeep DEF Fresh
<1>6. Attempted'
  BY <1>1, <1>3, AttemptedKeeps DEF Fresh
<1> QED
  BY <1>4, <1>5, <1>6, InPartsNext

\* A handler goes one step on with its mail.
LEMMA HandlerKeeps ==
    ASSUME ConstantsAssumption, IInv, booking' \in Booking,
           UNCHANGED <<now, price, sentEmails, inbox, restarts>>,
           NEW i \in DOMAIN jobs, NEW h \in Handler, jobs' = [jobs EXCEPT ![i] = h],
           h.event = jobs[i].event, h.lang = jobs[i].lang, h.read = jobs[i].read,
           h.epoch = jobs[i].epoch, h.attempt = jobs[i].attempt,
           \/ h.mail = jobs[i].mail /\ h.step = jobs[i].step
           \/ h.mail # <<>> /\ jobs[i].step = "user" /\ h.step = "customer"
           \/ h.mail = jobs[i].mail /\ jobs[i].step = "admin" /\ h.step = "done"
    PROVE  IInv'
<1>1. TypeOK /\ Windows /\ Attempted
  BY InParts
<1>2. now \in Nat
  BY <1>1 DEF TypeOK
<1>3. /\ jobs' \in Seq(Handler) /\ DOMAIN jobs' = DOMAIN jobs /\ jobs'[i] = h
      /\ \A j \in DOMAIN jobs \ {i} : jobs'[j] = jobs[j]
  BY <1>1 DEF TypeOK
<1>4. TypeOK'
  BY <1>1, <1>3 DEF TypeOK
<1>5. \A j \in DOMAIN jobs :
          /\ jobs'[j].event = jobs[j].event /\ jobs'[j].lang = jobs[j].lang
          /\ jobs'[j].read = jobs[j].read /\ jobs'[j].epoch = jobs[j].epoch
          /\ jobs'[j].step = "skipped" <=> jobs[j].step = "skipped"
          /\ jobs'[j].step = "contract" => jobs[j].step = "contract"
  BY <1>3
<1>6. Windows'
  BY <1>1, <1>2, <1>3, <1>5, WindowsKeep
<1>7. \A j \in DOMAIN jobs :
          /\ jobs'[j].mail = jobs[j].mail \/ jobs[j].step \in {"contract", "user"}
          /\ jobs'[j].attempt = jobs[j].attempt
          /\ \/ jobs'[j].step = jobs[j].step
             \/ jobs[j].step = "user" /\ jobs'[j].step = "customer" /\ jobs'[j].mail # <<>>
             \/ jobs[j].step = "admin" /\ jobs'[j].step = "done"
  BY <1>3
<1>8. Attempted'
  BY <1>1, <1>3, <1>7, AttemptedKeeps
<1> QED
  BY <1>4, <1>6, <1>8, InPartsNext

LEMMA CreationKeeps ==
    ASSUME ConstantsAssumption, IInv, NEW method \in Methods, NEW paid \in Int,
           NEW reserve \in BOOLEAN, NEW full \in BOOLEAN, NEW lang \in Langs,
           NEW source \in {"Web", "Dashboard"},
           Request(method, reserve, paid, full, lang)
             \/ Purchase(method, source, reserve, paid, full, lang)
    PROVE  IInv'
<1>1. restarts \in Nat
  BY DEF IInv, TypeOK
<1>2. CASE Request(method, reserve, paid, full, lang)
  <2> DEFINE made == [status |-> IF RequiresConfirmation(method) THEN "RECHAZADO" ELSE "PENDIENTE",
                      method |-> method, source |-> "Web", reserve |-> reserve,
                      paid   |-> paid, full |-> full]
             job == [Job("created", made, lang) EXCEPT !.creation = "request"]
  <2>1. made \in Booking
    BY DEF Booking, Statuses
  <2> HIDE DEF made
  <2>2. /\ booking' = made /\ UNCHANGED <<now, price, sentEmails, inbox, restarts>>
        /\ jobs' = jobs \/ Emit(job)
    BY <1>2 DEF Request, made
  <2>3. Fresh(job)
    BY <1>1, <2>1, <2>2, JobIsFresh DEF Events
  <2> QED
    BY <2>1, <2>2, <2>3, EmitKeeps
<1>3. CASE Purchase(method, source, reserve, paid, full, lang)
  <2> DEFINE made == [status |-> IF reserve \/ source = "Dashboard" THEN "APROBADO" ELSE "PENDIENTE",
                      method |-> method, source |-> source, reserve |-> reserve,
                      paid   |-> paid, full |-> full]
             shown == IF source = "Web" /\ method = "Transferencia" THEN [made EXCEPT !.reserve = TRUE]
                      ELSE made
             job == [Job("created", shown, lang) EXCEPT !.creation = "purchase"]
  <2>1. made \in Booking /\ shown \in Booking
    BY DEF Booking, Statuses
  <2> HIDE DEF made, shown
  <2>2. /\ booking' = made /\ UNCHANGED <<now, price, sentEmails, inbox, restarts>>
        /\ jobs' = jobs \/ Emit(job)
    BY <1>3 DEF Purchase, made, shown
  <2>3. Fresh(job)
    BY <1>1, <2>1, <2>2, JobIsFresh DEF Events
  <2> QED
    BY <2>1, <2>2, <2>3, EmitKeeps
<1> QED
  BY <1>2, <1>3

LEMMA ValidateKeeps ==
    ASSUME ConstantsAssumption, IInv, NEW paid \in Int, NEW isValidated \in BOOLEAN,
           NEW lang \in Langs, Validate(paid, isValidated, lang)
    PROVE  IInv'
<1> DEFINE status  == Outcome(paid, isValidated)
           credit  == booking.method = "Credito/Debito" /\ paid = 0
           changed == [booking EXCEPT !.status = status, !.paid = paid,
                                      !.reserve = IF credit THEN FALSE
                                                  ELSE IF paid = 0 THEN TRUE
                                                  ELSE IF paid >= Total THEN FALSE ELSE @]
<1>1. restarts \in Nat /\ booking \in Booking
  BY DEF IInv, TypeOK
<1>2. status \in Statuses
  BY DEF Outcome, Statuses
<1> HIDE DEF status
<1>3. changed \in Booking
  BY <1>1, <1>2 DEF Booking
<1>4. /\ ForConfirmation(changed) \in Booking
      /\ [changed EXCEPT !.reserve = TRUE] \in Booking
  BY <1>3 DEF Booking, ForConfirmation
<1> HIDE DEF changed
<1>5. /\ booking' = changed /\ UNCHANGED <<now, price, sentEmails, inbox, restarts>>
      /\ \/ jobs' = jobs
         \/ Emit(Job("confirmed", changed, lang))
         \/ Emit(Job("created", ForConfirmation(changed), lang))
         \/ Emit(Job("created", [changed EXCEPT !.reserve = TRUE], lang))
         \/ Emit(Job("rejected", changed, lang))
  BY DEF Validate, changed, status
<1>6. \A event \in Events, object \in Booking : Fresh(Job(event, object, lang))
  BY <1>1, <1>3, <1>5, JobIsFresh
<1>7. jobs' = jobs \/ \E h : Fresh(h) /\ Emit(h)
  BY <1>3, <1>4, <1>5, <1>6 DEF Events
<1> QED
  BY <1>3, <1>5, <1>7, EmitKeeps

LEMMA ConfirmKeeps ==
    ASSUME ConstantsAssumption, IInv, NEW lang \in Langs, Confirm(lang) \/ Cancel(lang)
    PROVE  IInv'
<1>1. restarts \in Nat /\ booking \in Booking
  BY DEF IInv, TypeOK
<1>2. CASE Confirm(lang)
  <2> DEFINE changed == [booking EXCEPT !.status = "APROBADO", !.reserve = FALSE, !.paid = Total]
  <2>1. changed \in Booking
    BY <1>1 DEF Booking, Statuses, ConstantsAssumption
  <2> HIDE DEF changed
  <2>2. /\ booking' = changed /\ UNCHANGED <<now, price, sentEmails, inbox, restarts>>
        /\ Emit(Job("confirmed", changed, lang))
    BY <1>2 DEF Confirm, changed
  <2>3. Fresh(Job("confirmed", changed, lang))
    BY <1>1, <2>1, <2>2, JobIsFresh DEF Events
  <2> QED
    BY <2>1, <2>2, <2>3, EmitKeeps
<1>3. CASE Cancel(lang)
  <2> DEFINE changed == [booking EXCEPT !.status = "CANCELADO"]
             job == [Job("cancelled", changed, lang) EXCEPT !.resets = TRUE]
  <2>1. changed \in Booking
    BY <1>1 DEF Booking, Statuses
  <2> HIDE DEF changed
  <2>2. /\ booking' = changed /\ UNCHANGED <<now, price, sentEmails, inbox, restarts>>
        /\ Emit(job)
    BY <1>3 DEF Cancel, changed
  <2>3. Fresh(job)
    BY <1>1, <2>1, <2>2, JobIsFresh DEF Events
  <2> QED
    BY <2>1, <2>2, <2>3, EmitKeeps
<1> QED
  BY <1>2, <1>3

LEMMA ResetPaidKeeps ==
    ASSUME ConstantsAssumption, IInv, NEW i \in DOMAIN jobs, ResetPaid(i)
    PROVE  IInv'
<1> DEFINE h == [jobs[i] EXCEPT !.object.paid = 0, !.resets = FALSE]
<1>1. jobs[i] \in Handler /\ booking \in Booking
  BY HandlerTypes DEF IInv, TypeOK
<1>2. /\ h \in Handler /\ h.event = jobs[i].event /\ h.lang = jobs[i].lang
      /\ h.read = jobs[i].read /\ h.epoch = jobs[i].epoch /\ h.attempt = jobs[i].attempt
      /\ h.mail = jobs[i].mail /\ h.step = jobs[i].step
  <2>1. [jobs[i].object EXCEPT !.paid = 0] \in Booking
    BY <1>1 DEF Handler, Booking
  <2> QED
    BY <1>1, <2>1 DEF Handler
<1>3. jobs' = [jobs EXCEPT ![i] = h]
  BY DEF ResetPaid
<1>4. booking' \in Booking /\ UNCHANGED <<now, price, sentEmails, inbox, restarts>>
  BY <1>1 DEF ResetPaid, Booking
<1> HIDE DEF h
<1> QED
  BY <1>2, <1>3, <1>4, HandlerKeeps

LEMMA RenderKeeps ==
    ASSUME ConstantsAssumption, IInv, NEW i \in DOMAIN jobs, Render(i)
    PROVE  IInv'
<1> DEFINE h == [jobs[i] EXCEPT !.step = "customer", !.mail = <<Mail(jobs[i])>>]
<1>1. jobs[i] \in Handler /\ booking \in Booking /\ price \in Int
  BY HandlerTypes DEF IInv, TypeOK
<1>2. jobs[i].object \in Booking
  BY <1>1 DEF Handler
<1>3. Mail(jobs[i]) \in MailShown
  <2>1. jobs[i].object.paid \in Int
    BY <1>2 DEF Booking
  <2>2. Template(jobs[i]) \in {"confirmation", "reserve", "cancellation", "rejection"}
    BY DEF Template
  <2>3. RowPrice(jobs[i].object) \in Int
    BY <1>1 DEF RowPrice, ConstantsAssumption
  <2> QED
    BY <2>1, <2>2, <2>3 DEF Mail, MailShown, ConstantsAssumption
<1>4. <<Mail(jobs[i])>> \in Seq(MailShown) /\ <<Mail(jobs[i])>> # <<>>
  BY <1>3
<1>5. /\ h \in Handler /\ h.event = jobs[i].event /\ h.lang = jobs[i].lang
      /\ h.read = jobs[i].read /\ h.epoch = jobs[i].epoch /\ h.attempt = jobs[i].attempt
      /\ h.mail # <<>> /\ h.step = "customer"
  BY <1>1, <1>4 DEF Handler, Steps
<1>6. /\ jobs' = [jobs EXCEPT ![i] = h] /\ jobs[i].step = "user"
      /\ UNCHANGED <<now, booking, price, sentEmails, inbox, restarts>>
  BY DEF Render
<1> HIDE DEF h
<1> QED
  BY <1>1, <1>5, <1>6, HandlerKeeps

LEMMA TellKeeps ==
    ASSUME ConstantsAssumption, IInv, NEW i \in DOMAIN jobs, Tell(i)
    PROVE  IInv'
<1> DEFINE h == [jobs[i] EXCEPT !.step = "done"]
<1>1. jobs[i] \in Handler /\ booking \in Booking
  BY HandlerTypes DEF IInv, TypeOK
<1>2. /\ h \in Handler /\ h.event = jobs[i].event /\ h.lang = jobs[i].lang
      /\ h.read = jobs[i].read /\ h.epoch = jobs[i].epoch /\ h.attempt = jobs[i].attempt
      /\ h.mail = jobs[i].mail /\ h.step = "done"
  BY <1>1 DEF Handler, Steps, Ended
<1>3. /\ jobs' = [jobs EXCEPT ![i] = h] /\ jobs[i].step = "admin"
      /\ UNCHANGED <<now, booking, price, sentEmails, inbox, restarts>>
  BY DEF Tell
<1> HIDE DEF h
<1> QED
  BY <1>1, <1>2, <1>3, HandlerKeeps

LEMMA ReadContractKeeps ==
    ASSUME ConstantsAssumption, IInv, NEW i \in DOMAIN jobs, ReadContract(i)
    PROVE  IInv'
<1>1. TypeOK /\ Windows /\ Attempted
  BY InParts
<1>2. TypeOK' /\ Windows'
  BY <1>1, ReadContractWindows
<1>3. jobs[i].step = "contract" /\ inbox' = inbox
  BY DEF ReadContract
<1>4. PICK next \in {"skipped", "user"} :
          jobs' = [jobs EXCEPT ![i].step = next, ![i].read = now]
  BY DEF ReadContract
<1>5. jobs[i] \in Handler
  BY <1>1, HandlerTypes
<1>6. jobs'[i] = [jobs[i] EXCEPT !.step = next, !.read = now] /\ DOMAIN jobs' = DOMAIN jobs
  BY <1>1, <1>4 DEF TypeOK
<1>7. /\ jobs'[i].mail = jobs[i].mail /\ jobs'[i].attempt = jobs[i].attempt
      /\ jobs'[i].step = next
  BY <1>5, <1>6 DEF Handler
<1>8. \A j \in DOMAIN jobs \ {i} : jobs'[j] = jobs[j]
  BY <1>1, <1>4 DEF TypeOK
<1>9. \A j \in DOMAIN jobs :
          /\ jobs'[j].mail = jobs[j].mail
          /\ jobs'[j].attempt = jobs[j].attempt
          /\ \/ jobs'[j].step = jobs[j].step
             \/ jobs[j].step = "contract" /\ jobs'[j].step = "user"
             \/ jobs'[j].step \in {"failed", "skipped", "lost"}
  BY <1>3, <1>7, <1>8
<1>10. Attempted'
  BY <1>1, <1>3, <1>6, <1>9, AttemptedKeeps
<1> QED
  BY <1>2, <1>10, InPartsNext

LEMMA SendKeeps ==
    ASSUME ConstantsAssumption, IInv, NEW i \in DOMAIN jobs, Send(i)
    PROVE  IInv'
<1>1. TypeOK /\ Windows /\ Attempted
  BY InParts
<1>2. Attempted' /\ inbox' \in SUBSET Copy
  BY <1>1, SendAttempted
<1>3. PICK h \in Handler :
          /\ jobs' = [jobs EXCEPT ![i] = h]
          /\ h.event = jobs[i].event /\ h.lang = jobs[i].lang
          /\ h.read = jobs[i].read /\ h.epoch = jobs[i].epoch
          /\ h.step \notin {"skipped", "contract"} /\ jobs[i].step = "customer"
  BY <1>1, SendAttempted
<1>4. /\ jobs' \in Seq(Handler) /\ DOMAIN jobs' = DOMAIN jobs /\ jobs'[i] = h
      /\ \A j \in DOMAIN jobs \ {i} : jobs'[j] = jobs[j]
  BY <1>1, <1>3 DEF TypeOK
<1>5. UNCHANGED <<now, booking, price, sentEmails, restarts>>
  BY DEF Send
<1>6. TypeOK'
  BY <1>1, <1>2, <1>4, <1>5 DEF TypeOK
<1>7. now' \in Nat /\ now <= now'
  BY <1>1, <1>5 DEF TypeOK
<1>8. Windows'
  BY <1>1, <1>3, <1>4, <1>5, <1>7, WindowsKeep
<1> QED
  BY <1>2, <1>6, <1>8, InPartsNext

LEMMA TickKeeps ==
    ASSUME ConstantsAssumption, IInv, Tick
    PROVE  IInv'
<1>1. TypeOK /\ Windows /\ Attempted
  BY InParts
<1>2. /\ now' = now + 1 /\ price' \in {price, Total + 1}
      /\ UNCHANGED <<booking, jobs, sentEmails, inbox, restarts>>
  BY DEF Tick
<1>3. TypeOK' /\ now <= now'
  BY <1>1, <1>2 DEF TypeOK, ConstantsAssumption
<1>4. now' \in Nat
  BY <1>3 DEF TypeOK
<1>5. Windows'
  BY <1>1, <1>2, <1>3, <1>4, WindowsKeep
<1>6. Attempted'
  BY <1>1, <1>2, AttemptedKeeps
<1> QED
  BY <1>3, <1>5, <1>6, InPartsNext

LEMMA RestartKeeps ==
    ASSUME ConstantsAssumption, IInv, Restart
    PROVE  IInv'
<1>1. TypeOK /\ Windows /\ Attempted
  BY InParts
<1>2. TypeOK' /\ Windows'
  BY <1>1, RestartWindows
<1>3. inbox' = inbox
      /\ jobs' = [j \in DOMAIN jobs |->
                     [jobs[j] EXCEPT !.step = IF @ \in Ended THEN @ ELSE "lost", !.resets = FALSE]]
  BY DEF Restart
<1>4. ASSUME NEW j \in DOMAIN jobs
      PROVE  /\ jobs'[j].mail = jobs[j].mail /\ jobs'[j].attempt = jobs[j].attempt
             /\ jobs'[j].step = jobs[j].step \/ jobs'[j].step = "lost"
  <2>1. jobs[j] \in Handler
    BY <1>1, HandlerTypes
  <2>2. jobs'[j] = [jobs[j] EXCEPT !.step = IF @ \in Ended THEN @ ELSE "lost", !.resets = FALSE]
    BY <1>3
  <2> QED
    BY <2>1, <2>2 DEF Handler
<1>5. DOMAIN jobs' = DOMAIN jobs
  BY <1>3
<1>6. Attempted'
  BY <1>1, <1>3, <1>4, <1>5, AttemptedKeeps
<1> QED
  BY <1>2, <1>6, InPartsNext

\* The inductive invariant holds of every behaviour.
THEOREM IInvariance ==
    ASSUME ConstantsAssumption
    PROVE  Spec => []IInv
<1>1. Init => IInv
  BY InitHolds
<1>2. IInv /\ [Next]_vars => IInv'
  <2> SUFFICES ASSUME IInv, [Next]_vars
               PROVE  IInv'
    OBVIOUS
  <2>1. ASSUME NEW lang \in Langs, NEW method \in Methods, NEW paid \in {0, Deposit, Total},
               NEW reserve \in BOOLEAN, NEW full \in BOOLEAN,
               Request(method, reserve, paid, full, lang)
                 \/ \E source \in {"Web", "Dashboard"} :
                       Purchase(method, source, reserve, paid, full, lang)
        PROVE  IInv'
    <3>1. paid \in Int
      BY DEF ConstantsAssumption
    <3> QED
      BY <2>1, <3>1, CreationKeeps
  <2>2. ASSUME NEW lang \in Langs, NEW paid \in {0, Deposit, Total}, NEW isValidated \in BOOLEAN,
               Validate(paid, isValidated, lang)
        PROVE  IInv'
    <3>1. paid \in Int
      BY DEF ConstantsAssumption
    <3> QED
      BY <2>2, <3>1, ValidateKeeps
  <2>3. ASSUME NEW lang \in Langs, Confirm(lang) \/ Cancel(lang)
        PROVE  IInv'
    BY <2>3, ConfirmKeeps
  <2>4. ASSUME NEW i \in DOMAIN jobs,
               ResetPaid(i) \/ ReadContract(i) \/ Render(i) \/ Send(i) \/ Tell(i)
        PROVE  IInv'
    BY <2>4, ResetPaidKeeps, ReadContractKeeps, RenderKeeps, SendKeeps, TellKeeps
  <2>5. CASE Tick
    BY <2>5, TickKeeps
  <2>6. CASE Restart
    BY <2>6, RestartKeeps
  <2>7. CASE UNCHANGED vars
    <3>1. booking' \in Booking /\ UNCHANGED <<now, price, sentEmails, inbox, restarts, jobs>>
      BY <2>7 DEF vars, IInv, TypeOK
    <3> QED
      BY <3>1, EmitKeeps
  <2> QED
    BY <2>1, <2>2, <2>3, <2>4, <2>5, <2>6, <2>7 DEF Next
<1> QED
  BY <1>1, <1>2, PTL DEF Spec

\* sentEmails and DEDUP_WINDOW_MS (NotificationEventService): no two mails with one key are
\* registered within the window by one process, and none is dropped without such a one.
THEOREM WindowHolds ==
    ASSUME ConstantsAssumption
    PROVE  Spec => []Deduplicates
<1>1. IInv => Deduplicates
  BY DEF IInv
<1> QED
  BY <1>1, IInvariance, PTL

\* sendEmailWithBrevo: no customer gets a mail more often than it is tried, all copies are the
\* same, and the business hears of nothing that the mail service did not take for the customer.
THEOREM RetriesAreBounded ==
    ASSUME ConstantsAssumption
    PROVE  Spec => []CopiesAreBounded
<1>1. IInv => CopiesAreBounded
  BY DEF IInv, Attempted, CopiesAreBounded, Copies
<1> QED
  BY <1>1, IInvariance, PTL

-----------------------------------------------------------------------------
(***************************************************************************)
(* What the mails say.                                                     *)
(***************************************************************************)

\* The methods of payment that the service knows by name, and amounts in their order.  With
\* another one a purchase from the web would be called confirmed while it is pending.
KnownMethods == Methods \subseteq {"Credito/Debito", "Efectivo", "Transferencia"}

Amounts == 0 <= Deposit /\ Deposit <= Total

\* What a mail of a handler must say.
Tells(job, mail) ==
    /\ job.event \in {"created", "confirmed"} => mail.template \in {"confirmation", "reserve"}
    /\ job.event = "cancelled" => mail.template = "cancellation"
    /\ job.was.status = "APROBADO" /\ job.creation = "no" => mail.template = "confirmation"
    /\ job.was.status = "PENDIENTE" /\ job.creation # "request" => mail.template = "reserve"
    /\ job.was.status = "RECHAZADO" => mail.template = "rejection"
    /\ job.was.status # "CANCELADO" => mail.paid = job.was.paid
    /\ mail.balance >= 0
    /\ job.object.full => mail.row = Total

\* A handler has something true to tell, as long as the service does not change its object,
\* and may change nothing but what is paid of a booking that is cancelled.
Meant(job) ==
    /\ job.was.status = "APROBADO" /\ job.creation = "no" => Template(job) = "confirmation"
    /\ job.was.status = "PENDIENTE" /\ job.creation # "request" => Template(job) = "reserve"
    /\ job.was.status = "RECHAZADO" => Template(job) = "rejection"
    /\ job.was.status # "CANCELADO" => job.object.paid = job.was.paid
    /\ job.object.paid <= Total
    /\ job.resets => job.was.status = "CANCELADO"

Truthful(job) == Meant(job) /\ (job.mail # <<>> => Tells(job, job.mail[1]))

\* Mails are of handlers that wrote them, and an approved or cancelled booking has a handler
\* that is to tell of it, unless it was approved at its creation without an event.
Truth ==
    /\ booking.status = "none" => jobs = <<>>
    /\ booking.paid <= Total
    /\ booking.status = "APROBADO" /\ jobs # <<>> =>
          \E j \in DOMAIN jobs : jobs[j].event \in {"created", "confirmed"}
    /\ booking.status = "CANCELADO" => \E j \in DOMAIN jobs : jobs[j].event = "cancelled"
    /\ \A j \in DOMAIN jobs : Truthful(jobs[j])
    /\ \A m \in inbox : jobs[m.job].mail # <<>>

\* The service writes the booking and may emit an event that is meant.
LEMMA EmitTells ==
    ASSUME IInv, Truth, UNCHANGED inbox, booking'.paid <= Total, booking'.status # "none",
           NEW h, Meant(h), h.mail = <<>>,
           jobs' = jobs \/ Emit(h),
           booking'.status = "APROBADO" =>
               \/ jobs' = jobs /\ jobs = <<>>
               \/ Emit(h) /\ h.event \in {"created", "confirmed"},
           booking'.status = "CANCELADO" => Emit(h) /\ h.event = "cancelled"
    PROVE  Truth'
<1>1. jobs \in Seq(Handler)
  BY DEF IInv, TypeOK
<1>2. \A m \in inbox : m.job \in DOMAIN jobs
  BY DEF IInv, Attempted
<1>3. Truthful(h)
  BY DEF Truthful
<1>4. CASE jobs' = jobs
  <2>1. (booking.status = "APROBADO" /\ jobs # <<>>)' => Emit(h)
    BY <1>4
  <2>2. ~Emit(h)
    BY <1>1, <1>4 DEF Emit
  <2> QED
    BY <1>4, <2>1, <2>2 DEF Truth
<1>5. CASE Emit(h)
  <2>1. /\ DOMAIN jobs' = DOMAIN jobs \cup {Len(jobs) + 1} /\ jobs'[Len(jobs) + 1] = h
        /\ \A j \in DOMAIN jobs : jobs'[j] = jobs[j]
    BY <1>1, <1>5 DEF Emit
  <2>2. (\A j \in DOMAIN jobs : Truthful(jobs[j]))'
    BY <1>3, <2>1 DEF Truth
  <2>3. (\A m \in inbox : jobs[m.job].mail # <<>>)'
    BY <1>2, <2>1 DEF Truth
  <2>4. jobs' # jobs
    BY <1>1, <1>5 DEF Emit
  <2> QED
    BY <2>1, <2>2, <2>3, <2>4 DEF Truth
<1> QED
  BY <1>4, <1>5

\* Handlers go on, and what they tell stays true.
LEMMA HandlersTell ==
    ASSUME IInv, Truth, booking'.status = booking.status, booking'.paid <= Total,
           DOMAIN jobs' = DOMAIN jobs, jobs' = <<>> <=> jobs = <<>>,
           \A j \in DOMAIN jobs : /\ jobs'[j].event = jobs[j].event
                                  /\ Truthful(jobs'[j])
                                  /\ jobs[j].mail # <<>> => jobs'[j].mail # <<>>,
           \A m \in inbox' : m \in inbox \/ jobs'[m.job].mail # <<>>
    PROVE  Truth'
<1>1. \A m \in inbox : m.job \in DOMAIN jobs
  BY DEF IInv, Attempted
<1>2. (\A m \in inbox : jobs[m.job].mail # <<>>)'
  BY <1>1 DEF Truth
<1> QED
  BY <1>2 DEF Truth

\* What a handler tells depends on its event, its object and what was.
LEMMA TruthfulLike ==
    ASSUME NEW job, NEW h, Truthful(job), h.event = job.event, h.object = job.object,
           h.was = job.was, h.creation = job.creation, h.mail = job.mail, h.resets => job.resets
    PROVE  Truthful(h)
BY DEF Truthful, Meant, Tells, Template, EffectiveReserve

\* BookingService.create and addManualBookingInUserFromCart
LEMMA CreationTells ==
    ASSUME ConstantsAssumption, KnownMethods, Amounts, IInv, Truth,
           NEW method \in Methods, NEW paid \in {0, Deposit, Total},
           NEW reserve \in BOOLEAN, NEW full \in BOOLEAN, NEW lang \in Langs,
           NEW source \in {"Web", "Dashboard"},
           Request(method, reserve, paid, full, lang)
             \/ Purchase(method, source, reserve, paid, full, lang)
    PROVE  Truth'
<1>1. paid <= Total
  BY DEF Amounts, ConstantsAssumption
<1>2. jobs = <<>>
  BY DEF Truth, Request, Purchase
<1>3. CASE Request(method, reserve, paid, full, lang)
  <2> DEFINE made == [status |-> IF RequiresConfirmation(method) THEN "RECHAZADO" ELSE "PENDIENTE",
                      method |-> method, source |-> "Web", reserve |-> reserve,
                      paid   |-> paid, full |-> full]
             h == [Job("created", made, lang) EXCEPT !.creation = "request"]
  <2>1. /\ booking' = made /\ UNCHANGED inbox
        /\ IF RequiresConfirmation(method) THEN jobs' = jobs ELSE Emit(h)
    BY <1>3 DEF Request
  <2>2. /\ h.was = made /\ h.object = made /\ h.creation = "request" /\ h.event = "created"
        /\ h.mail = <<>> /\ ~h.resets
    BY <2>1 DEF Job
  <2>3. /\ made.status \in {"RECHAZADO", "PENDIENTE"} /\ made.paid = paid
        /\ ~RequiresConfirmation(method) => made.status = "PENDIENTE"
    OBVIOUS
  <2> HIDE DEF made, h
  <2>4. CASE RequiresConfirmation(method)
    BY <1>1, <1>2, <2>1, <2>3, <2>4 DEF Truth, IInv, Attempted
  <2>5. CASE ~RequiresConfirmation(method)
    <3>1. Meant(h)
      BY <1>1, <2>2, <2>3, <2>5 DEF Meant
    <3> QED
      BY <1>1, <2>1, <2>2, <2>3, <2>5, <3>1, EmitTells
  <2> QED
    BY <2>4, <2>5
<1>4. CASE Purchase(method, source, reserve, paid, full, lang)
  <2> DEFINE made == [status |-> IF reserve \/ source = "Dashboard" THEN "APROBADO" ELSE "PENDIENTE",
                      method |-> method, source |-> source, reserve |-> reserve,
                      paid   |-> paid, full |-> full]
             shown == IF source = "Web" /\ method = "Transferencia" THEN [made EXCEPT !.reserve = TRUE]
                      ELSE made
             h == [Job("created", shown, lang) EXCEPT !.creation = "purchase"]
  <2>1. /\ booking' = made /\ UNCHANGED inbox
        /\ IF source = "Dashboard" \/ ~RequiresConfirmation(method) THEN Emit(h) ELSE jobs' = jobs
    BY <1>4 DEF Purchase
  <2>2. /\ h.was = made /\ h.object = shown /\ h.creation = "purchase" /\ h.event = "created"
        /\ h.mail = <<>> /\ ~h.resets
    BY <2>1 DEF Job
  <2>3. /\ made.status \in {"APROBADO", "PENDIENTE"} /\ made.paid = paid /\ shown.paid = paid
        /\ shown.status = made.status
        /\ made.status = "PENDIENTE" => source = "Web"
        /\ source = "Web" /\ method = "Transferencia" => shown.reserve
    OBVIOUS
  <2> HIDE DEF made, shown, h
  <2>4. CASE ~(source = "Dashboard" \/ ~RequiresConfirmation(method))
    BY <1>1, <1>2, <2>1, <2>3, <2>4 DEF Truth, IInv, Attempted
  <2>5. CASE source = "Dashboard" \/ ~RequiresConfirmation(method)
    <3>1. made.status = "PENDIENTE" => shown.reserve
      BY <2>3, <2>5 DEF RequiresConfirmation, KnownMethods
    <3>2. made.status = "PENDIENTE" => Template(h) = "reserve"
      BY <2>2, <2>3, <3>1 DEF Template, EffectiveReserve
    <3>3. Meant(h)
      BY <1>1, <2>2, <2>3, <3>2 DEF Meant
    <3> QED
      BY <1>1, <2>1, <2>2, <2>3, <2>5, <3>3, EmitTells
  <2> QED
    BY <2>4, <2>5
<1> QED
  BY <1>3, <1>4

\* validateBooking
LEMMA ValidateTells ==
    ASSUME ConstantsAssumption, Amounts, IInv, Truth, NEW paid \in {0, Deposit, Total},
           NEW isValidated \in BOOLEAN, NEW lang \in Langs, Validate(paid, isValidated, lang)
    PROVE  Truth'
<1> DEFINE status  == Outcome(paid, isValidated)
           credit  == booking.method = "Credito/Debito" /\ paid = 0
           changed == [booking EXCEPT !.status = status, !.paid = paid,
                                      !.reserve = IF credit THEN FALSE
                                                  ELSE IF paid = 0 THEN TRUE
                                                  ELSE IF paid >= Total THEN FALSE ELSE @]
           pending == [changed EXCEPT !.reserve = TRUE]
<1>1. paid <= Total /\ booking \in Booking
  BY DEF Amounts, ConstantsAssumption, IInv, TypeOK
<1>2. status \in {"APROBADO", "PENDIENTE", "RECHAZADO"}
  BY DEF Outcome
<1> HIDE DEF status
<1>3. changed.status = status /\ changed.paid = paid
  BY <1>1 DEF Booking
<1>4. /\ ForConfirmation(changed).paid = paid /\ ~ForConfirmation(changed).reserve
      /\ pending.paid = paid /\ pending.reserve /\ pending.status = status
  <2> DEFINE res == IF credit THEN FALSE ELSE IF paid = 0 THEN TRUE
                    ELSE IF paid >= Total THEN FALSE ELSE booking.reserve
  <2>1. changed = [booking EXCEPT !.status = status, !.paid = paid, !.reserve = res]
    OBVIOUS
  <2> HIDE DEF res
  <2>2. DOMAIN changed = DOMAIN booking /\ "paid" \in DOMAIN booking /\ "reserve" \in DOMAIN booking
        /\ "status" \in DOMAIN booking
    BY <1>1, <2>1 DEF Booking
  <2> HIDE DEF changed
  <2> QED
    BY <1>3, <2>2 DEF ForConfirmation
<1> HIDE DEF changed, pending
<1>5. booking' = changed /\ UNCHANGED inbox
  BY DEF Validate, changed, status
<1>6. \A event, object :
         LET h == Job(event, object, lang)
         IN  /\ h.was = changed /\ h.object = object /\ h.creation = "no" /\ h.event = event
             /\ h.mail = <<>> /\ ~h.resets
  BY <1>5 DEF Job
<1>7. CASE status = "APROBADO"
  <2>1. PICK event \in {"confirmed", "created"}, object \in {changed, ForConfirmation(changed)} :
            Emit(Job(event, object, lang)) /\ ~object.reserve
    <3>1. CASE booking.reserve /\ ~changed.reserve
      <4>1. Emit(Job("confirmed", changed, lang))
        BY <1>7, <3>1 DEF Validate, changed, status
      <4> QED
        BY <3>1, <4>1
    <3>2. CASE ~(booking.reserve /\ ~changed.reserve)
      <4>1. Emit(Job("created", ForConfirmation(changed), lang))
        BY <1>7, <3>2 DEF Validate, changed, status
      <4> QED
        BY <1>4, <4>1
    <3> QED
      BY <3>1, <3>2
  <2> DEFINE h == Job(event, object, lang)
  <2>2. /\ h.was = changed /\ h.object = object /\ h.creation = "no" /\ h.event = event
        /\ h.mail = <<>> /\ ~h.resets
    BY <1>6
  <2>3. object.paid = paid
    BY <1>3, <1>4
  <2>4. Emit(h)
    BY <2>1
  <2> HIDE DEF h
  <2>5. Template(h) = "confirmation"
    BY <2>1, <2>2 DEF Template, EffectiveReserve
  <2>6. Meant(h)
    BY <1>1, <1>3, <1>7, <2>2, <2>3, <2>5 DEF Meant
  <2> QED
    BY <1>1, <1>3, <1>5, <1>7, <2>2, <2>4, <2>6, EmitTells
<1>8. CASE status = "PENDIENTE"
  <2> DEFINE h == Job("created", pending, lang)
  <2>1. /\ h.was = changed /\ h.object = pending /\ h.creation = "no" /\ h.event = "created"
        /\ h.mail = <<>> /\ ~h.resets
    BY <1>6
  <2>2. Emit(h)
    BY <1>8 DEF Validate, changed, pending, status
  <2> HIDE DEF h
  <2>3. Template(h) = "reserve"
    BY <1>4, <1>8, <2>1 DEF Template, EffectiveReserve
  <2>4. Meant(h)
    BY <1>1, <1>3, <1>4, <1>8, <2>1, <2>3 DEF Meant
  <2> QED
    BY <1>1, <1>3, <1>5, <1>8, <2>1, <2>2, <2>4, EmitTells
<1>9. CASE status = "RECHAZADO"
  <2> DEFINE h == Job("rejected", changed, lang)
  <2>1. /\ h.was = changed /\ h.object = changed /\ h.creation = "no" /\ h.event = "rejected"
        /\ h.mail = <<>> /\ ~h.resets
    BY <1>6
  <2>2. jobs' = jobs \/ Emit(h)
    BY <1>9 DEF Validate, changed, status
  <2> HIDE DEF h
  <2>3. Template(h) = "rejection"
    BY <2>1 DEF Template
  <2>4. Meant(h)
    BY <1>1, <1>3, <1>9, <2>1, <2>3 DEF Meant
  <2> QED
    BY <1>1, <1>3, <1>5, <1>9, <2>1, <2>2, <2>4, EmitTells
<1> QED
  BY <1>2, <1>7, <1>8, <1>9

\* confirmReservation and cancelBooking
LEMMA ConfirmTells ==
    ASSUME ConstantsAssumption, IInv, Truth, NEW lang \in Langs, Confirm(lang) \/ Cancel(lang)
    PROVE  Truth'
<1>1. booking \in Booking /\ Total \in Int
  BY DEF IInv, TypeOK, ConstantsAssumption
<1>2. CASE Confirm(lang)
  <2> DEFINE changed == [booking EXCEPT !.status = "APROBADO", !.reserve = FALSE, !.paid = Total]
             h == Job("confirmed", changed, lang)
  <2>1. changed.status = "APROBADO" /\ ~changed.reserve /\ changed.paid = Total
    BY <1>1 DEF Booking
  <2>2. booking' = changed /\ UNCHANGED inbox /\ Emit(h)
    BY <1>2 DEF Confirm
  <2>3. /\ h.was = changed /\ h.object = changed /\ h.creation = "no" /\ h.event = "confirmed"
        /\ h.mail = <<>> /\ ~h.resets
    BY <2>2 DEF Job
  <2> HIDE DEF changed, h
  <2>4. Template(h) = "confirmation"
    BY <2>1, <2>3 DEF Template, EffectiveReserve
  <2>5. Meant(h)
    BY <1>1, <2>1, <2>3, <2>4 DEF Meant
  <2> QED
    BY <1>1, <2>1, <2>2, <2>3, <2>5, EmitTells
<1>3. CASE Cancel(lang)
  <2> DEFINE changed == [booking EXCEPT !.status = "CANCELADO"]
             h == [Job("cancelled", changed, lang) EXCEPT !.resets = TRUE]
  <2>1. changed.status = "CANCELADO" /\ changed.paid = booking.paid
    BY <1>1 DEF Booking
  <2>2. booking' = changed /\ UNCHANGED inbox /\ Emit(h)
    BY <1>3 DEF Cancel
  <2>3. /\ h.was = changed /\ h.object = changed /\ h.creation = "no" /\ h.event = "cancelled"
        /\ h.mail = <<>>
    BY <2>2 DEF Job
  <2> HIDE DEF changed, h
  <2>4. changed.paid <= Total
    BY <2>1 DEF Truth
  <2>5. Meant(h)
    BY <2>1, <2>3, <2>4 DEF Meant
  <2> QED
    BY <2>1, <2>2, <2>3, <2>4, <2>5, EmitTells
<1> QED
  BY <1>2, <1>3

\* The second write of cancelBooking takes what was paid from the object of its event, of
\* which nobody but a cancellation's handler makes a mail.
LEMMA ResetPaidTells ==
    ASSUME ConstantsAssumption, Amounts, IInv, Truth, NEW i \in DOMAIN jobs, ResetPaid(i)
    PROVE  Truth'
<1> DEFINE h == [jobs[i] EXCEPT !.object.paid = 0, !.resets = FALSE]
<1>1. TypeOK
  BY DEF IInv
<1>2. jobs[i] \in Handler /\ booking \in Booking /\ jobs \in Seq(Handler)
  BY <1>1, HandlerTypes DEF TypeOK
<1>3. jobs[i].object \in Booking
  BY <1>2 DEF Handler
<1>4. /\ h.event = jobs[i].event /\ h.was = jobs[i].was /\ h.creation = jobs[i].creation
      /\ h.mail = jobs[i].mail /\ ~h.resets
      /\ h.object = [jobs[i].object EXCEPT !.paid = 0]
  BY <1>2 DEF Handler
<1>5. jobs' = [jobs EXCEPT ![i] = h] /\ jobs[i].resets /\ UNCHANGED inbox
  BY DEF ResetPaid
<1>6. booking'.status = booking.status /\ booking'.paid = 0
  BY <1>2 DEF ResetPaid, Booking
<1> HIDE DEF h
<1>7. /\ h.object.paid = 0 /\ h.object.full = jobs[i].object.full
      /\ h.object.reserve = jobs[i].object.reserve /\ h.object.method = jobs[i].object.method
      /\ h.object.status = jobs[i].object.status
  BY <1>3, <1>4 DEF Booking
<1>8. Truthful(jobs[i]) /\ jobs[i].was.status = "CANCELADO"
  BY <1>5 DEF Truth, Truthful, Meant
<1>9. 0 <= Total
  BY DEF Amounts, ConstantsAssumption
<1>10. Truthful(h)
  BY <1>4, <1>7, <1>8, <1>9 DEF Truthful, Meant, Tells
<1>11. /\ DOMAIN jobs' = DOMAIN jobs /\ jobs'[i] = h
       /\ \A j \in DOMAIN jobs \ {i} : jobs'[j] = jobs[j]
  BY <1>2, <1>5
<1>12. jobs' = <<>> <=> jobs = <<>>
  BY <1>2, <1>5, <1>11
<1>13. \A j \in DOMAIN jobs : /\ jobs'[j].event = jobs[j].event
                              /\ Truthful(jobs'[j])
                              /\ jobs[j].mail # <<>> => jobs'[j].mail # <<>>
  BY <1>4, <1>10, <1>11 DEF Truth
<1> QED
  BY <1>5, <1>6, <1>9, <1>11, <1>12, <1>13, HandlersTell

\* A handler writes what it means to tell.
LEMMA RenderTells ==
    ASSUME ConstantsAssumption, Amounts, IInv, Truth, NEW i \in DOMAIN jobs, Render(i)
    PROVE  Truth'
<1> DEFINE mail == Mail(jobs[i])
           h == [jobs[i] EXCEPT !.step = "customer", !.mail = <<mail>>]
<1>1. TypeOK
  BY DEF IInv
<1>2. jobs[i] \in Handler /\ jobs \in Seq(Handler)
  BY <1>1, HandlerTypes DEF TypeOK
<1>3. /\ mail.template = Template(jobs[i]) /\ mail.paid = jobs[i].object.paid
      /\ mail.balance = Total - jobs[i].object.paid /\ (jobs[i].object.full => mail.row = Total)
  BY DEF Mail, RowPrice
<1>4. Truthful(jobs[i]) /\ jobs[i].object \in Booking
  BY <1>2 DEF Truth, Handler
<1>5. mail.balance >= 0
  BY <1>3, <1>4 DEF Truthful, Meant, Booking, ConstantsAssumption
<1>6. /\ jobs[i].event \in {"created", "confirmed"} => Template(jobs[i]) \in {"confirmation", "reserve"}
      /\ jobs[i].event = "cancelled" => Template(jobs[i]) = "cancellation"
  BY DEF Template
<1> HIDE DEF mail
<1>7. Tells(jobs[i], mail)
  BY <1>3, <1>4, <1>5, <1>6 DEF Truthful, Meant, Tells
<1>8. /\ h.event = jobs[i].event /\ h.was = jobs[i].was /\ h.creation = jobs[i].creation
      /\ h.object = jobs[i].object /\ h.resets = jobs[i].resets /\ h.mail = <<mail>>
  BY <1>2 DEF Handler
<1>9. jobs' = [jobs EXCEPT ![i] = h] /\ UNCHANGED <<booking, inbox>>
  BY DEF Render, mail
<1> HIDE DEF h
<1>10. h.mail # <<>> /\ h.mail[1] = mail
  BY <1>8
<1>11. Truthful(h)
  BY <1>4, <1>7, <1>8, <1>10 DEF Truthful, Meant, Tells, Template, EffectiveReserve
<1>12. /\ DOMAIN jobs' = DOMAIN jobs /\ jobs'[i] = h
       /\ \A j \in DOMAIN jobs \ {i} : jobs'[j] = jobs[j]
  BY <1>2, <1>9
<1>13. jobs' = <<>> <=> jobs = <<>>
  BY <1>2, <1>9, <1>12
<1>14. \A j \in DOMAIN jobs : /\ jobs'[j].event = jobs[j].event
                              /\ Truthful(jobs'[j])
                              /\ jobs[j].mail # <<>> => jobs'[j].mail # <<>>
  BY <1>8, <1>10, <1>11, <1>12 DEF Truth
<1>15. booking'.paid <= Total
  BY <1>9 DEF Truth
<1> QED
  BY <1>9, <1>12, <1>13, <1>14, <1>15, HandlersTell

\* Other steps of a handler: the mail it has written is the one it sends.
LEMMA StepTells ==
    ASSUME ConstantsAssumption, IInv, Truth, NEW i \in DOMAIN jobs,
           ReadContract(i) \/ Send(i) \/ Tell(i)
    PROVE  Truth'
<1>1. TypeOK
  BY DEF IInv
<1>2. jobs[i] \in Handler /\ jobs \in Seq(Handler)
  BY <1>1, HandlerTypes DEF TypeOK
<1>3. \E h : /\ jobs' = [jobs EXCEPT ![i] = h] /\ h.event = jobs[i].event /\ h.was = jobs[i].was
             /\ h.creation = jobs[i].creation /\ h.object = jobs[i].object
             /\ h.resets = jobs[i].resets /\ h.mail = jobs[i].mail
  <2> DEFINE Same(h) == /\ h.event = jobs[i].event /\ h.was = jobs[i].was
                        /\ h.creation = jobs[i].creation /\ h.object = jobs[i].object
                        /\ h.resets = jobs[i].resets /\ h.mail = jobs[i].mail
  <2>1. \A step, read : /\ Same([jobs[i] EXCEPT !.step = step])
                        /\ Same([jobs[i] EXCEPT !.step = step, !.read = read])
    BY <1>2 DEF Handler
  <2>2. Same([jobs[i] EXCEPT !.attempt = @ + 1])
    BY <1>2 DEF Handler
  <2>3. \E h : jobs' = [jobs EXCEPT ![i] = h] /\ Same(h)
    <3> HIDE DEF Same
    <3>1. CASE ReadContract(i)
      <4>1. PICK step : jobs' = [jobs EXCEPT ![i] = [jobs[i] EXCEPT !.step = step, !.read = now]]
        <5>1. CASE jobs[i].event = "created" /\ Repeated(jobs[i].lang)
          <6>1. jobs' = [jobs EXCEPT ![i] = [jobs[i] EXCEPT !.step = "skipped", !.read = now]]
            BY <3>1, <5>1 DEF ReadContract
          <6> QED
            BY <6>1
        <5>2. CASE ~(jobs[i].event = "created" /\ Repeated(jobs[i].lang))
          <6>1. jobs' = [jobs EXCEPT ![i] = [jobs[i] EXCEPT !.step = "user", !.read = now]]
            BY <3>1, <5>2 DEF ReadContract
          <6> QED
            BY <6>1
        <5> QED
          BY <5>1, <5>2
      <4>2. Same([jobs[i] EXCEPT !.step = step, !.read = now])
        BY <2>1
      <4> QED
        BY <4>1, <4>2
    <3>2. CASE Tell(i)
      <4>1. jobs' = [jobs EXCEPT ![i] = [jobs[i] EXCEPT !.step = "done"]]
        BY <3>2 DEF Tell
      <4> QED
        BY <2>1, <4>1
    <3>3. CASE Send(i)
      <4>1. \/ \E step : jobs' = [jobs EXCEPT ![i] = [jobs[i] EXCEPT !.step = step]]
            \/ jobs' = [jobs EXCEPT ![i] = [jobs[i] EXCEPT !.attempt = @ + 1]]
        <5>1. CASE jobs' = [jobs EXCEPT ![i] = AfterSuccess(@)]
          BY <5>1 DEF AfterSuccess
        <5>2. CASE jobs' = [jobs EXCEPT ![i] = AfterFailure(@)]
          BY <5>2 DEF AfterFailure
        <5>3. CASE jobs' = [jobs EXCEPT ![i].step = "failed"]
          <6>1. jobs' = [jobs EXCEPT ![i] = [jobs[i] EXCEPT !.step = "failed"]]
            BY <5>3
          <6> QED
            BY <6>1
        <5> QED
          BY <3>3, <5>1, <5>2, <5>3 DEF Send
      <4> QED
        BY <2>1, <2>2, <4>1
    <3> QED
      BY <3>1, <3>2, <3>3
  <2> QED
    BY <2>3
<1>4. PICK h : /\ jobs' = [jobs EXCEPT ![i] = h] /\ h.event = jobs[i].event /\ h.was = jobs[i].was
               /\ h.creation = jobs[i].creation /\ h.object = jobs[i].object
               /\ h.resets = jobs[i].resets /\ h.mail = jobs[i].mail
  BY <1>3
<1>5. Truthful(h)
  BY <1>4, TruthfulLike DEF Truth
<1>6. /\ DOMAIN jobs' = DOMAIN jobs /\ jobs'[i] = h
      /\ \A j \in DOMAIN jobs \ {i} : jobs'[j] = jobs[j]
  BY <1>2, <1>4
<1>7. jobs' = <<>> <=> jobs = <<>>
  BY <1>2, <1>4, <1>6
<1>8. \A j \in DOMAIN jobs : /\ jobs'[j].event = jobs[j].event
                             /\ Truthful(jobs'[j])
                             /\ jobs[j].mail # <<>> => jobs'[j].mail # <<>>
  BY <1>4, <1>5, <1>6 DEF Truth
<1>9. \A m \in inbox' : m \in inbox \/ jobs'[m.job].mail # <<>>
  <2>1. CASE UNCHANGED inbox
    BY <2>1
  <2>2. CASE ~UNCHANGED inbox
    <3>1. jobs[i].step = "customer" /\ Deliver(i)
      BY <2>2 DEF ReadContract, Send, Tell
    <3>2. jobs[i].mail # <<>>
      BY <3>1 DEF IInv, Attempted
    <3>3. \A m \in inbox' : m \in inbox \/ m.job = i
      BY <3>1 DEF Deliver
    <3> QED
      BY <1>4, <1>6, <3>2, <3>3
  <2> QED
    BY <2>1, <2>2
<1>10. booking' = booking
  BY DEF ReadContract, Send, Tell
<1>11. booking'.paid <= Total
  BY <1>10 DEF Truth
<1> QED
  BY <1>6, <1>7, <1>8, <1>9, <1>10, <1>11, HandlersTell

\* A new process loses handlers, and makes nothing that was told untrue.
LEMMA RestartTells ==
    ASSUME ConstantsAssumption, IInv, Truth, Restart
    PROVE  Truth'
<1>1. TypeOK
  BY DEF IInv
<1>2. jobs' = [j \in DOMAIN jobs |->
                  [jobs[j] EXCEPT !.step = IF @ \in Ended THEN @ ELSE "lost", !.resets = FALSE]]
      /\ UNCHANGED <<booking, inbox>>
  BY DEF Restart
<1>3. ASSUME NEW j \in DOMAIN jobs
      PROVE  /\ jobs'[j].event = jobs[j].event /\ Truthful(jobs'[j])
             /\ jobs[j].mail # <<>> => jobs'[j].mail # <<>>
  <2>1. jobs[j] \in Handler /\ Truthful(jobs[j])
    BY <1>1, HandlerTypes DEF Truth
  <2>2. jobs'[j] = [jobs[j] EXCEPT !.step = IF @ \in Ended THEN @ ELSE "lost", !.resets = FALSE]
    BY <1>2
  <2>3. /\ jobs'[j].event = jobs[j].event /\ jobs'[j].object = jobs[j].object
        /\ jobs'[j].was = jobs[j].was /\ jobs'[j].creation = jobs[j].creation
        /\ jobs'[j].mail = jobs[j].mail /\ ~jobs'[j].resets
    BY <2>1, <2>2 DEF Handler
  <2> QED
    BY <2>1, <2>3, TruthfulLike
<1>4. DOMAIN jobs' = DOMAIN jobs
  BY <1>2
<1>5. jobs' = <<>> <=> jobs = <<>>
  <2>1. DOMAIN jobs = 1 .. Len(jobs) /\ Len(jobs) \in Nat /\ jobs \in Seq(Handler)
    BY <1>1 DEF TypeOK
  <2>2. TypeOK'
    BY <1>1, InParts, RestartWindows
  <2>3. jobs' \in Seq(Handler)
    BY <2>2 DEF TypeOK
  <2> QED
    BY <1>4, <2>1, <2>3
<1>6. booking'.paid <= Total
  BY <1>2 DEF Truth
<1> QED
  BY <1>2, <1>3, <1>4, <1>5, <1>6, HandlersTell

\* The invariant that makes the mails true holds of every behaviour.
THEOREM TruthInvariance ==
    ASSUME ConstantsAssumption, KnownMethods, Amounts
    PROVE  Spec => []Truth
<1>1. Init => Truth
  <2> SUFFICES ASSUME Init PROVE Truth
    OBVIOUS
  <2>1. booking.status = "none" /\ booking.paid = 0 /\ jobs = <<>> /\ inbox = {}
    BY DEF Init, NoBooking
  <2>2. 0 <= Total
    BY DEF Amounts, ConstantsAssumption
  <2> QED
    BY <2>1, <2>2 DEF Truth
<1>2. IInv /\ Truth /\ [Next]_vars => Truth'
  <2> SUFFICES ASSUME IInv, Truth, [Next]_vars
               PROVE  Truth'
    OBVIOUS
  <2>1. ASSUME NEW lang \in Langs, NEW method \in Methods, NEW paid \in {0, Deposit, Total},
               NEW reserve \in BOOLEAN, NEW full \in BOOLEAN,
               Request(method, reserve, paid, full, lang)
                 \/ \E source \in {"Web", "Dashboard"} :
                       Purchase(method, source, reserve, paid, full, lang)
        PROVE  Truth'
    BY <2>1, CreationTells
  <2>2. ASSUME NEW lang \in Langs, NEW paid \in {0, Deposit, Total}, NEW isValidated \in BOOLEAN,
               Validate(paid, isValidated, lang)
        PROVE  Truth'
    BY <2>2, ValidateTells
  <2>3. ASSUME NEW lang \in Langs, Confirm(lang) \/ Cancel(lang)
        PROVE  Truth'
    BY <2>3, ConfirmTells
  <2>4. ASSUME NEW i \in DOMAIN jobs,
               ResetPaid(i) \/ ReadContract(i) \/ Render(i) \/ Send(i) \/ Tell(i)
        PROVE  Truth'
    BY <2>4, ResetPaidTells, RenderTells, StepTells
  <2>5. CASE Tick \/ UNCHANGED vars
    <3>1. UNCHANGED <<booking, jobs, inbox>>
      BY <2>5 DEF Tick, vars
    <3> QED
      BY <3>1 DEF Truth
  <2>6. CASE Restart
    BY <2>6, RestartTells
  <2> QED
    BY <2>1, <2>2, <2>3, <2>4, <2>5, <2>6 DEF Next
<1> QED
  BY <1>1, <1>2, IInvariance, PTL DEF Spec

\* Every mail in the inbox is what its handler had to tell.
LEMMA InboxTells ==
    ASSUME IInv, Truth, NEW m \in inbox
    PROVE  m.job \in DOMAIN jobs /\ Tells(jobs[m.job], m.mail)
<1>1. m.job \in DOMAIN jobs /\ m.mail = jobs[m.job].mail[1] /\ jobs[m.job].mail # <<>>
  BY DEF IInv, Attempted, Truth
<1> QED
  BY <1>1 DEF Truth, Truthful

\* A mail shows the booking as it was at its event, however late it comes and whatever the
\* service, the catalogue and other handlers do meanwhile (sendBookingCreated and the rest).
THEOREM MailsTellTruth ==
    ASSUME ConstantsAssumption, KnownMethods, Amounts
    PROVE  Spec => [](MailsAreTrue /\ RowsAsAgreed)
<1>1. IInv /\ Truth => MailsAreTrue /\ RowsAsAgreed
  <2> SUFFICES ASSUME IInv, Truth
               PROVE  MailsAreTrue /\ RowsAsAgreed
    OBVIOUS
  <2>1. \A m \in inbox : Tells(jobs[m.job], m.mail)
    BY InboxTells
  <2> QED
    BY <2>1 DEF Tells, MailsAreTrue, RowsAsAgreed
<1> QED
  BY <1>1, IInvariance, TruthInvariance, PTL

\* Nobody is left without a mail about an approval or a cancellation, once all is quiet, but
\* for mails that failed, were lost or skipped.
THEOREM CustomersAreTold ==
    ASSUME ConstantsAssumption, KnownMethods, Amounts
    PROVE  Spec => []CustomerIsTold
<1>1. IInv /\ Truth => CustomerIsTold
  <2> SUFFICES ASSUME IInv, Truth,
                      \A j \in DOMAIN jobs : jobs[j].step \in Ended,
                      ~ \E j \in DOMAIN jobs : jobs[j].step \in {"failed", "lost", "skipped"}
               PROVE  /\ booking.status = "APROBADO" /\ jobs # <<>> =>
                            \E m \in inbox : m.mail.template \in {"confirmation", "reserve"}
                      /\ booking.status = "CANCELADO" =>
                            \E m \in inbox : m.mail.template \in {"cancellation"}
    BY DEF CustomerIsTold
  <2>1. \A j \in DOMAIN jobs : jobs[j].step = "done"
    BY DEF Ended
  <2>2. ASSUME NEW j \in DOMAIN jobs
        PROVE  \E m \in inbox : m.job = j /\ Tells(jobs[j], m.mail)
    <3>1. PICK m \in inbox : m.job = j
      BY <2>1 DEF IInv, Attempted, Copies
    <3> QED
      BY <3>1, InboxTells
  <2> QED
    BY <2>2 DEF Truth, Tells
<1> QED
  BY <1>1, IInvariance, TruthInvariance, PTL

\* All of it: the customer is told, once, and the truth.
THEOREM CustomerToldOnceAndTruly ==
    ASSUME ConstantsAssumption, KnownMethods, Amounts
    PROVE  Spec => []ToldOnceAndTruly
<1>1. /\ Deduplicates /\ CopiesAreBounded /\ (MailsAreTrue /\ RowsAsAgreed) /\ CustomerIsTold
      => ToldOnceAndTruly
  BY DEF ToldOnceAndTruly
<1> QED
  BY <1>1, WindowHolds, RetriesAreBounded, MailsTellTruth, CustomersAreTold, PTL

=============================================================================
