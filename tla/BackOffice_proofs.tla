-------------------------- MODULE BackOffice_proofs --------------------------
(***************************************************************************)
(* The parts of MCBackOffice keep their promises where they take turns, as *)
(* they do alone: a behaviour of the office is one of the part that runs,  *)
(* and of that part the component's own proof module has the theorem.      *)
(***************************************************************************)
EXTENDS MCBackOffice, SequenceTheorems, FiniteSetTheorems, WellFoundedInduction, TLAPS

\* The part that runs is the same for ever: it neither stops nor begins to be the one.
LEMMA PartStays ==
    ASSUME NEW p
    PROVE  /\ part = p /\ [OfficeNext]_vars => (part = p)'
           /\ ~(part = p) /\ [OfficeNext]_vars => (~(part = p))'
BY DEF OfficeNext, vars

-----------------------------------------------------------------------------
(***************************************************************************)
(* VehicleCache, for any vehicles, categories, widgets and times, however  *)
(* often vehicles are moved.  StaleForTTL is not inductive: it says        *)
(* neither which timer will end a stale entry nor what the widgets hold    *)
(* that have yet to fill the cache.  StaleHasTimer names the timer, by the *)
(* day the vehicle was moved, and WaitingIsRecent relates what a widget    *)
(* holds to when it was read.                                              *)
(***************************************************************************)

clock == x1
groups == x2
departed == x3
cached == x4
timeouts == x5
fills == x6
swaps == x7

USE DEF clock, groups, departed, cached, timeouts, fills, swaps

\* What is true of every state of the cache.
CacheInv ==
    /\ Cache!TypeOK
    /\ Cache!EntriesExpire
    /\ Cache!StaleHasTimer
    /\ Cache!WaitingIsRecent

\* The cache begins empty.
LEMMA InitCached ==
    ASSUME Cache!Assumptions, Cache!Init
    PROVE  CacheInv
<1>1. (CHOOSE c \in Categories : TRUE) \in Categories
  BY DEF Cache!Assumptions
<1>2. Cache!TypeOK
  BY <1>1 DEF Cache!Init, Cache!TypeOK, Cache!Idle, Cache!Known
<1>3. Cache!EntriesExpire /\ Cache!StaleHasTimer
  BY DEF Cache!Init, Cache!EntriesExpire, Cache!StaleHasTimer, Cache!Stale
<1>4. Cache!WaitingIsRecent
  BY DEF Cache!Init, Cache!WaitingIsRecent, Cache!Idle
<1> QED
  BY <1>2, <1>3, <1>4 DEF CacheInv

\* A timer that has not fired is there a day later.
LEMMA TickCached ==
    ASSUME Cache!Assumptions, CacheInv, Cache!Tick
    PROVE  CacheInv'
<1>1. clock \in Nat /\ clock' = clock + 1 /\ UNCHANGED <<groups, departed, fills>>
  BY DEF Cache!Tick, CacheInv, Cache!TypeOK
<1>2. Cache!TypeOK'
  BY <1>1 DEF Cache!Tick, CacheInv, Cache!TypeOK, Cache!Known
<1>3. ASSUME NEW v \in Vehicles, cached'[v] # Cache!Unknown
      PROVE  /\ cached'[v] = cached[v]
             /\ \A t \in timeouts : t.vehicle = v => t.due > clock' /\ t \in timeouts'
  <2>1. cached'[v] = IF \E t \in timeouts : t.vehicle = v
          /\ t.due <= clock' THEN Cache!Unknown ELSE cached[v]
    BY DEF Cache!Tick
  <2>2. \A t \in timeouts : t.due \in Int
    BY DEF CacheInv, Cache!TypeOK
  <2>3. timeouts' = {t \in timeouts : t.due > clock'}
    BY DEF Cache!Tick
  <2> QED
    BY <1>1, <1>3, <2>1, <2>2, <2>3
<1>4. Cache!EntriesExpire'
  <2> SUFFICES ASSUME NEW v \in Vehicles, cached'[v] # Cache!Unknown
               PROVE  \E t \in timeouts' : t.vehicle = v /\ t.due > clock' /\ t.due <= clock' + TTL
    BY DEF Cache!EntriesExpire
  <2>1. PICK t \in timeouts : t.vehicle = v /\ t.due > clock /\ t.due <= clock + TTL
    BY <1>3 DEF CacheInv, Cache!EntriesExpire
  <2>2. t.due \in Int
    BY DEF CacheInv, Cache!TypeOK
  <2>3. t \in timeouts' /\ t.due > clock'
    BY <1>3, <2>1
  <2> QED
    BY <1>1, <2>1, <2>2, <2>3 DEF Cache!Assumptions
<1>5. Cache!StaleHasTimer'
  <2> SUFFICES ASSUME NEW v \in Vehicles, Cache!Stale(v)'
               PROVE  \E t \in timeouts' : t.vehicle = v /\ t.due > clock'
                        /\ t.due <= departed'[v] + Wait + TTL
    BY DEF Cache!StaleHasTimer
  <2>1. cached'[v] # Cache!Unknown /\ Cache!Stale(v)
    BY <1>1, <1>3 DEF Cache!Stale
  <2>2. PICK t \in timeouts : t.vehicle = v /\ t.due > clock /\ t.due <= departed[v] + Wait + TTL
    BY <2>1 DEF CacheInv, Cache!StaleHasTimer
  <2> QED
    BY <1>1, <1>3, <2>1, <2>2
<1>6. Cache!WaitingIsRecent'
  <2> SUFFICES ASSUME NEW w \in Widgets, NEW v \in fills[w].waiting
               PROVE  /\ fills[w].since <= clock' /\ clock' <= fills[w].since + Wait
                      /\ fills[w].known[v] # groups[v] => fills[w].since <= departed[v]
    BY <1>1 DEF Cache!WaitingIsRecent
  <2>1. clock < fills[w].since + Wait
    BY DEF Cache!Tick
  <2>2. fills[w].since \in Nat
    BY DEF CacheInv, Cache!TypeOK
  <2> QED
    BY <1>1, <2>1, <2>2 DEF CacheInv, Cache!WaitingIsRecent, Cache!Assumptions
<1> QED
  BY <1>2, <1>4, <1>5, <1>6 DEF CacheInv

\* What is known of a vehicle that is moved becomes stale now, and has a timer already.
LEMMA RecategoriseCached ==
    ASSUME Cache!Assumptions, CacheInv, NEW v \in Vehicles, NEW c \in Categories,
           Cache!Recategorise(v, c)
    PROVE  CacheInv'
<1>1. /\ groups' = [groups EXCEPT ![v] = c] /\ departed' = [departed EXCEPT ![v] = clock]
      /\ UNCHANGED <<clock, cached, timeouts, fills>>
  BY DEF Cache!Recategorise
<1>2. Cache!TypeOK'
  BY <1>1 DEF CacheInv, Cache!TypeOK
<1>3. Cache!EntriesExpire'
  BY <1>1 DEF CacheInv, Cache!EntriesExpire
<1>4. /\ departed'[v] = clock /\ groups'[v] = c
      /\ \A u \in Vehicles \ {v} : departed'[u] = departed[u] /\ groups'[u] = groups[u]
  BY <1>1 DEF CacheInv, Cache!TypeOK
<1>5. Cache!StaleHasTimer'
  <2> SUFFICES ASSUME NEW u \in Vehicles, Cache!Stale(u)'
               PROVE  \E t \in timeouts : t.vehicle = u /\ t.due > clock
                        /\ t.due <= departed'[u] + Wait + TTL
    BY <1>1 DEF Cache!StaleHasTimer
  <2>1. CASE u # v
    <3>1. Cache!Stale(u)
      BY <1>1, <1>4, <2>1 DEF Cache!Stale
    <3> QED
      BY <1>4, <2>1, <3>1 DEF CacheInv, Cache!StaleHasTimer
  <2>2. CASE u = v
    <3>1. cached[v] # Cache!Unknown
      BY <1>1, <2>2 DEF Cache!Stale
    <3>2. PICK t \in timeouts : t.vehicle = v /\ t.due > clock /\ t.due <= clock + TTL
      BY <3>1 DEF CacheInv, Cache!EntriesExpire
    <3>3. t.due \in Int /\ clock \in Nat
      BY DEF CacheInv, Cache!TypeOK
    <3> QED
      BY <1>4, <2>2, <3>2, <3>3 DEF Cache!Assumptions
  <2> QED
    BY <2>1, <2>2
<1>6. Cache!WaitingIsRecent'
  <2> SUFFICES ASSUME NEW w \in Widgets, NEW u \in fills[w].waiting
               PROVE  /\ fills[w].since <= clock /\ clock <= fills[w].since + Wait
                      /\ fills[w].known[u] # groups'[u] => fills[w].since <= departed'[u]
    BY <1>1 DEF Cache!WaitingIsRecent
  <2>1. u \in Vehicles
    BY DEF CacheInv, Cache!TypeOK
  <2>2. /\ fills[w].since <= clock /\ clock <= fills[w].since + Wait
        /\ fills[w].known[u] # groups[u] => fills[w].since <= departed[u]
    BY DEF CacheInv, Cache!WaitingIsRecent
  <2> QED
    BY <1>4, <2>1, <2>2
<1> QED
  BY <1>2, <1>3, <1>5, <1>6 DEF CacheInv

\* What a widget has to wait for it reads as it is now.
LEMMA StartCached ==
    ASSUME Cache!Assumptions, CacheInv, NEW w \in Widgets, NEW wanted \in SUBSET Vehicles,
           Cache!Start(w, wanted)
    PROVE  CacheInv'
<1> DEFINE taken == [v \in Vehicles |-> IF v \in Cache!Missing(wanted) THEN groups[v]
                                        ELSE IF v \in wanted THEN cached[v] ELSE Cache!Unknown]
           mine == [known |-> taken, since |-> clock, waiting |-> Cache!Missing(wanted)]
<1>1. fills' = [fills EXCEPT ![w] = mine] /\ UNCHANGED <<clock, groups, departed, cached, timeouts>>
  BY DEF Cache!Start, Cache!AfterHit
<1>2. taken \in [Vehicles -> Cache!Known] /\ Cache!Missing(wanted) \in SUBSET Vehicles
  BY DEF CacheInv, Cache!TypeOK, Cache!Known, Cache!Missing
<1>3. Cache!TypeOK'
  <2> HIDE DEF taken
  <2>1. mine \in [known : [Vehicles -> Cache!Known], since : Nat, waiting : SUBSET Vehicles]
    BY <1>2 DEF CacheInv, Cache!TypeOK
  <2> HIDE DEF mine
  <2> QED
    BY <1>1, <2>1 DEF CacheInv, Cache!TypeOK
<1>4. Cache!EntriesExpire' /\ Cache!StaleHasTimer'
  BY <1>1 DEF CacheInv, Cache!EntriesExpire, Cache!StaleHasTimer, Cache!Stale
<1>5. Cache!WaitingIsRecent'
  <2> SUFFICES ASSUME NEW u \in Widgets, NEW v \in fills'[u].waiting
               PROVE  /\ fills'[u].since <= clock /\ clock <= fills'[u].since + Wait
                      /\ fills'[u].known[v] # groups[v] => fills'[u].since <= departed[v]
    BY <1>1 DEF Cache!WaitingIsRecent
  <2>1. CASE u # w
    <3>1. fills'[u] = fills[u]
      BY <1>1, <2>1 DEF CacheInv, Cache!TypeOK
    <3> QED
      BY <3>1 DEF CacheInv, Cache!WaitingIsRecent
  <2>2. CASE u = w
    <3>1. fills'[u] = mine
      BY <1>1, <2>2 DEF CacheInv, Cache!TypeOK
    <3>2. v \in Cache!Missing(wanted) /\ v \in Vehicles
      BY <1>2, <3>1
    <3>3. fills'[u].known[v] = groups[v] /\ fills'[u].since = clock
      BY <3>1, <3>2
    <3> QED
      BY <3>3 DEF CacheInv, Cache!TypeOK, Cache!Assumptions
  <2> QED
    BY <2>1, <2>2
<1> QED
  BY <1>3, <1>4, <1>5 DEF CacheInv

\* What a widget puts into the cache has a new timer; if it was moved since it was read, that
\* was no longer ago than the database took.
LEMMA FillCached ==
    ASSUME Cache!Assumptions, CacheInv, NEW w \in Widgets, Cache!Fill(w)
    PROVE  CacheInv'
<1> DEFINE filled == fills[w].waiting
<1>1. /\ cached' = [v \in Vehicles |-> IF v \in filled THEN fills[w].known[v] ELSE cached[v]]
      /\ timeouts' = timeouts \cup Cache!TimersFor(filled)
      /\ fills' = [fills EXCEPT ![w].waiting = {}]
      /\ UNCHANGED <<clock, groups, departed>>
  BY DEF Cache!Fill
<1>2. filled \in SUBSET Vehicles /\ fills[w].known \in [Vehicles -> Cache!Known]
  BY DEF CacheInv, Cache!TypeOK
<1>3. \A v \in filled : \E t \in timeouts' : t.vehicle = v /\ t.due = clock + TTL
  <2> SUFFICES ASSUME NEW v \in filled
               PROVE  \E t \in timeouts' : t.vehicle = v /\ t.due = clock + TTL
    OBVIOUS
  <2> DEFINE timer == [vehicle |-> v, due |-> clock + TTL]
  <2>1. timer \in Cache!TimersFor(filled)
    BY DEF Cache!TimersFor
  <2>2. timer \in timeouts'
    BY <1>1, <2>1
  <2> QED
    BY <2>2
<1> HIDE DEF filled
<1>4. Cache!TypeOK'
  <2>1. Cache!TimersFor(filled) \in SUBSET [vehicle : Vehicles, due : Int]
    BY <1>2 DEF Cache!TimersFor, CacheInv, Cache!TypeOK, Cache!Assumptions
  <2>2. fills' \in [Widgets -> [known : [Vehicles -> Cache!Known], since : Nat,
        waiting : SUBSET Vehicles]]
    BY <1>1 DEF CacheInv, Cache!TypeOK
  <2> QED
    BY <1>1, <1>2, <2>1, <2>2 DEF CacheInv, Cache!TypeOK
<1>5. Cache!EntriesExpire'
  <2> SUFFICES ASSUME NEW v \in Vehicles, cached'[v] # Cache!Unknown
               PROVE  \E t \in timeouts' : t.vehicle = v /\ t.due > clock /\ t.due <= clock + TTL
    BY <1>1 DEF Cache!EntriesExpire
  <2>1. CASE v \in filled
    BY <1>3, <2>1 DEF CacheInv, Cache!TypeOK, Cache!Assumptions
  <2>2. CASE v \notin filled
    BY <1>1, <2>2 DEF CacheInv, Cache!EntriesExpire
  <2> QED
    BY <2>1, <2>2
<1>6. Cache!StaleHasTimer'
  <2> SUFFICES ASSUME NEW v \in Vehicles, Cache!Stale(v)'
               PROVE  \E t \in timeouts' : t.vehicle = v /\ t.due > clock
                        /\ t.due <= departed[v] + Wait + TTL
    BY <1>1 DEF Cache!StaleHasTimer
  <2>1. CASE v \in filled
    <3>1. fills[w].known[v] # groups[v]
      BY <1>1, <2>1 DEF Cache!Stale
    <3>2. clock <= fills[w].since + Wait /\ fills[w].since <= departed[v]
      BY <2>1, <3>1 DEF filled, CacheInv, Cache!WaitingIsRecent
    <3>3. clock \in Nat /\ fills[w].since \in Nat /\ departed[v] \in Nat
      BY DEF CacheInv, Cache!TypeOK
    <3> QED
      BY <1>3, <2>1, <3>2, <3>3 DEF Cache!Assumptions
  <2>2. CASE v \notin filled
    <3>1. Cache!Stale(v)
      BY <1>1, <2>2 DEF Cache!Stale
    <3> QED
      BY <1>1, <3>1 DEF CacheInv, Cache!StaleHasTimer
  <2> QED
    BY <2>1, <2>2
<1>7. Cache!WaitingIsRecent'
  <2>1. \A u \in Widgets : \A v \in fills'[u].waiting : fills'[u] = fills[u]
    BY <1>1 DEF CacheInv, Cache!TypeOK
  <2> QED
    BY <1>1, <2>1 DEF CacheInv, Cache!WaitingIsRecent
<1> QED
  BY <1>4, <1>5, <1>6, <1>7 DEF CacheInv

\* vehicleCache: the inductive invariant holds of every behaviour.
LEMMA CacheInvariance == Cache!Spec => []CacheInv
<1>1. Cache!Init => CacheInv
  BY PartsAssumption, InitCached
<1>2. CacheInv /\ [Cache!Next]_(Cache!vars) => CacheInv'
  <2> SUFFICES ASSUME CacheInv, [Cache!Next]_(Cache!vars)
               PROVE  CacheInv'
    OBVIOUS
  <2>1. CASE Cache!Tick
    BY <2>1, PartsAssumption, TickCached
  <2>2. ASSUME NEW v \in Vehicles, NEW c \in Categories, Cache!Recategorise(v, c)
        PROVE  CacheInv'
    BY <2>2, PartsAssumption, RecategoriseCached
  <2>3. ASSUME NEW w \in Widgets, NEW wanted \in (SUBSET Vehicles) \ {{}}, Cache!Start(w, wanted)
        PROVE  CacheInv'
    BY <2>3, PartsAssumption, StartCached
  <2>4. ASSUME NEW w \in Widgets, Cache!Fill(w)
        PROVE  CacheInv'
    BY <2>4, PartsAssumption, FillCached
  <2>5. CASE UNCHANGED Cache!vars
    BY <2>5 DEF Cache!vars, CacheInv, Cache!TypeOK, Cache!EntriesExpire, Cache!StaleHasTimer,
       Cache!Stale, Cache!WaitingIsRecent
  <2> QED
    BY <2>1, <2>2, <2>3, <2>4, <2>5 DEF Cache!Next
<1> QED
  BY <1>1, <1>2, PTL DEF Cache!Spec

\* CACHE_TTL and the timeouts of getVehiclesBatch: a category that is not the vehicle's any more
\* is known to the process for no longer than the cache keeps it and the database takes.
THEOREM StaleNoLongerThanTTL == Cache!Spec => []Cache!StaleForTTL
<1>1. CacheInv => Cache!StaleForTTL
  <2> SUFFICES ASSUME CacheInv, NEW v \in Vehicles, Cache!Stale(v)
               PROVE  clock - departed[v] < TTL + Wait + 1
    BY DEF Cache!StaleForTTL, Cache!Stale
  <2>1. PICK t \in timeouts : t.vehicle = v /\ t.due > clock /\ t.due <= departed[v] + Wait + TTL
    BY DEF CacheInv, Cache!StaleHasTimer
  <2>2. t.due \in Int /\ clock \in Nat /\ departed[v] \in Nat
    BY DEF CacheInv, Cache!TypeOK
  <2> QED
    BY PartsAssumption, <2>1, <2>2 DEF Cache!Assumptions
<1> QED
  BY <1>1, CacheInvariance, PTL

\* The timeouts of getVehiclesBatch: every entry of the cache has one that will remove it in time,
\* whichever widgets put it there.
THEOREM EveryEntryExpires == Cache!Spec => []Cache!EntriesExpire
<1>1. CacheInv => Cache!EntriesExpire
  BY DEF CacheInv
<1> QED
  BY <1>1, CacheInvariance, PTL

\* vehicleCache: nothing stays in the cache for good, and nothing stale for long.
THEOREM OfficeCacheExpires == OfficeSpec => []CacheExpires
<1>1. Cache!Spec => []Cache!CacheExpires
  <2>1. Cache!StaleForTTL /\ Cache!EntriesExpire => Cache!CacheExpires
    BY DEF Cache!CacheExpires
  <2> QED
    BY <2>1, StaleNoLongerThanTTL, EveryEntryExpires, PTL
<1>2. part = "cache" /\ OfficeInit => Cache!Init
  BY DEF OfficeInit
<1>3. part = "cache" /\ [OfficeNext]_vars => [Cache!Next]_(Cache!vars)
  BY DEF OfficeNext, vars, Cache!vars
<1>4. part = "cache" /\ [OfficeNext]_vars => (part = "cache")'
  BY PartStays
<1>5. ~(part = "cache") /\ [OfficeNext]_vars => (~(part = "cache"))'
  BY PartStays
<1>6. part = "cache" /\ OfficeSpec => Cache!Spec
  BY <1>2, <1>3, <1>4, PTL DEF OfficeSpec, Cache!Spec
<1>7. ~(part = "cache") /\ OfficeSpec => [](~(part = "cache"))
  BY <1>5, PTL DEF OfficeSpec
<1> QED
  BY <1>1, <1>6, <1>7, PTL DEF CacheExpires

\* booking.event.service: the customer is told, once, and the truth.
THEOREM OfficeToldOnceAndTruly == OfficeSpec => []ToldOnceAndTruly
<1>1. Mails!Spec => []Mails!ToldOnceAndTruly
  BY PartsAssumption, Mails!CustomerToldOnceAndTruly
<1>2. part = "mails" /\ OfficeInit => Mails!Init
  BY DEF OfficeInit
<1>3. part = "mails" /\ [OfficeNext]_vars => [Mails!Next]_(Mails!vars)
  BY DEF OfficeNext, vars, Mails!vars
<1>4. part = "mails" /\ [OfficeNext]_vars => (part = "mails")'
  BY PartStays
<1>5. ~(part = "mails") /\ [OfficeNext]_vars => (~(part = "mails"))'
  BY PartStays
<1>6. part = "mails" /\ OfficeSpec => Mails!Spec
  BY <1>2, <1>3, <1>4, PTL DEF OfficeSpec, Mails!Spec
<1>7. ~(part = "mails") /\ OfficeSpec => [](~(part = "mails"))
  BY <1>5, PTL DEF OfficeSpec
<1> QED
  BY <1>1, <1>6, <1>7, PTL DEF ToldOnceAndTruly

\* promotional-price.service: active promotions of a model overlap only after requests that
\* raced, and a vehicle's intervals agree with the search by date.
THEOREM OfficePromotionsAgree == OfficeSpec => []PromotionsAgree
<1>1. Promotions!Spec => []Promotions!PromotionsAgree
  BY PartsAssumption, Promotions!PromotionsAlwaysAgree
<1>2. part = "promotions" /\ OfficeInit => Promotions!Init
  BY DEF OfficeInit
<1>3. part = "promotions" /\ [OfficeNext]_vars => [Promotions!Next]_(Promotions!vars)
  BY DEF OfficeNext, vars, Promotions!vars
<1>4. part = "promotions" /\ [OfficeNext]_vars => (part = "promotions")'
  BY PartStays
<1>5. ~(part = "promotions") /\ [OfficeNext]_vars => (~(part = "promotions"))'
  BY PartStays
<1>6. part = "promotions" /\ OfficeSpec => Promotions!Spec
  BY <1>2, <1>3, <1>4, PTL DEF OfficeSpec, Promotions!Spec
<1>7. ~(part = "promotions") /\ OfficeSpec => [](~(part = "promotions"))
  BY <1>5, PTL DEF OfficeSpec
<1> QED
  BY <1>1, <1>6, <1>7, PTL DEF PromotionsAgree

\* user.service: emails of one user, bookings of their customer, data as last asked for.
THEOREM OfficeAccountsKept == OfficeSpec => []AccountsKept
<1>1. Customers!Spec => []Customers!AccountsKept
  BY Customers!AccountsAreKept
<1>2. part = "accounts" /\ OfficeInit => Customers!Init
  BY DEF OfficeInit
<1>3. part = "accounts" /\ [OfficeNext]_vars => [Customers!Next]_(Customers!vars)
  BY DEF OfficeNext, vars, Customers!vars
<1>4. part = "accounts" /\ [OfficeNext]_vars => (part = "accounts")'
  BY PartStays
<1>5. ~(part = "accounts") /\ [OfficeNext]_vars => (~(part = "accounts"))'
  BY PartStays
<1>6. part = "accounts" /\ OfficeSpec => Customers!Spec
  BY <1>2, <1>3, <1>4, PTL DEF OfficeSpec, Customers!Spec
<1>7. ~(part = "accounts") /\ OfficeSpec => [](~(part = "accounts"))
  BY <1>5, PTL DEF OfficeSpec
<1> QED
  BY <1>1, <1>6, <1>7, PTL DEF AccountsKept

-----------------------------------------------------------------------------
(***************************************************************************)
(* Searches.  SearchesAgree holds by what the searches are.  That of       *)
(* vehicles needs KnowledgeHolds, of every booking at every moment.        *)
(***************************************************************************)

\* What the variables are in this part.
bookings == x1
contracts == x2
drove == x4
unknown == x5

USE DEF bookings, contracts, drove, unknown

\* Before the first booking there is nothing to know.
LEMMA InitKnown == Search!Init => Search!TypeOK /\ Search!KnowledgeHolds
BY EmptySeq DEF Search!Init, Search!TypeOK, Search!KnowledgeHolds

\* A snapshot more, or one less.
LEMMA SnapshotsKnown ==
    ASSUME NEW S, NEW s \in Seq(S)
    PROVE  /\ \A e : Search!ToSet(Append(s, e)) = Search!ToSet(s) \cup {e}
           /\ s # <<>> => /\ Search!Front(s) \in Seq(S) /\ Search!Last(s) \in S
                          /\ Search!ToSet(s) = Search!ToSet(Search!Front(s)) \cup {Search!Last(s)}
<1>1. \A e : Search!ToSet(Append(s, e)) = Search!ToSet(s) \cup {e}
  <2> TAKE e
  <2>1. /\ DOMAIN Append(s, e) = DOMAIN s \cup {Len(s) + 1}
        /\ \A i \in DOMAIN s : Append(s, e)[i] = s[i]
        /\ Append(s, e)[Len(s) + 1] = e
    OBVIOUS
  <2> QED
    BY <2>1 DEF Search!ToSet
<1>2. ASSUME s # <<>>
      PROVE  /\ Search!Front(s) \in Seq(S) /\ Search!Last(s) \in S
             /\ Search!ToSet(s) = Search!ToSet(Search!Front(s)) \cup {Search!Last(s)}
  <2>1. Len(s) \in Nat \ {0} /\ DOMAIN s = 1 .. Len(s)
    BY <1>2, EmptySeq
  <2>2. /\ Search!Front(s) \in Seq(S)
        /\ DOMAIN Search!Front(s) = 1 .. Len(s) - 1
        /\ \A i \in 1 .. Len(s) - 1 : Search!Front(s)[i] = s[i]
    BY <2>1 DEF Search!Front
  <2>3. 1 .. Len(s) = (1 .. Len(s) - 1) \cup {Len(s)}
    BY <2>1
  <2> QED
    BY <2>1, <2>2, <2>3 DEF Search!ToSet, Search!Last
<1> QED
  BY <1>1, <1>2

\* One element of a sequence replaced by another.
LEMMA Replaced ==
    ASSUME NEW S, NEW s \in Seq(S), NEW i \in DOMAIN s, NEW e \in S
    PROVE  /\ [s EXCEPT ![i] = e] \in Seq(S)
           /\ Len([s EXCEPT ![i] = e]) = Len(s)
           /\ DOMAIN [s EXCEPT ![i] = e] = DOMAIN s
OBVIOUS

\* What a step does to one booking, and leaves to all others.
Revised(b, booking, contract, driven, hidden) ==
    /\ bookings' = [bookings EXCEPT ![b] = booking]
    /\ contracts' = [contracts EXCEPT ![b] = contract]
    /\ drove' = [drove EXCEPT ![b] = driven]
    /\ unknown' = [unknown EXCEPT ![b] = hidden]

\* The vehicles before and after changes.
VehiclesOf(snapshots) == UNION {{s.old, s.new} : s \in snapshots}

\* What one snapshot more adds.
LEMMA OneMore ==
    ASSUME NEW S, NEW e
    PROVE  VehiclesOf(S \cup {e}) = VehiclesOf(S) \cup {e.old, e.new}
BY DEF VehiclesOf

\* What cart and history name, in the terms of this section.
LEMMA KnownVehicles ==
    ASSUME NEW b
    PROVE  Search!Known(b) = {bookings[b].vehicle}
                             \cup VehiclesOf(Search!ToSet(contracts[b].snapshots))
BY DEF Search!Known, Search!SnapshotVehicles, VehiclesOf

\* It is enough to look at the booking that changes.
LEMMA RevisedHolds ==
    ASSUME Search!TypeOK, Search!KnowledgeHolds, NEW b \in DOMAIN bookings,
           NEW booking \in Search!Booking, NEW contract \in Search!Contract,
           NEW driven \in SUBSET Fleet, NEW hidden \in SUBSET Fleet,
           Revised(b, booking, contract, driven, hidden),
           LET known == {booking.vehicle} \cup VehiclesOf(Search!ToSet(contract.snapshots))
           IN  IF contract.exists
               THEN known \subseteq driven /\ driven \subseteq known \cup hidden
               ELSE driven = {} /\ contract.snapshots = <<>>
    PROVE  Search!TypeOK' /\ Search!KnowledgeHolds'
<1>1. b \in DOMAIN contracts /\ b \in DOMAIN drove /\ b \in DOMAIN unknown
  BY DEF Search!TypeOK
<1>2. Search!TypeOK'
  BY <1>1, Replaced DEF Search!TypeOK, Revised, Search!Booking, Search!Contract
<1>3. DOMAIN bookings' = DOMAIN bookings
  BY DEF Revised, Search!TypeOK
<1>4. ASSUME NEW c \in DOMAIN bookings
      PROVE  IF contracts'[c].exists
             THEN /\ Search!Known(c)' \subseteq drove'[c]
                  /\ drove'[c] \subseteq Search!Known(c)' \cup unknown'[c]
             ELSE drove'[c] = {} /\ contracts'[c].snapshots = <<>>
  <2>1. CASE c = b
    <3>1. /\ bookings'[c] = booking /\ contracts'[c] = contract
          /\ drove'[c] = driven /\ unknown'[c] = hidden
      BY <1>1, <2>1 DEF Revised, Search!TypeOK
    <3> QED
      BY <3>1 DEF Search!Known, Search!SnapshotVehicles, VehiclesOf
  <2>2. CASE c # b
    <3>1. /\ bookings'[c] = bookings[c] /\ contracts'[c] = contracts[c]
          /\ drove'[c] = drove[c] /\ unknown'[c] = unknown[c]
      BY <1>1, <2>2, <1>4 DEF Revised, Search!TypeOK
    <3> QED
      BY <3>1, <1>4 DEF Search!Known, Search!SnapshotVehicles, Search!KnowledgeHolds
  <2> QED
    BY <2>1, <2>2
<1> QED
  BY <1>2, <1>3, <1>4 DEF Search!KnowledgeHolds

\* A new booking has no contract, and nothing to be known.
LEMMA BookHolds ==
    ASSUME Search!TypeOK, Search!KnowledgeHolds,
           NEW status \in Search!Statuses, NEW kind \in Search!Kinds, NEW start \in Search!Starts,
           NEW vehicle \in Fleet, Search!Book(status, kind, start, vehicle)
    PROVE  Search!TypeOK' /\ Search!KnowledgeHolds'
<1> DEFINE n == Len(bookings) + 1
<1>1. Search!TypeOK'
  <2>1. [exists |-> FALSE, status |-> Search!Whatever, snapshots |-> <<>>] \in Search!Contract
    BY EmptySeq DEF Search!Contract
  <2>2. [status |-> status, kind |-> kind, start |-> start, vehicle |-> vehicle] \in Search!Booking
    BY DEF Search!Booking
  <2> QED
    BY <2>1, <2>2 DEF Search!TypeOK, Search!Book, Search!Booking, Search!Contract
<1>2. DOMAIN bookings' = DOMAIN bookings \cup {n}
  BY DEF Search!TypeOK, Search!Book
<1>3. ~contracts'[n].exists /\ drove'[n] = {} /\ contracts'[n].snapshots = <<>>
  BY DEF Search!TypeOK, Search!Book
<1>4. ASSUME NEW c \in DOMAIN bookings
      PROVE  /\ bookings'[c] = bookings[c] /\ contracts'[c] = contracts[c]
             /\ drove'[c] = drove[c] /\ unknown'[c] = unknown[c]
  BY <1>4 DEF Search!TypeOK, Search!Book
<1> QED
  BY <1>1, <1>2, <1>3, <1>4 DEF Search!KnowledgeHolds, Search!Known, Search!SnapshotVehicles

\* Every handler of a booking and its contract, one after the other.
LEMMA HandlerHolds ==
    ASSUME Search!TypeOK, Search!KnowledgeHolds, NEW b \in DOMAIN bookings,
           \/ Search!OpenContract(b) \/ Search!Approve(b) \/ Search!Cancel(b) \/ Search!Confirm(b)
           \/ \E start \in Search!Starts, vehicle \in Fleet :
                 Search!ChangeVehicle(b, start, vehicle) \/ Search!EditCart(b, start, vehicle)
           \/ Search!UndoChange(b)
    PROVE  Search!TypeOK' /\ Search!KnowledgeHolds'
<1> DEFINE old == bookings[b]
           had == contracts[b]
<1>1. /\ old \in Search!Booking /\ had \in Search!Contract
      /\ drove[b] \in SUBSET Fleet /\ unknown[b] \in SUBSET Fleet
      /\ b \in DOMAIN contracts /\ b \in DOMAIN drove /\ b \in DOMAIN unknown
  <2>1. /\ DOMAIN bookings = 1 .. Len(bookings) /\ DOMAIN contracts = 1 .. Len(contracts)
        /\ DOMAIN drove = 1 .. Len(drove) /\ DOMAIN unknown = 1 .. Len(unknown)
    BY DEF Search!TypeOK
  <2>2. b \in DOMAIN contracts /\ b \in DOMAIN drove /\ b \in DOMAIN unknown
    BY <2>1 DEF Search!TypeOK
  <2>3. bookings \in Seq(Search!Booking) /\ contracts \in Seq(Search!Contract)
    BY DEF Search!TypeOK, Search!Booking, Search!Contract
  <2>4. drove \in Seq(SUBSET Fleet) /\ unknown \in Seq(SUBSET Fleet)
    BY DEF Search!TypeOK
  <2>5. drove[b] \in SUBSET Fleet /\ unknown[b] \in SUBSET Fleet
    BY <2>1, <2>2, <2>4
  <2> QED
    BY <2>1, <2>2, <2>3, <2>5
<1>2. IF had.exists
      THEN Search!Known(b) \subseteq drove[b] /\ drove[b] \subseteq Search!Known(b) \cup unknown[b]
      ELSE drove[b] = {} /\ had.snapshots = <<>>
  BY DEF Search!KnowledgeHolds
<1>3. /\ bookings = [bookings EXCEPT ![b] = old]
      /\ contracts = [contracts EXCEPT ![b] = had]
      /\ drove = [drove EXCEPT ![b] = drove[b]]
      /\ unknown = [unknown EXCEPT ![b] = unknown[b]]
  BY <1>1 DEF Search!TypeOK
<1>4. ASSUME Search!OpenContract(b) PROVE Search!TypeOK' /\ Search!KnowledgeHolds'
  <2> DEFINE new == [had EXCEPT !.exists = TRUE, !.status = old.status]
  <2>1. /\ new \in Search!Contract /\ new.exists
        /\ new.snapshots = had.snapshots /\ had.snapshots = <<>>
    BY <1>1, <1>2, <1>4 DEF Search!OpenContract, Search!Contract, Search!Booking
  <2>2. Revised(b, old, new, {old.vehicle}, unknown[b])
    BY <1>1, <1>3, <1>4 DEF Search!OpenContract, Revised
  <2>3. VehiclesOf(Search!ToSet(new.snapshots)) = {}
    BY <2>1 DEF Search!ToSet, VehiclesOf
  <2>4. old.vehicle \in Fleet
    BY <1>1 DEF Search!Booking
  <2> HIDE DEF old, new
  <2> QED
    BY <1>1, <2>1, <2>2, <2>3, <2>4, RevisedHolds
<1>5. ASSUME Search!Approve(b) PROVE Search!TypeOK' /\ Search!KnowledgeHolds'
  <2> DEFINE new == IF had.exists THEN [had EXCEPT !.status = "APROBADO"] ELSE had
             approved == [old EXCEPT !.status = "APROBADO"]
  <2>1. new \in Search!Contract /\ new.exists = had.exists /\ new.snapshots = had.snapshots
    BY <1>1 DEF Search!Contract, Search!Statuses
  <2>2. approved \in Search!Booking /\ approved.vehicle = old.vehicle
    BY <1>1 DEF Search!Booking, Search!Statuses
  <2>3. Revised(b, approved, new, drove[b], unknown[b])
    BY <1>1, <1>3, <1>5 DEF Search!Approve, Revised
  <2> HIDE DEF new, approved
  <2> QED
    BY <1>1, <1>2, <2>1, <2>2, <2>3, KnownVehicles, RevisedHolds
<1>6. ASSUME Search!Cancel(b) \/ Search!Confirm(b) PROVE Search!TypeOK' /\ Search!KnowledgeHolds'
  <2>1. PICK new \in Search!Booking :
                /\ new.vehicle = old.vehicle
                /\ Revised(b, new, had, drove[b], unknown[b])
    <3>1. CASE Search!Cancel(b)
      <4> DEFINE new == [old EXCEPT !.status = "CANCELADO"]
      <4>1. new \in Search!Booking /\ new.vehicle = old.vehicle
        BY <1>1 DEF Search!Booking, Search!Statuses
      <4>2. Revised(b, new, had, drove[b], unknown[b])
        BY <1>1, <1>3, <3>1 DEF Search!Cancel, Revised
      <4> QED
        BY <4>1, <4>2
    <3>2. CASE Search!Confirm(b)
      <4> DEFINE new == [old EXCEPT !.status = "APROBADO", !.kind = "rental"]
      <4>1. new \in Search!Booking /\ new.vehicle = old.vehicle
        BY <1>1 DEF Search!Booking, Search!Statuses, Search!Kinds
      <4>2. Revised(b, new, had, drove[b], unknown[b])
        BY <1>1, <1>3, <3>2 DEF Search!Confirm, Revised
      <4> QED
        BY <4>1, <4>2
    <3> QED
      BY <1>6, <3>1, <3>2
  <2> QED
    BY <1>1, <1>2, <2>1, KnownVehicles, RevisedHolds
<1>7. ASSUME NEW start \in Search!Starts, NEW vehicle \in Fleet,
              Search!ChangeVehicle(b, start, vehicle)
      PROVE  Search!TypeOK' /\ Search!KnowledgeHolds'
  <2> DEFINE snapshot == [old |-> old.vehicle, new |-> vehicle, start |-> old.start]
             new == [had EXCEPT !.snapshots = Append(@, snapshot)]
             moved == [old EXCEPT !.start = start, !.vehicle = vehicle]
  <2>1. snapshot \in Search!Snapshot /\ snapshot.old = old.vehicle /\ snapshot.new = vehicle
    BY <1>1 DEF Search!Booking, Search!Snapshot
  <2>2. /\ had.snapshots \in Seq(Search!Snapshot)
        /\ new \in Search!Contract /\ new.exists = had.exists
        /\ new.snapshots = Append(had.snapshots, snapshot)
    BY <1>1, <2>1 DEF Search!Contract
  <2>3. moved \in Search!Booking /\ moved.vehicle = vehicle
    BY <1>1 DEF Search!Booking
  <2>4. Revised(b, moved, new, drove[b] \cup {vehicle}, unknown[b]) /\ had.exists
    BY <1>1, <1>3, <1>7 DEF Search!ChangeVehicle, Revised
  <2>5. Search!ToSet(new.snapshots) = Search!ToSet(had.snapshots) \cup {snapshot}
    BY <2>2, SnapshotsKnown
  <2>6. VehiclesOf(Search!ToSet(new.snapshots)) =
        VehiclesOf(Search!ToSet(had.snapshots)) \cup {old.vehicle, vehicle}
    BY <2>1, <2>5, OneMore
  <2> HIDE DEF snapshot, new, moved
  <2>7. Search!Known(b) = {old.vehicle} \cup VehiclesOf(Search!ToSet(had.snapshots))
    BY KnownVehicles
  <2>8. /\ Search!Known(b) \subseteq drove[b] /\ drove[b] \subseteq Search!Known(b) \cup unknown[b]
        /\ new.exists /\ moved.vehicle = vehicle
    BY <1>2, <2>2, <2>3, <2>4
  <2>9. drove[b] \cup {vehicle} \in SUBSET Fleet
    BY <1>1
  <2> QED
    BY <1>1, <2>2, <2>3, <2>4, <2>6, <2>7, <2>8, <2>9, RevisedHolds
<1>8. ASSUME NEW start \in Search!Starts, NEW vehicle \in Fleet, Search!EditCart(b, start, vehicle)
      PROVE  Search!TypeOK' /\ Search!KnowledgeHolds'
  <2> DEFINE moved == [old EXCEPT !.start = start, !.vehicle = vehicle]
  <2>1. moved \in Search!Booking /\ moved.vehicle = vehicle /\ old.vehicle \in Fleet
    BY <1>1 DEF Search!Booking
  <2>2. CASE had.exists
    <3>1. Revised(b, moved, had, drove[b] \cup {vehicle}, unknown[b] \cup {old.vehicle})
      BY <1>1, <1>3, <1>8, <2>2 DEF Search!EditCart, Revised
    <3> HIDE DEF moved
    <3> QED
      BY <1>1, <1>2, <2>1, <2>2, <3>1, KnownVehicles, RevisedHolds
  <2>3. CASE ~had.exists
    <3>1. Revised(b, moved, had, drove[b], unknown[b])
      BY <1>1, <1>3, <1>8, <2>3 DEF Search!EditCart, Revised
    <3> HIDE DEF moved
    <3> QED
      BY <1>1, <1>2, <2>1, <2>3, <3>1, RevisedHolds
  <2> QED
    BY <2>2, <2>3
<1>9. ASSUME Search!UndoChange(b) PROVE Search!TypeOK' /\ Search!KnowledgeHolds'
  <2> DEFINE undone == Search!Last(had.snapshots)
             new == [had EXCEPT !.snapshots = Search!Front(@)]
             back == [old EXCEPT !.start = undone.start, !.vehicle = undone.old]
  <2>1. had.snapshots \in Seq(Search!Snapshot) /\ had.snapshots # <<>>
    BY <1>1, <1>9 DEF Search!Contract, Search!UndoChange
  <2>2. /\ Search!Front(had.snapshots) \in Seq(Search!Snapshot) /\ undone \in Search!Snapshot
        /\ Search!ToSet(had.snapshots) = Search!ToSet(Search!Front(had.snapshots)) \cup {undone}
    BY <2>1, SnapshotsKnown
  <2>3. undone.old \in Fleet /\ undone.new \in Fleet /\ undone.start \in Search!Starts
    BY <2>2 DEF Search!Snapshot
  <2>4. /\ new \in Search!Contract /\ new.exists = had.exists
        /\ new.snapshots = Search!Front(had.snapshots)
    BY <1>1, <2>2 DEF Search!Contract
  <2>5. back \in Search!Booking /\ back.vehicle = undone.old /\ old.vehicle \in Fleet
    BY <1>1, <2>3 DEF Search!Booking
  <2>6. Revised(b, back, new, drove[b], unknown[b] \cup {undone.new, old.vehicle})
    BY <1>1, <1>3, <1>9 DEF Search!UndoChange, Revised
  <2>7. had.exists
    BY <1>2, <2>1
  <2>8. VehiclesOf(Search!ToSet(had.snapshots)) =
        VehiclesOf(Search!ToSet(new.snapshots)) \cup {undone.old, undone.new}
    BY <2>2, <2>4, OneMore
  <2> HIDE DEF undone, new, back
  <2>9. Search!Known(b) = {old.vehicle} \cup VehiclesOf(Search!ToSet(had.snapshots))
    BY KnownVehicles
  <2>10. /\ Search!Known(b) \subseteq drove[b] /\ drove[b] \subseteq Search!Known(b) \cup unknown[b]
         /\ new.exists
    BY <1>2, <2>4, <2>7
  <2>11. unknown[b] \cup {undone.new, old.vehicle} \in SUBSET Fleet
    BY <1>1, <2>3, <2>5
  <2> QED
    BY <1>1, <2>4, <2>5, <2>6, <2>8, <2>9, <2>10, <2>11, RevisedHolds
<1> QED
  BY <1>4, <1>5, <1>6, <1>7, <1>8, <1>9

\* The invariant holds always.
LEMMA KnowledgeInvariance == Search!Spec => [](Search!TypeOK /\ Search!KnowledgeHolds)
<1> DEFINE Holds == Search!TypeOK /\ Search!KnowledgeHolds
<1>1. Holds /\ [Search!Next]_(Search!vars) => Holds'
  <2> SUFFICES ASSUME Search!TypeOK, Search!KnowledgeHolds, [Search!Next]_(Search!vars)
               PROVE  Search!TypeOK' /\ Search!KnowledgeHolds'
    OBVIOUS
  <2>1. CASE UNCHANGED Search!vars
    BY <2>1 DEF Search!vars, Search!TypeOK, Search!KnowledgeHolds, Search!Known,
                Search!SnapshotVehicles
  <2>2. ASSUME NEW status \in {"PENDIENTE", "APROBADO"}, NEW kind \in Search!Kinds,
               NEW start \in Search!Starts, NEW vehicle \in Fleet,
               Search!Book(status, kind, start, vehicle)
        PROVE  Search!TypeOK' /\ Search!KnowledgeHolds'
    <3>1. status \in Search!Statuses
      BY DEF Search!Statuses
    <3> QED
      BY <2>2, <3>1, BookHolds
  <2> QED
    BY <2>1, <2>2, HandlerHolds DEF Search!Next
<1>2. Search!Init => Holds
  BY InitKnown
<1> QED
  BY <1>1, <1>2, PTL DEF Search!Spec

\* The searches for bookings and for contracts agree through all changes, and a contract is found
\* by every vehicle that it has had and by no other, but for those a silent edit or an undoing
\* took from sight.
THEOREM OfficeSearchesAgree == OfficeSpec => []SearchesAgree
<1>1. Search!TypeOK /\ Search!KnowledgeHolds => Search!FoundByAllItsVehicles
  BY DEF Search!KnowledgeHolds, Search!FoundByAllItsVehicles, Search!FoundByVehicle, Search!Known
<1>2. Search!SearchesAgree
  BY DEF Search!SearchesAgree, Search!BookingsFound, Search!ContractsFound, Search!Matches,
         Search!StartsWithin, Search!UtcDay, Search!LocalDay
<1>3. part = "searches" /\ OfficeInit => Search!Init
  BY DEF OfficeInit
<1>4. part = "searches" /\ [OfficeNext]_vars => [Search!Next]_(Search!vars)
  BY DEF OfficeNext, vars, Search!vars
<1>5. part = "searches" /\ [OfficeNext]_vars => (part = "searches")'
  BY PartStays
<1>6. ~(part = "searches") /\ [OfficeNext]_vars => (~(part = "searches"))'
  BY PartStays
<1>7. part = "searches" /\ OfficeSpec => Search!Spec
  BY <1>3, <1>4, <1>5, PTL DEF OfficeSpec, Search!Spec
<1>8. ~(part = "searches") /\ OfficeSpec => [](~(part = "searches"))
  BY <1>6, PTL DEF OfficeSpec
<1> QED
  BY <1>1, <1>2, <1>7, <1>8, KnowledgeInvariance, PTL DEF SearchesAgree

-----------------------------------------------------------------------------
(***************************************************************************)
(* Sums over finite sets, as MapThenSumSet computes them: one element      *)
(* after the other, in an order that CHOOSE fixes.                         *)
(***************************************************************************)

\* Every nonempty set of natural numbers has a least one.
LEMMA LeastNumber ==
    ASSUME NEW T \in SUBSET Nat, T # {}
    PROVE  \E x \in T : \A y \in T : x <= y
<1>1. PICK x \in T : \A y \in T : ~(<<y, x>> \in OpToRel(<, Nat))
  BY NatLessThanWellFounded, WFMin, Zenon
<1>2. \A y \in T : ~(y < x)
  BY <1>1 DEF OpToRel
<1> QED
  BY <1>2

\* Of finite sets one is smallest: how a smallest counterexample is had.
LEMMA SmallestSet ==
    ASSUME NEW C, C # {}, \A T \in C : IsFiniteSet(T)
    PROVE  \E T \in C : \A U \in C : Cardinality(T) <= Cardinality(U)
<1> DEFINE Sizes == {Cardinality(T) : T \in C}
<1>1. \A T \in C : Cardinality(T) \in Nat
  BY FS_CardinalityType
<1>2. Sizes \in SUBSET Nat /\ Sizes # {}
  BY <1>1
<1>3. PICK n \in Sizes : \A m \in Sizes : n <= m
  <2> HIDE DEF Sizes
  <2> QED
    BY <1>2, LeastNumber
<1>4. PICK T \in C : n = Cardinality(T)
  OBVIOUS
<1> QED
  BY <1>3, <1>4

\* The element that a sum takes first.
First(T) == CHOOSE x \in T : TRUE

\* Sums of all subsets of a set.
Sums(g, w, S) ==
    \A T \in SUBSET S : g[T] = IF T = {} THEN 0 ELSE w[First(T)] + g[T \ {First(T)}]

IsSum(g, w, S) == g \in [SUBSET S -> Int] /\ Sums(g, w, S)

\* The element that CHOOSE takes is one of the set.
LEMMA FirstIsIn ==
    ASSUME NEW T, T # {}
    PROVE  First(T) \in T
BY DEF First

\* The recursion of a sum has a solution: by a least size for which it has none.
LEMMA SumsExist ==
    ASSUME NEW S, IsFiniteSet(S), NEW w, \A x \in S : w[x] \in Int
    PROVE  \E g : IsSum(g, w, S)
<1> DEFINE Upto(g, n) ==
             /\ g \in [SUBSET S -> Int]
             /\ \A T \in SUBSET S : Cardinality(T) <= n =>
                   g[T] = IF T = {} THEN 0 ELSE w[First(T)] + g[T \ {First(T)}]
           Bad == {n \in Nat : ~\E g : Upto(g, n)}
<1>1. \A T \in SUBSET S : /\ IsFiniteSet(T) /\ Cardinality(T) \in Nat
                          /\ Cardinality(T) <= Cardinality(S)
                          /\ (Cardinality(T) = 0 <=> T = {})
  BY FS_Subset, FS_CardinalityType, FS_EmptySet
<1>2. \A T \in SUBSET S : T # {} =>
         /\ First(T) \in S /\ T \ {First(T)} \in SUBSET S
         /\ Cardinality(T \ {First(T)}) = Cardinality(T) - 1
  BY <1>1, FirstIsIn, FS_RemoveElement
<1>3. Bad = {}
  <2> SUFFICES ASSUME Bad # {} PROVE FALSE
    OBVIOUS
  <2>1. PICK n \in Bad : \A m \in Bad : n <= m
    <3>1. Bad \in SUBSET Nat
      OBVIOUS
    <3> HIDE DEF Bad
    <3> QED
      BY <3>1, LeastNumber
  <2>2. CASE n = 0
    <3> DEFINE g == [T \in SUBSET S |-> 0]
    <3>1. Upto(g, 0)
      BY <1>1
    <3> QED
      BY <2>2, <3>1
  <2>3. CASE n # 0
    <3>1. n \in Nat /\ n - 1 \in Nat /\ ~(n <= n - 1)
      BY <2>3
    <3>2. PICK h : Upto(h, n - 1)
      <4>1. n - 1 \notin Bad
        <5> HIDE DEF Bad
        <5> QED
          BY <2>1, <3>1
      <4> QED
        BY <3>1, <4>1
    <3> DEFINE g == [T \in SUBSET S |-> IF T = {} THEN 0
                                        ELSE w[First(T)] + h[T \ {First(T)}]]
    <3>3. g \in [SUBSET S -> Int]
      BY <1>2, <3>2
    <3>4. ASSUME NEW T \in SUBSET S, Cardinality(T) <= n
          PROVE  g[T] = IF T = {} THEN 0 ELSE w[First(T)] + g[T \ {First(T)}]
      <4>1. CASE T = {}
        BY <4>1
      <4>2. CASE T # {}
        <5> DEFINE U == T \ {First(T)}
        <5>1. U \in SUBSET S /\ Cardinality(U) <= n - 1
          BY <1>1, <1>2, <3>4, <4>2
        <5>2. h[U] = IF U = {} THEN 0 ELSE w[First(U)] + h[U \ {First(U)}]
          BY <3>2, <5>1
        <5>3. g[U] = h[U]
          BY <5>1, <5>2
        <5> QED
          BY <4>2, <5>3
      <4> QED
        BY <4>1, <4>2
    <3>5. Upto(g, n)
      BY <3>3, <3>4
    <3> QED
      BY <3>5
  <2> QED
    BY <2>2, <2>3
<1>4. Cardinality(S) \in Nat
  BY FS_CardinalityType
<1>5. PICK g : Upto(g, Cardinality(S))
  BY <1>3, <1>4
<1>6. IsSum(g, w, S)
  BY <1>1, <1>5 DEF IsSum, Sums
<1> QED
  BY <1>6

\* It does not matter of which set's subsets it is taken.
LEMMA SumsAgree ==
    ASSUME NEW S, IsFiniteSet(S), NEW w, NEW g, Sums(g, w, S),
           NEW U, NEW h, Sums(h, w, U), NEW T \in SUBSET S, T \in SUBSET U
    PROVE  g[T] = h[T]
<1> DEFINE Bad == {V \in SUBSET T : g[V] # h[V]}
<1> SUFFICES ASSUME Bad # {} PROVE FALSE
  OBVIOUS
<1>1. \A V \in Bad : IsFiniteSet(V)
  BY FS_Subset
<1>2. PICK V \in Bad : \A W \in Bad : Cardinality(V) <= Cardinality(W)
  <2> HIDE DEF Bad
  <2> QED
    BY <1>1, SmallestSet
<1>3. V \in SUBSET S /\ V \in SUBSET U /\ V # {} /\ First(V) \in V
  <2>1. V \in SUBSET S /\ V \in SUBSET U
    OBVIOUS
  <2>2. V # {}
    BY <2>1 DEF IsSum, Sums
  <2> QED
    BY <2>1, <2>2, FirstIsIn
<1> DEFINE W == V \ {First(V)}
<1>4. W \in SUBSET T /\ Cardinality(W) < Cardinality(V)
  <2>1. IsFiniteSet(V) /\ W \in SUBSET T
    BY <1>1
  <2>2. Cardinality(V) \in Nat
    BY <2>1, FS_CardinalityType
  <2>3. Cardinality(W) = Cardinality(V) - 1
    <3>1. First(V) \in V
      BY <1>3
    <3> HIDE DEF Bad
    <3> QED
      BY <2>1, <3>1, FS_RemoveElement
  <2> QED
    BY <2>1, <2>2, <2>3
<1>5. g[W] = h[W]
  <2>1. Cardinality(W) \in Nat /\ Cardinality(V) \in Nat
    BY <1>1, <1>3, FS_RemoveElement, FS_CardinalityType
  <2>2. W \notin Bad
    <3> HIDE DEF Bad, W
    <3> QED
      BY <1>2, <1>4, <2>1
  <2> QED
    BY <1>4, <2>2
<1>6. g[V] = w[First(V)] + g[W] /\ h[V] = w[First(V)] + h[W]
  BY <1>3 DEF IsSum, Sums
<1> QED
  BY <1>5, <1>6

\* A sum can be begun with any element: by a smallest set for which it cannot.
LEMMA SumWithout ==
    ASSUME NEW S, IsFiniteSet(S), NEW w, \A x \in S : w[x] \in Int, NEW g, IsSum(g, w, S),
           NEW T \in SUBSET S, NEW x \in T
    PROVE  g[T] = w[x] + g[T \ {x}]
<1> DEFINE Bad == {V \in SUBSET S : \E y \in V : g[V] # w[y] + g[V \ {y}]}
<1> SUFFICES ASSUME Bad # {} PROVE FALSE
  OBVIOUS
<1>1. \A V \in Bad : IsFiniteSet(V)
  BY FS_Subset
<1>2. PICK V \in Bad : \A W \in Bad : Cardinality(V) <= Cardinality(W)
  <2> HIDE DEF Bad
  <2> QED
    BY <1>1, SmallestSet
<1>3. V \in SUBSET S
  OBVIOUS
<1>4. PICK y \in V : g[V] # w[y] + g[V \ {y}]
  OBVIOUS
<1>5. First(V) \in V /\ g[V] = w[First(V)] + g[V \ {First(V)}]
  BY <1>3, <1>4, FirstIsIn DEF IsSum, Sums
<1> DEFINE c == First(V)
<1>6. y # c
  BY <1>4, <1>5
<1>7. \A z \in V : /\ Cardinality(V \ {z}) = Cardinality(V) - 1 /\ Cardinality(V) \in Nat
                   /\ V \ {z} \in SUBSET S
  BY <1>1, <1>3, FS_RemoveElement, FS_CardinalityType
<1>8. \A z \in V : V \ {z} \notin Bad
  <2> SUFFICES ASSUME NEW z \in V, V \ {z} \in Bad PROVE FALSE
    OBVIOUS
  <2> HIDE DEF Bad
  <2> QED
    BY <1>2, <1>7
<1>9. g[V \ {c}] = w[y] + g[(V \ {c}) \ {y}]
  BY <1>4, <1>5, <1>6, <1>7, <1>8
<1>10. g[V \ {y}] = w[c] + g[(V \ {y}) \ {c}]
  BY <1>4, <1>5, <1>6, <1>7, <1>8
<1>11. (V \ {c}) \ {y} = (V \ {y}) \ {c} /\ (V \ {y}) \ {c} \in SUBSET S
  BY <1>3
<1>12. w[c] \in Int /\ w[y] \in Int /\ g[(V \ {y}) \ {c}] \in Int
  BY <1>3, <1>4, <1>5, <1>11 DEF IsSum, Sums
<1>13. g[V] = w[c] + g[V \ {c}] /\ g[V] # w[y] + g[V \ {y}]
  BY <1>4, <1>5
<1>14. g[V] = w[c] + (w[y] + g[(V \ {y}) \ {c}])
  BY <1>9, <1>11, <1>13
<1>15. g[V] # w[y] + (w[c] + g[(V \ {y}) \ {c}])
  BY <1>10, <1>13
<1> HIDE DEF c, Bad
<1> QED
  BY <1>12, <1>14, <1>15

\* The sum over two disjoint sets is the sum of both sums.
LEMMA SumOfUnion ==
    ASSUME NEW S, IsFiniteSet(S), NEW w, \A x \in S : w[x] \in Int, NEW g, IsSum(g, w, S),
           NEW T \in SUBSET S, NEW U \in SUBSET S, T \cap U = {}
    PROVE  g[T \cup U] = g[T] + g[U]
<1> DEFINE Bad == {V \in SUBSET T : g[V \cup U] # g[V] + g[U]}
<1> SUFFICES ASSUME Bad # {} PROVE FALSE
  OBVIOUS
<1>1. \A V \in Bad : IsFiniteSet(V)
  BY FS_Subset
<1>2. PICK V \in Bad : \A W \in Bad : Cardinality(V) <= Cardinality(W)
  <2> HIDE DEF Bad
  <2> QED
    BY <1>1, SmallestSet
<1>3. g[{}] = 0 /\ g[U] \in Int
  BY DEF IsSum, Sums
<1>4. V # {}
  <2> SUFFICES ASSUME V = {} PROVE FALSE
    OBVIOUS
  <2>1. V \cup U = U /\ g[V] = 0
    BY <1>3
  <2>2. g[V \cup U] # g[V] + g[U]
    OBVIOUS
  <2> HIDE DEF Bad
  <2> QED
    BY <1>3, <2>1, <2>2
<1> DEFINE x == First(V)
           W == V \ {x}
<1>5. x \in V /\ x \notin U /\ W \in SUBSET T
  BY <1>4, FirstIsIn
<1>6. Cardinality(W) = Cardinality(V) - 1 /\ Cardinality(V) \in Nat
  BY <1>1, <1>5, FS_RemoveElement, FS_CardinalityType
<1>7. g[W \cup U] = g[W] + g[U]
  <2>1. W \notin Bad
    <3>1. ~(Cardinality(V) <= Cardinality(W))
      BY <1>6
    <3> HIDE DEF Bad, W
    <3> QED
      BY <1>2, <3>1
  <2> QED
    BY <1>5, <2>1
<1>8. g[V] = w[x] + g[W]
  BY <1>5, SumWithout
<1>9. g[V \cup U] = w[x] + g[(V \cup U) \ {x}]
  BY <1>5, SumWithout
<1>10. (V \cup U) \ {x} = W \cup U
  BY <1>5
<1>11. w[x] \in Int /\ g[W] \in Int
  BY <1>5 DEF IsSum, Sums
<1>12. g[V \cup U] # g[V] + g[U]
  OBVIOUS
<1>13. g[V \cup U] = w[x] + g[W \cup U]
  BY <1>9, <1>10
<1> HIDE DEF x, W, Bad
<1> QED
  BY <1>3, <1>7, <1>8, <1>11, <1>12, <1>13

\* A sum of natural numbers is one: by a smallest set whose sum is not.
LEMMA SumIsNatural ==
    ASSUME NEW S, IsFiniteSet(S), NEW w, \A x \in S : w[x] \in Nat, NEW g, IsSum(g, w, S)
    PROVE  \A T \in SUBSET S : g[T] \in Nat
<1> DEFINE Bad == {T \in SUBSET S : g[T] \notin Nat}
<1> SUFFICES ASSUME Bad # {} PROVE FALSE
  OBVIOUS
<1>1. PICK T \in Bad : \A U \in Bad : Cardinality(T) <= Cardinality(U)
  <2>1. \A U \in Bad : IsFiniteSet(U)
    BY FS_Subset
  <2> HIDE DEF Bad
  <2> QED
    BY <2>1, SmallestSet
<1>2. T \in SUBSET S /\ IsFiniteSet(T) /\ g[T] \notin Nat
  BY FS_Subset
<1>3. T # {} /\ First(T) \in T
  BY <1>2, FirstIsIn DEF IsSum, Sums
<1> DEFINE U == T \ {First(T)}
<1>4. g[T] = w[First(T)] + g[U] /\ w[First(T)] \in Nat
  BY <1>2, <1>3 DEF IsSum, Sums
<1>5. Cardinality(U) = Cardinality(T) - 1 /\ Cardinality(T) \in Nat
  BY <1>2, <1>3, FS_RemoveElement, FS_CardinalityType
<1>6. U \in SUBSET S /\ U \notin Bad
  <2>1. ~(Cardinality(T) <= Cardinality(U))
    BY <1>5
  <2> HIDE DEF Bad, U
  <2>2. U \notin Bad
    BY <1>1, <2>1
  <2> QED
    BY <1>2, <2>2 DEF U
<1>7. g[U] \in Nat
  BY <1>6
<1> HIDE DEF U
<1> QED
  BY <1>2, <1>4, <1>7

\* A sum of zeros is zero.
LEMMA SumOfZeros ==
    ASSUME NEW S, IsFiniteSet(S), NEW w, \A x \in S : w[x] \in Int, NEW g, IsSum(g, w, S),
           NEW T \in SUBSET S, \A x \in T : w[x] = 0
    PROVE  g[T] = 0
<1> DEFINE Bad == {U \in SUBSET T : g[U] # 0}
<1> SUFFICES ASSUME Bad # {} PROVE FALSE
  OBVIOUS
<1>1. PICK U \in Bad : \A V \in Bad : Cardinality(U) <= Cardinality(V)
  <2>1. \A V \in Bad : IsFiniteSet(V)
    BY FS_Subset
  <2> HIDE DEF Bad
  <2> QED
    BY <2>1, SmallestSet
<1>2. U \in SUBSET T /\ IsFiniteSet(U) /\ g[U] # 0
  BY FS_Subset
<1>3. U # {} /\ First(U) \in U
  BY <1>2, FirstIsIn DEF IsSum, Sums
<1> DEFINE V == U \ {First(U)}
<1>4. g[U] = w[First(U)] + g[V] /\ w[First(U)] = 0
  BY <1>2, <1>3 DEF IsSum, Sums
<1>5. Cardinality(V) = Cardinality(U) - 1 /\ Cardinality(U) \in Nat
  <2> HIDE DEF Bad
  <2> QED
    BY <1>2, <1>3, FS_RemoveElement, FS_CardinalityType
<1>6. V \in SUBSET T /\ V \notin Bad
  <2>1. ~(Cardinality(U) <= Cardinality(V))
    BY <1>5
  <2> HIDE DEF Bad, V
  <2>2. V \notin Bad
    BY <1>1, <2>1
  <2> QED
    BY <1>2, <2>2 DEF V
<1>7. g[V] = 0
  BY <1>6
<1> HIDE DEF V
<1> QED
  BY <1>2, <1>4, <1>7

-----------------------------------------------------------------------------
(***************************************************************************)
(* Expenses.  The sums are compared as sums over sets that are equal, or   *)
(* that together make up another one; the rows by vehicle are a sum of     *)
(* sums.  Of the history they need only GeneralHasNoVehicle.               *)
(***************************************************************************)

movements == x1
commissions == x2
category == x3
gone == x4

USE DEF movements, commissions, category, gone

\* What MapThenSumSet computes is the sum: for movements,
LEMMA SpentIsSum ==
    ASSUME NEW w, \A i \in DOMAIN movements : w[i] = movements[i].amount /\ w[i] \in Int,
           IsFiniteSet(DOMAIN movements), NEW g, IsSum(g, w, DOMAIN movements),
           NEW ids \in SUBSET DOMAIN movements
    PROVE  Spendings!Spent(ids) = g[ids]
<1> DEFINE From(f) == [s \in SUBSET ids |-> IF s = {} THEN 0
                         ELSE movements[CHOOSE x \in s : TRUE].amount
                                + f[s \ {CHOOSE x \in s : TRUE}]]
           sum == CHOOSE f : f = From(f)
<1>1. PICK h : IsSum(h, w, ids)
  BY SumsExist, FS_Subset
<1>2. h = From(h)
  <2>1. ASSUME NEW s \in SUBSET ids PROVE h[s] = From(h)[s]
    <3>1. CASE s = {}
      BY <1>1, <3>1 DEF IsSum, Sums
    <3>2. CASE s # {}
      BY <1>1, <3>2, FirstIsIn DEF IsSum, Sums, First
    <3> QED
      BY <3>1, <3>2
  <2>2. h \in [SUBSET ids -> Int]
    BY <1>1 DEF IsSum
  <2> QED
    BY <2>1, <2>2
<1>3. sum = From(sum)
  <2> HIDE DEF From
  <2> QED
    BY <1>2
<1>4. Spendings!Spent(ids) = sum[ids]
  BY DEF Spendings!Spent, Spendings!MapThenSumSet, Spendings!MapThenFoldSet
<1>5. Sums(sum, w, ids)
  <2>1. ASSUME NEW s \in SUBSET ids
        PROVE  sum[s] = IF s = {} THEN 0 ELSE w[First(s)] + sum[s \ {First(s)}]
    <3>1. sum[s] = From(sum)[s]
      BY <1>3
    <3>2. s # {} => w[First(s)] = movements[First(s)].amount
      BY FirstIsIn
    <3> HIDE DEF sum
    <3> QED
      BY <3>1, <3>2 DEF First
  <2> QED
    BY <2>1 DEF Sums
<1> HIDE DEF sum
<1> QED
  BY <1>4, <1>5, SumsAgree, FS_Subset DEF IsSum

\* for commissions,
LEMMA OwedIsSum ==
    ASSUME NEW w, \A i \in DOMAIN commissions : w[i] = commissions[i].amount /\ w[i] \in Int,
           IsFiniteSet(DOMAIN commissions), NEW g, IsSum(g, w, DOMAIN commissions),
           NEW ids \in SUBSET DOMAIN commissions
    PROVE  Spendings!Owed(ids) = g[ids]
<1> DEFINE From(f) == [s \in SUBSET ids |-> IF s = {} THEN 0
                         ELSE commissions[CHOOSE x \in s : TRUE].amount
                                + f[s \ {CHOOSE x \in s : TRUE}]]
           sum == CHOOSE f : f = From(f)
<1>1. PICK h : IsSum(h, w, ids)
  BY SumsExist, FS_Subset
<1>2. h = From(h)
  <2>1. ASSUME NEW s \in SUBSET ids PROVE h[s] = From(h)[s]
    <3>1. CASE s = {}
      BY <1>1, <3>1 DEF IsSum, Sums
    <3>2. CASE s # {}
      BY <1>1, <3>2, FirstIsIn DEF IsSum, Sums, First
    <3> QED
      BY <3>1, <3>2
  <2>2. h \in [SUBSET ids -> Int]
    BY <1>1 DEF IsSum
  <2> QED
    BY <2>1, <2>2
<1>3. sum = From(sum)
  <2> HIDE DEF From
  <2> QED
    BY <1>2
<1>4. Spendings!Owed(ids) = sum[ids]
  BY DEF Spendings!Owed, Spendings!MapThenSumSet, Spendings!MapThenFoldSet
<1>5. Sums(sum, w, ids)
  <2>1. ASSUME NEW s \in SUBSET ids
        PROVE  sum[s] = IF s = {} THEN 0 ELSE w[First(s)] + sum[s \ {First(s)}]
    <3>1. sum[s] = From(sum)[s]
      BY <1>3
    <3>2. s # {} => w[First(s)] = commissions[First(s)].amount
      BY FirstIsIn
    <3> HIDE DEF sum
    <3> QED
      BY <3>1, <3>2 DEF First
  <2> QED
    BY <2>1 DEF Sums
<1> HIDE DEF sum
<1> QED
  BY <1>4, <1>5, SumsAgree, FS_Subset DEF IsSum

\* and for the rows by vehicle.
LEMMA RowsTotalIsSum ==
    ASSUME NEW rows, IsFiniteSet(rows), NEW w, \A r \in rows : w[r] = r.total /\ w[r] \in Int,
           NEW g, IsSum(g, w, rows), NEW ids \in SUBSET rows
    PROVE  Spendings!RowsTotal(ids) = g[ids]
<1> DEFINE From(f) == [s \in SUBSET ids |-> IF s = {} THEN 0
                         ELSE (CHOOSE x \in s : TRUE).total
                                + f[s \ {CHOOSE x \in s : TRUE}]]
           sum == CHOOSE f : f = From(f)
<1>1. PICK h : IsSum(h, w, ids)
  BY SumsExist, FS_Subset
<1>2. h = From(h)
  <2>1. ASSUME NEW s \in SUBSET ids PROVE h[s] = From(h)[s]
    <3>1. CASE s = {}
      BY <1>1, <3>1 DEF IsSum, Sums
    <3>2. CASE s # {}
      BY <1>1, <3>2, FirstIsIn DEF IsSum, Sums, First
    <3> QED
      BY <3>1, <3>2
  <2>2. h \in [SUBSET ids -> Int]
    BY <1>1 DEF IsSum
  <2> QED
    BY <2>1, <2>2
<1>3. sum = From(sum)
  <2> HIDE DEF From
  <2> QED
    BY <1>2
<1>4. Spendings!RowsTotal(ids) = sum[ids]
  BY DEF Spendings!RowsTotal, Spendings!MapThenSumSet, Spendings!MapThenFoldSet
<1>5. Sums(sum, w, ids)
  <2>1. ASSUME NEW s \in SUBSET ids
        PROVE  sum[s] = IF s = {} THEN 0 ELSE w[First(s)] + sum[s \ {First(s)}]
    <3>1. sum[s] = From(sum)[s]
      BY <1>3
    <3>2. s # {} => w[First(s)] = First(s).total
      BY FirstIsIn
    <3> HIDE DEF sum
    <3> QED
      BY <3>1, <3>2 DEF First
  <2> QED
    BY <2>1 DEF Sums
<1> HIDE DEF sum
<1> QED
  BY <1>4, <1>5, SumsAgree, FS_Subset DEF IsSum

\* The invariant holds of the beginning, for any choice of a category.
LEMMA SpendingsStart ==
    ASSUME Spendings!Assumptions, Spendings!Init
    PROVE  Spendings!TypeOK /\ Spendings!GeneralHasNoVehicle
<1>1. (CHOOSE c \in Categories : TRUE) \in Categories
  BY DEF Spendings!Assumptions
<1> QED
  BY <1>1, EmptySeq DEF Spendings!Init, Spendings!TypeOK, Spendings!GeneralHasNoVehicle

\* A movement more keeps it.
LEMMA RecordHolds ==
    ASSUME Spendings!TypeOK, Spendings!GeneralHasNoVehicle,
           NEW amount \in Outlays, NEW day \in Spendings!Days,
           NEW vehicle \in Vehicles \cup {Spendings!None},
           NEW out \in BOOLEAN, NEW noted \in BOOLEAN,
           Spendings!Record(amount, day, vehicle, out, noted)
    PROVE  Spendings!TypeOK' /\ Spendings!GeneralHasNoVehicle'
<1> DEFINE new == [amount |-> amount, day |-> day, vehicle |-> vehicle, out |-> out,
                   noted |-> noted, deleted |-> FALSE, general |-> vehicle = Spendings!None]
<1>1. new \in Spendings!Movement /\ (new.general <=> new.vehicle = Spendings!None)
  BY DEF Spendings!Movement
<1>2. movements' = Append(movements, new)
  BY DEF Spendings!Record
<1> HIDE DEF new
<1>3. Spendings!TypeOK'
  BY <1>1, <1>2 DEF Spendings!TypeOK, Spendings!Record
<1>4. Spendings!GeneralHasNoVehicle'
  BY <1>1, <1>2 DEF Spendings!TypeOK, Spendings!GeneralHasNoVehicle
<1> QED
  BY <1>3, <1>4

\* So does any other record for a movement with no vehicle if and only if it is general.
LEMMA MovementRevised ==
    ASSUME Spendings!TypeOK, Spendings!GeneralHasNoVehicle, NEW i \in DOMAIN movements,
           NEW new \in Spendings!Movement, new.general <=> new.vehicle = Spendings!None,
           movements' = [movements EXCEPT ![i] = new],
           UNCHANGED <<commissions, category, gone>>
    PROVE  Spendings!TypeOK' /\ Spendings!GeneralHasNoVehicle'
BY DEF Spendings!TypeOK, Spendings!GeneralHasNoVehicle

\* Corrections, deletions and restorations are such.
LEMMA MovementHolds ==
    ASSUME Spendings!TypeOK, Spendings!GeneralHasNoVehicle, NEW i \in DOMAIN movements,
           \/ \E amount \in Outlays, day \in Spendings!Days,
                   vehicle \in Vehicles \cup {Spendings!None},
                 out \in BOOLEAN : Spendings!Correct(i, amount, day, vehicle, out)
           \/ Spendings!Delete(i) \/ Spendings!Restore(i)
    PROVE  Spendings!TypeOK' /\ Spendings!GeneralHasNoVehicle'
<1> DEFINE old == movements[i]
<1>1. old \in Spendings!Movement /\ (old.general <=> old.vehicle = Spendings!None)
  BY DEF Spendings!TypeOK, Spendings!GeneralHasNoVehicle
<1>2. PICK new \in Spendings!Movement : /\ new.general <=> new.vehicle = Spendings!None
                              /\ movements' = [movements EXCEPT ![i] = new]
  <2>1. ASSUME NEW amount \in Outlays, NEW day \in Spendings!Days,
               NEW vehicle \in Vehicles \cup {Spendings!None},
               NEW out \in BOOLEAN, Spendings!Correct(i, amount, day, vehicle, out)
        PROVE  \E new \in Spendings!Movement : /\ new.general <=> new.vehicle = Spendings!None
                                     /\ movements' = [movements EXCEPT ![i] = new]
    <3> DEFINE new == Spendings!Corrected(old, amount, day, vehicle, out)
    <3>1. new \in Spendings!Movement /\ (new.general <=> new.vehicle = Spendings!None)
      BY <1>1 DEF Spendings!Corrected, Spendings!Movement
    <3>2. movements' = [movements EXCEPT ![i] = new]
      BY <2>1 DEF Spendings!Correct
    <3> QED
      BY <3>1, <3>2
  <2>2. ASSUME NEW flag \in BOOLEAN, movements' = [movements EXCEPT ![i].deleted = flag]
        PROVE  \E new \in Spendings!Movement : /\ new.general <=> new.vehicle = Spendings!None
                                     /\ movements' = [movements EXCEPT ![i] = new]
    <3> DEFINE new == [old EXCEPT !.deleted = flag]
    <3>1. new \in Spendings!Movement /\ (new.general <=> new.vehicle = Spendings!None)
      BY <1>1 DEF Spendings!Movement
    <3>2. movements' = [movements EXCEPT ![i] = new]
      BY <2>2
    <3> QED
      BY <3>1, <3>2
  <2> QED
    BY <2>1, <2>2 DEF Spendings!Delete, Spendings!Restore
<1>3. UNCHANGED <<commissions, category, gone>>
  BY DEF Spendings!Correct, Spendings!Delete, Spendings!Restore
<1> QED
  BY <1>2, <1>3, MovementRevised

\* The remaining steps touch no movement.
LEMMA OthersHold ==
    ASSUME Spendings!TypeOK, Spendings!GeneralHasNoVehicle,
           \/ \E amount \in Outlays, day, booked \in Spendings!Days :
                 Spendings!Commit(amount, day, booked)
           \/ \E c \in DOMAIN commissions : Spendings!MarkAsPaid(c)
           \/ \E v \in Vehicles : \/ Spendings!RemoveVehicle(v)
                                  \/ \E c \in Categories : Spendings!Recategorise(v, c)
    PROVE  Spendings!TypeOK' /\ Spendings!GeneralHasNoVehicle'
<1>1. UNCHANGED movements
  BY DEF Spendings!Commit, Spendings!MarkAsPaid, Spendings!RemoveVehicle, Spendings!Recategorise
<1>2. ASSUME NEW amount \in Outlays, NEW day \in Spendings!Days, NEW booked \in Spendings!Days,
             Spendings!Commit(amount, day, booked)
      PROVE  Spendings!TypeOK'
  <2> DEFINE new == [amount |-> amount, day |-> day, booked |-> booked, paid |-> FALSE]
  <2>1. new \in Spendings!Commission
    BY DEF Spendings!Commission
  <2>2. commissions' = Append(commissions, new) /\ UNCHANGED <<movements, category, gone>>
    BY <1>2 DEF Spendings!Commit
  <2>3. commissions' \in Seq(Spendings!Commission)
    <3>1. commissions \in Seq(Spendings!Commission)
      BY DEF Spendings!TypeOK
    <3> HIDE DEF new
    <3> QED
      BY <2>1, <2>2, <3>1
  <2> QED
    BY <2>2, <2>3 DEF Spendings!TypeOK
<1>3. ASSUME NEW c \in DOMAIN commissions, Spendings!MarkAsPaid(c) PROVE Spendings!TypeOK'
  <2> DEFINE new == [commissions[c] EXCEPT !.paid = TRUE]
  <2>1. commissions[c] \in Spendings!Commission
    BY DEF Spendings!TypeOK
  <2>2. new \in Spendings!Commission
    BY <2>1 DEF Spendings!Commission
  <2>3. /\ commissions' = [commissions EXCEPT ![c] = new]
        /\ UNCHANGED <<movements, category, gone>>
    BY <1>3 DEF Spendings!MarkAsPaid
  <2>4. commissions' \in Seq(Spendings!Commission)
    <3>1. commissions \in Seq(Spendings!Commission)
      BY DEF Spendings!TypeOK
    <3> HIDE DEF new
    <3> QED
      BY <2>2, <2>3, <3>1
  <2> QED
    BY <2>3, <2>4 DEF Spendings!TypeOK
<1>4. ASSUME NEW v \in Vehicles,
             Spendings!RemoveVehicle(v) \/ \E c \in Categories : Spendings!Recategorise(v, c)
      PROVE  Spendings!TypeOK'
  BY <1>4 DEF Spendings!TypeOK, Spendings!RemoveVehicle, Spendings!Recategorise
<1> QED
  BY <1>1, <1>2, <1>3, <1>4 DEF Spendings!GeneralHasNoVehicle

\* There are finitely many movements, each of a number and of a vehicle or none.
LEMMA FiniteMovements ==
    ASSUME Spendings!Assumptions, Spendings!TypeOK
    PROVE  /\ IsFiniteSet(DOMAIN movements)
           /\ \A i \in DOMAIN movements : /\ movements[i] \in Spendings!Movement
                                          /\ movements[i].amount \in Int
                                          /\ movements[i].vehicle \in Vehicles \cup {Spendings!None}
<1>1. DOMAIN movements = 1 .. Len(movements) /\ Len(movements) \in Nat
  BY DEF Spendings!TypeOK
<1>2. IsFiniteSet(1 .. Len(movements))
  BY <1>1, FS_Interval
<1>3. \A i \in DOMAIN movements : movements[i] \in Spendings!Movement
  BY DEF Spendings!TypeOK
<1> QED
  BY <1>1, <1>2, <1>3 DEF Spendings!Movement, Spendings!Assumptions

\* What was spent is a number.
LEMMA SpentIsNumber ==
    ASSUME Spendings!Assumptions, Spendings!TypeOK
    PROVE  /\ \A A \in SUBSET DOMAIN movements : Spendings!Spent(A) \in Int
           /\ Spendings!Spent({}) = 0
<1> DEFINE w == [i \in DOMAIN movements |-> movements[i].amount]
           D == DOMAIN movements
<1>1. /\ IsFiniteSet(D)
      /\ \A i \in D : w[i] = movements[i].amount /\ w[i] \in Int
  BY FiniteMovements
<1> HIDE DEF w
<1>2. PICK g : IsSum(g, w, D)
  BY <1>1, SumsExist
<1>3. \A T \in SUBSET D : Spendings!Spent(T) = g[T]
  BY <1>1, <1>2, SpentIsSum
<1>4. \A T \in SUBSET D : g[T] \in Int
  BY <1>2 DEF IsSum
<1>5. g[{}] = 0 /\ {} \in SUBSET D
  BY <1>2 DEF IsSum, Sums
<1> QED
  BY <1>3, <1>4, <1>5

\* What is owed is a number.
LEMMA OwedIsNumber ==
    ASSUME Spendings!Assumptions, Spendings!TypeOK, NEW p
    PROVE  Spendings!Owed(Spendings!PaidCommissions(p)) \in Int
<1> DEFINE w == [c \in DOMAIN commissions |-> commissions[c].amount]
           D == DOMAIN commissions
<1>1. D = 1 .. Len(commissions) /\ Len(commissions) \in Nat
  BY DEF Spendings!TypeOK
<1>2. IsFiniteSet(D)
  BY <1>1, FS_Interval
<1>3. \A c \in D : commissions[c] \in Spendings!Commission
  BY DEF Spendings!TypeOK
<1>4. \A c \in D : w[c] = commissions[c].amount /\ w[c] \in Int
  BY <1>3 DEF Spendings!Commission, Spendings!Assumptions
<1> HIDE DEF w
<1>5. PICK g : IsSum(g, w, D)
  BY <1>2, <1>4, SumsExist
<1>6. Spendings!PaidCommissions(p) \in SUBSET D
  BY DEF Spendings!PaidCommissions
<1>7. Spendings!Owed(Spendings!PaidCommissions(p)) = g[Spendings!PaidCommissions(p)]
  BY <1>2, <1>4, <1>5, <1>6, OwedIsSum
<1> QED
  BY <1>5, <1>6, <1>7 DEF IsSum

\* What was spent in two ways that exclude each other.
LEMMA SpentTogether ==
    ASSUME Spendings!Assumptions, Spendings!TypeOK, NEW A \in SUBSET DOMAIN movements,
           NEW B \in SUBSET DOMAIN movements, A \cap B = {}
    PROVE  Spendings!Spent(A \cup B) = Spendings!Spent(A) + Spendings!Spent(B)
<1> DEFINE w == [i \in DOMAIN movements |-> movements[i].amount]
           D == DOMAIN movements
<1>1. /\ IsFiniteSet(D)
      /\ \A i \in D : w[i] = movements[i].amount /\ w[i] \in Int
  BY FiniteMovements
<1> HIDE DEF w
<1>2. PICK g : IsSum(g, w, D)
  BY <1>1, SumsExist
<1>3. \A T \in SUBSET D : Spendings!Spent(T) = g[T]
  BY <1>1, <1>2, SpentIsSum
<1>4. g[A \cup B] = g[A] + g[B]
  BY <1>1, <1>2, SumOfUnion
<1>5. A \cup B \in SUBSET D
  OBVIOUS
<1> QED
  BY <1>3, <1>4, <1>5

\* The vehicles that have a row among these.
VehiclesOfRows(rows) == {r.vehicle : r \in rows}

\* One row for each vehicle with a live movement, with what was spent on it.
LEMMA RowsAre ==
    ASSUME Spendings!Assumptions, Spendings!TypeOK, NEW p
    PROVE  /\ IsFiniteSet(Spendings!Rows(p))
           /\ \A r \in Spendings!Rows(p) : /\ r.vehicle \in Vehicles
                                 /\ r.category = category[r.vehicle]
                                 /\ r.total = Spendings!Spent(Spendings!LiveOf({r.vehicle}, p))
                                 /\ r.total \in Int
           /\ \A r, s \in Spendings!Rows(p) : r.vehicle = s.vehicle => r = s
           /\ VehiclesOfRows(Spendings!Rows(p)) =
               {movements[i].vehicle : i \in Spendings!Live(p)} \ {Spendings!None}
<1> DEFINE RowOf(v) == [vehicle |-> v, category |-> category[v],
                           total |-> Spendings!Spent(Spendings!LiveOf({v}, p)),
                      count |-> Spendings!Cardinality(Spendings!LiveOf({v}, p))]
           V == {movements[i].vehicle : i \in Spendings!Live(p)} \ {Spendings!None}
<1>1. Spendings!Rows(p) = {RowOf(v) : v \in V}
  BY DEF Spendings!Rows
<1>2. V \subseteq Vehicles
  BY FiniteMovements DEF Spendings!Live
<1>3. \A v : Spendings!LiveOf({v}, p) \in SUBSET DOMAIN movements
  BY DEF Spendings!LiveOf, Spendings!Live
<1>4. \A v : Spendings!Spent(Spendings!LiveOf({v}, p)) \in Int
  BY <1>3, SpentIsNumber
<1>5. IsFiniteSet(Spendings!Rows(p))
  <2> DEFINE I == {i \in Spendings!Live(p) : movements[i].vehicle # Spendings!None}
             f == [i \in I |-> RowOf(movements[i].vehicle)]
  <2>1. IsFiniteSet(I)
    BY FiniteMovements, FS_Subset DEF Spendings!Live
  <2>2. f \in Surjection(I, Spendings!Rows(p))
    <3>1. \A i \in I : f[i] \in Spendings!Rows(p)
      BY <1>1
    <3>2. \A r \in Spendings!Rows(p) : \E i \in I : f[i] = r
      BY <1>1
    <3> QED
      BY <3>1, <3>2 DEF Surjection
  <2> HIDE DEF I, f
  <2> QED
    BY <2>1, <2>2, FS_Surjection
<1>6. \A v : /\ RowOf(v).vehicle = v /\ RowOf(v).category = category[v]
             /\ RowOf(v).total = Spendings!Spent(Spendings!LiveOf({v}, p))
  OBVIOUS
<1> HIDE DEF RowOf
<1>7. VehiclesOfRows(Spendings!Rows(p)) = V
  <2> HIDE DEF V
  <2> QED
    BY <1>1, <1>6 DEF VehiclesOfRows
<1>8. \A r \in Spendings!Rows(p) : \E v \in V : r = RowOf(v)
  BY <1>1
<1>9. ASSUME NEW r \in Spendings!Rows(p)
      PROVE  /\ r.vehicle \in Vehicles
             /\ r.category = category[r.vehicle]
             /\ r.total = Spendings!Spent(Spendings!LiveOf({r.vehicle}, p))
             /\ r.total \in Int
             /\ r = RowOf(r.vehicle)
  <2>1. PICK v \in V : r = RowOf(v)
    BY <1>8
  <2>2. r.vehicle = v /\ v \in Vehicles
    BY <1>2, <1>6, <2>1
  <2> HIDE DEF V
  <2> QED
    BY <1>4, <1>6, <2>1, <2>2
<1>10. \A r, s \in Spendings!Rows(p) : r.vehicle = s.vehicle => r = s
  BY <1>9
<1> QED
  BY <1>5, <1>7, <1>9, <1>10

\* The total of rows is what was spent on their vehicles: a sum of sums.
LEMMA RowsSpent ==
    ASSUME Spendings!Assumptions, Spendings!TypeOK, NEW p, NEW Q \in SUBSET Spendings!Rows(p)
    PROVE  Spendings!RowsTotal(Q) = Spendings!Spent(Spendings!LiveOf(VehiclesOfRows(Q), p))
<1> DEFINE R == Spendings!Rows(p)
           w == [r \in R |-> r.total]
           Of(T) == Spendings!LiveOf(VehiclesOfRows(T), p)
<1>1. IsFiniteSet(R) /\ \A r \in R : w[r] = r.total /\ w[r] \in Int
  BY RowsAre
<1> HIDE DEF w
<1>2. PICK g : IsSum(g, w, R)
  BY <1>1, SumsExist
<1>3. \A T \in SUBSET R : Spendings!RowsTotal(T) = g[T]
  BY <1>1, <1>2, RowsTotalIsSum
<1> DEFINE Bad == {T \in SUBSET R : g[T] # Spendings!Spent(Of(T))}
<1> SUFFICES ASSUME Bad # {} PROVE FALSE
  BY <1>3
<1>4. \A T \in Bad : IsFiniteSet(T)
  BY <1>1, FS_Subset
<1>5. PICK T \in Bad : \A U \in Bad : Cardinality(T) <= Cardinality(U)
  <2> HIDE DEF Bad
  <2> QED
    BY <1>4, SmallestSet
<1>6. T \in SUBSET R /\ g[T] # Spendings!Spent(Of(T))
  OBVIOUS
<1>7. T # {}
  <2> SUFFICES ASSUME T = {} PROVE FALSE
    OBVIOUS
  <2>1. Of(T) = {}
    BY DEF Spendings!LiveOf, VehiclesOfRows
  <2>2. g[T] = 0
    BY <1>2 DEF IsSum, Sums
  <2>3. Spendings!Spent({}) = 0
    BY SpentIsNumber
  <2> QED
    BY <1>6, <2>1, <2>2, <2>3
<1> DEFINE r == First(T)
           U == T \ {r}
<1>8. r \in T /\ U \in SUBSET R
  BY <1>6, <1>7, FirstIsIn
<1>9. U \notin Bad
  <2>1. ~(Cardinality(T) <= Cardinality(U))
    BY <1>4, <1>8, FS_RemoveElement, FS_CardinalityType
  <2> HIDE DEF Bad, U
  <2> QED
    BY <1>5, <2>1
<1>10. g[U] = Spendings!Spent(Of(U))
  BY <1>8, <1>9
<1>11. g[T] = r.total + g[U]
  BY <1>1, <1>2, <1>6, <1>8, SumWithout
<1>12. /\ r.total = Spendings!Spent(Spendings!LiveOf({r.vehicle}, p))
       /\ r.vehicle \notin VehiclesOfRows(U)
  BY <1>6, <1>8, RowsAre DEF VehiclesOfRows
<1>13. VehiclesOfRows(T) = {r.vehicle} \cup VehiclesOfRows(U)
  BY <1>8 DEF VehiclesOfRows
<1>14. /\ Of(T) = Spendings!LiveOf({r.vehicle}, p) \cup Of(U)
       /\ Spendings!LiveOf({r.vehicle}, p) \cap Of(U) = {}
       /\ Spendings!LiveOf({r.vehicle}, p) \in SUBSET DOMAIN movements
       /\ Of(U) \in SUBSET DOMAIN movements
  BY <1>12, <1>13 DEF Spendings!LiveOf, Spendings!Live
<1>15. Spendings!Spent(Of(T))
           = Spendings!Spent(Spendings!LiveOf({r.vehicle}, p)) + Spendings!Spent(Of(U))
  BY <1>14, SpentTogether
<1> QED
  BY <1>6, <1>10, <1>11, <1>12, <1>15

\* The first of the three agreements: the card shows what the lists show.
LEMMA CardIsListedAlways == Spendings!CardIsListed
<1> SUFFICES ASSUME NEW p \in Spendings!Periods, \A i \in Spendings!Live(p) : ~movements[i].noted,
                    Spendings!ListedCommissions(p) = Spendings!PaidCommissions(p)
             PROVE  Spendings!Card(p)
                     = Spendings!Spent(Spendings!ListedMovements(p))
                         + Spendings!Owed(Spendings!ListedCommissions(p))
  BY DEF Spendings!CardIsListed
<1>1. Spendings!ListedMovements(p) = Spendings!Live(p)
  BY DEF Spendings!ListedMovements
<1> QED
  BY <1>1 DEF Spendings!Card

\* The second: rows by vehicle, movements of no vehicle and commissions make up the card.
LEMMA VehiclesMakeUpCardAlways ==
    ASSUME Spendings!Assumptions, Spendings!TypeOK, Spendings!GeneralHasNoVehicle
    PROVE  Spendings!VehiclesMakeUpCard
<1> SUFFICES ASSUME NEW p \in Spendings!Periods
             PROVE  /\ Spendings!Rows(p) = UNION {Spendings!RowsOf(c, p) : c \in Categories}
                    /\ Spendings!Card(p)
                           = Spendings!RowsTotal(Spendings!Rows(p))
                             + Spendings!Spent({i \in Spendings!Live(p) : movements[i].general})
                             + Spendings!Owed(Spendings!PaidCommissions(p))
  BY DEF Spendings!VehiclesMakeUpCard
<1>1. \A r \in Spendings!Rows(p) : r.category \in Categories
  BY RowsAre DEF Spendings!TypeOK
<1>2. Spendings!Rows(p) = UNION {Spendings!RowsOf(c, p) : c \in Categories}
  BY <1>1 DEF Spendings!RowsOf
<1> DEFINE G == {i \in Spendings!Live(p) : movements[i].general}
           V == Spendings!LiveOf(VehiclesOfRows(Spendings!Rows(p)), p)
<1>3. Spendings!RowsTotal(Spendings!Rows(p)) = Spendings!Spent(V)
  BY RowsSpent
<1>4. Spendings!Live(p) \subseteq DOMAIN movements
  BY DEF Spendings!Live
<1>5. \A i \in Spendings!Live(p) : i \in V <=> movements[i].vehicle # Spendings!None
  BY RowsAre DEF Spendings!LiveOf
<1>6. Spendings!Live(p) = V \cup G /\ V \cap G = {} /\ V \subseteq Spendings!Live(p)
  <2>1. V \subseteq Spendings!Live(p)
    BY DEF Spendings!LiveOf
  <2>2. \A i \in Spendings!Live(p) : i \in G <=> movements[i].vehicle = Spendings!None
    BY <1>4 DEF Spendings!GeneralHasNoVehicle
  <2> HIDE DEF V
  <2> QED
    BY <1>5, <2>1, <2>2
<1>7. /\ Spendings!Spent(Spendings!Live(p)) = Spendings!Spent(V) + Spendings!Spent(G)
  <2> HIDE DEF V, G
  <2>1. V \in SUBSET DOMAIN movements /\ G \in SUBSET DOMAIN movements
    BY <1>4, <1>6
  <2> QED
    BY <1>6, <2>1, SpentTogether
<1>8. Spendings!Card(p)
      = Spendings!RowsTotal(Spendings!Rows(p)) + Spendings!Spent(G)
          + Spendings!Owed(Spendings!PaidCommissions(p))
  BY <1>3, <1>7 DEF Spendings!Card
<1> QED
  BY <1>2, <1>8

\* The third: the card of a category shows what its owners and its rows are shown.
LEMMA CategoriesAgreeAlways ==
    ASSUME Spendings!Assumptions, Spendings!TypeOK
    PROVE  Spendings!CategoriesAgreeWithOwners
<1> SUFFICES ASSUME NEW p \in Spendings!Periods, NEW c \in Categories
             PROVE  LET commission == Spendings!Owed(Spendings!PaidCommissions(p))
                        statements ==
                          UNION {Spendings!Statement(v, p) : v \in {w \in Vehicles : category[w] = c}}
                    IN  /\ Spendings!CardOf(c, p) = commission + Spendings!Spent(statements)
                        /\ Spendings!CardOf(c, p) = commission
                           + Spendings!RowsTotal({r \in Spendings!RowsOf(c, p) : r.vehicle \notin gone})
  BY DEF Spendings!CategoriesAgreeWithOwners
<1> DEFINE statements ==
             UNION {Spendings!Statement(v, p) : v \in {w \in Vehicles : category[w] = c}}
<1>1. statements = Spendings!LiveOf(Spendings!FoundIn(c), p)
  BY DEF Spendings!Statement, Spendings!LiveOf, Spendings!FoundIn
<1> DEFINE Q == {r \in Spendings!RowsOf(c, p) : r.vehicle \notin gone}
<1>2. Q \in SUBSET Spendings!Rows(p)
  BY DEF Spendings!RowsOf
<1>3. Spendings!LiveOf(VehiclesOfRows(Q), p) = Spendings!LiveOf(Spendings!FoundIn(c), p)
  <2>1. \A v \in VehiclesOfRows(Spendings!Rows(p)) :
            v \in VehiclesOfRows(Q) <=> v \in Spendings!FoundIn(c)
    BY RowsAre DEF VehiclesOfRows, Spendings!RowsOf, Spendings!FoundIn
  <2>2. \A i \in Spendings!Live(p) : movements[i].vehicle \in Vehicles =>
                             movements[i].vehicle \in VehiclesOfRows(Spendings!Rows(p))
    BY RowsAre DEF Spendings!Assumptions
  <2>3. /\ VehiclesOfRows(Q) \subseteq VehiclesOfRows(Spendings!Rows(p))
        /\ Spendings!FoundIn(c) \subseteq Vehicles
    BY <1>2 DEF VehiclesOfRows, Spendings!FoundIn
  <2> HIDE DEF Q
  <2> QED
    BY <2>1, <2>2, <2>3 DEF Spendings!LiveOf
<1>4. Spendings!RowsTotal(Q) = Spendings!Spent(Spendings!LiveOf(Spendings!FoundIn(c), p))
  BY <1>2, <1>3, RowsSpent
<1>5. Spendings!CardOf(c, p) = Spendings!Owed(Spendings!PaidCommissions(p))
        + Spendings!Spent(Spendings!LiveOf(Spendings!FoundIn(c), p))
  <2>1. Spendings!LiveOf(Spendings!FoundIn(c), p) \in SUBSET DOMAIN movements
    BY DEF Spendings!LiveOf, Spendings!Live
  <2>2. /\ Spendings!Spent(Spendings!LiveOf(Spendings!FoundIn(c), p)) \in Int
        /\ Spendings!Owed(Spendings!PaidCommissions(p)) \in Int
    BY <2>1, SpentIsNumber, OwedIsNumber
  <2> QED
    BY <2>2 DEF Spendings!CardOf
<1> QED
  BY <1>1, <1>4, <1>5, Zenon

\* The invariant holds always.
LEMMA SpendingsInvariance ==
    ASSUME Spendings!Assumptions
    PROVE  Spendings!Spec => [](Spendings!TypeOK /\ Spendings!GeneralHasNoVehicle)
<1> DEFINE Holds == Spendings!TypeOK /\ Spendings!GeneralHasNoVehicle
<1>1. Spendings!Init => Holds
  BY SpendingsStart
<1>2. Holds /\ [Spendings!Next]_(Spendings!vars) => Holds'
  <2> SUFFICES ASSUME Spendings!TypeOK, Spendings!GeneralHasNoVehicle,
                      [Spendings!Next]_(Spendings!vars)
               PROVE  Spendings!TypeOK' /\ Spendings!GeneralHasNoVehicle'
    OBVIOUS
  <2>1. CASE UNCHANGED Spendings!vars
    BY <2>1 DEF Spendings!vars, Spendings!TypeOK, Spendings!GeneralHasNoVehicle
  <2>2. CASE Spendings!Next
    BY <2>2, RecordHolds, MovementHolds, OthersHold DEF Spendings!Next
  <2> QED
    BY <2>1, <2>2
<1> QED
  BY <1>1, <1>2, PTL DEF Spendings!Spec

\* The dashboard's card comes to its list of transactions, the expenses by vehicle and of no
\* vehicle make up the card, and a category's card, rows and owners' statements agree.
THEOREM OfficeExpensesAgree == OfficeSpec => []ExpensesAgree
<1>1. Spendings!Spec => [](Spendings!TypeOK /\ Spendings!GeneralHasNoVehicle)
  BY PartsAssumption, SpendingsInvariance
<1>2. Spendings!TypeOK /\ Spendings!GeneralHasNoVehicle =>
        /\ Spendings!CardIsListed /\ Spendings!VehiclesMakeUpCard
        /\ Spendings!CategoriesAgreeWithOwners
  BY PartsAssumption, CardIsListedAlways, VehiclesMakeUpCardAlways, CategoriesAgreeAlways
<1>3. part = "expenses" /\ OfficeInit => Spendings!Init
  BY DEF OfficeInit
<1>4. part = "expenses" /\ [OfficeNext]_vars => [Spendings!Next]_(Spendings!vars)
  BY DEF OfficeNext, vars, Spendings!vars
<1>5. part = "expenses" /\ [OfficeNext]_vars => (part = "expenses")'
  BY PartStays
<1>6. ~(part = "expenses") /\ [OfficeNext]_vars => (~(part = "expenses"))'
  BY PartStays
<1>7. part = "expenses" /\ OfficeSpec => Spendings!Spec
  BY <1>3, <1>4, <1>5, PTL DEF OfficeSpec, Spendings!Spec
<1>8. ~(part = "expenses") /\ OfficeSpec => [](~(part = "expenses"))
  BY <1>6, PTL DEF OfficeSpec
<1> QED
  BY <1>1, <1>2, <1>7, <1>8, PTL DEF ExpensesAgree

-----------------------------------------------------------------------------
(***************************************************************************)
(* Commissions.  Every commission has a number of its own, so that what is *)
(* set by hand can be told from what is recomputed; what is deleted is not *)
(* followed any more, and a booking given to the store has no percentage.  *)
(* AllFollow says of any number of automatic commissions what              *)
(* AmountsFollowBooking says of one: there may be several, until staff     *)
(* sets all but one by hand.                                               *)
(***************************************************************************)

booking == x1
contract == x2
earned == x3
made == x4
deletion == x5
given == x6
followed == x7
edits == x8

USE DEF booking, contract, earned, made, deletion, given, followed, edits

\* The commissions' finite sets are those of the theorems about sets.
LEMMA SameSets ==
    \A S : Agents!IsFiniteSet(S) = IsFiniteSet(S) /\ Agents!Cardinality(S) = Cardinality(S)
<1> SUFFICES ASSUME NEW S
             PROVE  Agents!IsFiniteSet(S) = IsFiniteSet(S) /\ Agents!Cardinality(S) = Cardinality(S)
  OBVIOUS
<1>1. Agents!IsFiniteSet(S) = IsFiniteSet(S)
  BY DEF Agents!IsFiniteSet, IsFiniteSet
<1>2. Agents!Cardinality(S) = Cardinality(S)
  BY DEF Agents!Cardinality, Cardinality
<1> QED
  BY <1>1, <1>2

\* What is true of every state of the commissions.
AgentsInv ==
    /\ Agents!TypeOK
    /\ Agents!Numbered
    /\ Agents!NothingBefore
    /\ Agents!DeletionIsKnown
    /\ Agents!AllFollow
    /\ Agents!DeletedStaysDeleted

\* New commissions with new numbers.
Fresh(new) ==
    /\ new \in SUBSET Agents!Commission /\ IsFiniteSet(new)
    /\ \A c \in new : made < c.id /\ c.id <= made + Cardinality(new)
    /\ \A c, d \in new : c.id = d.id => c = d

\* One with the next number is new.
LEMMA OneIsFresh ==
    ASSUME NEW c \in Agents!Commission, made \in Nat, c.id = made + 1
    PROVE  Fresh({c})
<1>1. IsFiniteSet({c}) /\ Cardinality({c}) = 1
  BY FS_Singleton
<1> QED
  BY <1>1 DEF Fresh

\* So is what a concierge earns with a booking.
LEMMA SellerIsFresh ==
    ASSUME Agents!Assumptions, Agents!TypeOK, NEW b \in Agents!Booking,
           b.concierge # Agents!None, NEW base \in Nat
    PROVE  Fresh(Agents!OfConcierge(b, base))
<1>1. /\ b.concierge \in DOMAIN OwnPercentages
      /\ OwnPercentages[b.concierge] \in Nat \cup {Agents!NoNumber}
      /\ b.rate \in Nat \cup {Agents!NoNumber}
  <2>1. b.concierge \in Concierges \cup {TheStore} /\ b.rate \in Nat \cup {Agents!NoNumber}
    BY DEF Agents!Booking
  <2>2. /\ Concierges \cup {TheStore} \subseteq DOMAIN OwnPercentages
        /\ \A owner \in DOMAIN OwnPercentages : OwnPercentages[owner] \in Nat \cup {Agents!NoNumber}
    BY DEF Agents!Assumptions
  <2> QED
    BY <2>1, <2>2
<1>2. Agents!RateOf(b) \in Nat
  BY <1>1 DEF Agents!RateOf, Agents!Or, Agents!NoNumber, Agents!DefaultRate
<1>3. Agents!Share(base, Agents!RateOf(b)) \in Nat
  BY <1>2 DEF Agents!Share
<1> DEFINE share == Agents!Share(base, Agents!RateOf(b))
           c == Agents!New(made + 1, b.concierge, share, "booking", FALSE)
<1>4. c \in Agents!Commission /\ c.id = made + 1 /\ made \in Nat
  BY <1>1, <1>3 DEF Agents!New, Agents!Commission, Agents!TypeOK
<1> QED
  BY <1>4, OneIsFresh DEF Agents!OfConcierge

\* The number of an item among those of its cart.
Place(cart, item) == Cardinality({i \in cart : i.vehicle <= item.vehicle})

\* Items of a cart have different places, from 1 on.
LEMMA PlacesDiffer ==
    ASSUME NEW cart, IsFiniteSet(cart), \A i \in cart : i.vehicle \in Int,
           \A i, j \in cart : i.vehicle = j.vehicle => i = j
    PROVE  /\ \A i \in cart : Place(cart, i) \in 1 .. Cardinality(cart)
           /\ \A i, j \in cart : Place(cart, i) = Place(cart, j) => i = j
<1> DEFINE Upto(i) == {k \in cart : k.vehicle <= i.vehicle}
<1>1. ASSUME NEW i \in cart
      PROVE  /\ Upto(i) \in SUBSET cart /\ IsFiniteSet(Upto(i)) /\ i \in Upto(i)
             /\ Cardinality(Upto(i)) \in Nat /\ Cardinality(Upto(i)) <= Cardinality(cart)
             /\ Cardinality(Upto(i)) # 0
  <2>1. Upto(i) \in SUBSET cart /\ i \in Upto(i)
    OBVIOUS
  <2>2. IsFiniteSet(Upto(i)) /\ Cardinality(Upto(i)) <= Cardinality(cart)
    BY <2>1, FS_Subset
  <2> HIDE DEF Upto
  <2>3. Cardinality(Upto(i)) \in Nat /\ Cardinality(Upto(i)) # 0
    BY <2>1, <2>2, FS_CardinalityType, FS_EmptySet
  <2> QED
    BY <2>1, <2>2, <2>3
<1>2. ASSUME NEW i \in cart, NEW j \in cart, i.vehicle < j.vehicle
      PROVE  Cardinality(Upto(i)) # Cardinality(Upto(j))
  <2>1. Upto(i) \in SUBSET Upto(j) /\ j \notin Upto(i) /\ j \in Upto(j)
    BY <1>2
  <2>2. IsFiniteSet(Upto(j))
    BY <1>1
  <2> HIDE DEF Upto
  <2> QED
    BY <2>1, <2>2, FS_Subset
<1>3. Cardinality(cart) \in Nat
  BY FS_CardinalityType
<1>4. \A i \in cart : Place(cart, i) = Cardinality(Upto(i))
  BY DEF Place
<1> HIDE DEF Upto
<1>5. \A i \in cart : Place(cart, i) \in 1 .. Cardinality(cart)
  BY <1>1, <1>3, <1>4
<1>6. ASSUME NEW i \in cart, NEW j \in cart, Place(cart, i) = Place(cart, j) PROVE i = j
  <2>1. i.vehicle \in Int /\ j.vehicle \in Int
    OBVIOUS
  <2>2. ~(i.vehicle < j.vehicle) /\ ~(j.vehicle < i.vehicle)
    BY <1>2, <1>4, <1>6
  <2> QED
    BY <2>1, <2>2
<1> QED
  BY <1>5, <1>6

\* So what the owners of its vehicles earn is new.
LEMMA OwnersAreFresh ==
    ASSUME Agents!Assumptions, Agents!TypeOK, NEW b \in Agents!Booking
    PROVE  Fresh(Agents!OfVehicles(b))
<1> DEFINE cart == b.cart
           For(i) == Agents!New(made + Place(cart, i), i.owner,
                                Agents!Share(i.total, Agents!Or(OwnPercentages[i.owner], 0)),
                         "booking", FALSE)
           new == {For(i) : i \in cart}
<1>1. /\ IsFiniteSet(cart)
      /\ \A i \in cart : i.vehicle \in Int /\ i.owner \in DOMAIN OwnPercentages /\ i.total \in Nat
      /\ \A i, j \in cart : i.vehicle = j.vehicle => i = j
  <2>1. CASE cart = {}
    BY <2>1, FS_EmptySet
  <2>2. CASE cart \in CommissionedCarts
    BY <2>2, SameSets DEF Agents!Assumptions
  <2> QED
    BY <2>1, <2>2 DEF Agents!Booking
<1>2. Agents!OfVehicles(b) = new
  BY SameSets DEF Agents!OfVehicles, Place
<1> HIDE DEF cart
<1>3. /\ \A i \in cart : Place(cart, i) \in 1 .. Cardinality(cart)
      /\ \A i, j \in cart : Place(cart, i) = Place(cart, j) => i = j
  BY <1>1, PlacesDiffer
<1>4. made \in Nat /\ Cardinality(cart) \in Nat
  BY <1>1, FS_CardinalityType DEF Agents!TypeOK
<1>5. ASSUME NEW i \in cart PROVE For(i) \in Agents!Commission /\ For(i).id = made + Place(cart, i)
  <2>1. Agents!Or(OwnPercentages[i.owner], 0) \in Nat
    BY <1>1 DEF Agents!Assumptions, Agents!Or, Agents!NoNumber
  <2>2. Agents!Share(i.total, Agents!Or(OwnPercentages[i.owner], 0)) \in Nat
    BY <1>1, <2>1 DEF Agents!Share
  <2> QED
    BY <1>1, <1>3, <1>4, <2>2 DEF Agents!New, Agents!Commission
<1> HIDE DEF For
<1>6. IsFiniteSet(new) /\ Cardinality(new) = Cardinality(cart)
  <2> DEFINE f == [i \in cart |-> For(i)]
  <2>1. f \in Surjection(cart, new)
    BY DEF Surjection
  <2>2. f \in Injection(cart, new)
    <3>1. f \in [cart -> new] /\ DOMAIN f = cart
      OBVIOUS
    <3>2. \A i, j \in cart : f[i] = f[j] => i = j
      <4>1. \A i \in cart : f[i].id = made + Place(cart, i)
        BY <1>5
      <4> HIDE DEF f
      <4> SUFFICES ASSUME NEW i \in cart, NEW j \in cart, f[i] = f[j] PROVE i = j
        OBVIOUS
      <4>3. made + Place(cart, i) = made + Place(cart, j)
        BY <4>1
      <4>4. Place(cart, i) = Place(cart, j)
        BY <1>3, <1>4, <4>3
      <4> QED
        BY <1>3, <4>4
    <3> HIDE DEF f
    <3> QED
      BY <3>1, <3>2 DEF Injection, IsInjective
  <2> QED
    BY <1>1, <2>1, <2>2, FS_Surjection
<1>7. \A c \in new : c \in Agents!Commission /\ made < c.id /\ c.id <= made + Cardinality(new)
  BY <1>3, <1>4, <1>5, <1>6
<1>8. \A c, d \in new : c.id = d.id => c = d
  BY <1>3, <1>4, <1>5
<1> QED
  BY <1>2, <1>6, <1>7, <1>8 DEF Fresh

\* New commissions leave every one its own number.
LEMMA AddHolds ==
    ASSUME Agents!TypeOK, Agents!Numbered, NEW new, Fresh(new), Agents!Add(new)
    PROVE  /\ earned' = earned \cup new
           /\ earned' \in SUBSET Agents!Commission /\ IsFiniteSet(earned')
           /\ made' \in Nat /\ made' >= made /\ Agents!Numbered'
<1>1. Cardinality(new) \in Nat /\ IsFiniteSet(earned \cup new)
  BY FS_CardinalityType, FS_Union, SameSets DEF Fresh, Agents!TypeOK
<1>2. earned' = earned \cup new /\ made' = made + Cardinality(new)
  BY SameSets DEF Agents!Add
<1>3. made \in Nat /\ \A c \in earned \cup new : c \in Agents!Commission /\ c.id \in Nat
  BY DEF Agents!TypeOK, Fresh, Agents!Commission
<1>4. \A c \in earned' : c.id <= made'
  BY <1>1, <1>2, <1>3 DEF Agents!Numbered, Fresh
<1>5. \A c, d \in earned' : c.id = d.id => c = d
  BY <1>2, <1>3 DEF Agents!Numbered, Fresh
<1> QED
  BY <1>1, <1>2, <1>3, <1>4, <1>5 DEF Agents!Numbered

\* What a concierge earns with a booking is one automatic commission, from its base.
LEMMA NobodyElse ==
    ASSUME NEW b, NEW base
    PROVE  \A c \in Agents!OfConcierge(b, base) :
              /\ c.owner = b.concierge /\ c.amount = Agents!Share(base, Agents!RateOf(b))
              /\ c.source = "booking" /\ ~c.manual
BY DEF Agents!OfConcierge, Agents!New

\* A request makes no commissions.
LEMMA RequestHolds ==
    ASSUME AgentsInv, NEW b \in Agents!Booking, b.status # Agents!None, Agents!Request(b)
    PROVE  AgentsInv'
<1>1. earned = {} /\ given = 0 /\ deletion = "none"
  BY DEF AgentsInv, Agents!NothingBefore, Agents!Request
<1>2. Agents!TypeOK'
  BY DEF AgentsInv, Agents!TypeOK, Agents!Request
<1>3. UNCHANGED <<contract, earned, made, deletion, given, followed, edits>> /\ booking' = b
  BY DEF Agents!Request
<1> QED
  BY <1>1, <1>2, <1>3
     DEF AgentsInv, Agents!Numbered, Agents!NothingBefore, Agents!DeletionIsKnown,
         Agents!AllFollow, Agents!Automatic, Agents!DeletedStaysDeleted

\* A purchase makes the first ones, from the total there is.
LEMMA PurchaseHolds ==
    ASSUME Agents!Assumptions, AgentsInv, NEW b \in Agents!Booking, b.status # Agents!None,
           b.concierge \in Concierges \cup {Agents!None}, Agents!Purchase(b)
    PROVE  AgentsInv'
<1> DEFINE new == [b EXCEPT !.concierge = IF @ = Agents!None THEN TheStore ELSE @]
<1>1. /\ earned = {} /\ given = 0 /\ deletion = "none"
      /\ UNCHANGED <<contract, deletion, given, edits>>
      /\ booking' = new
  BY DEF AgentsInv, Agents!NothingBefore, Agents!Purchase
<1>2. /\ new \in Agents!Booking /\ new.concierge # Agents!None /\ new.status # Agents!None
      /\ b.concierge # Agents!None => new = b
  BY DEF Agents!Booking, Agents!Assumptions
<1>3. CASE b.status # "APROBADO"
  <2>1. UNCHANGED <<earned, made, followed>>
    BY <1>3 DEF Agents!Purchase
  <2>2. Agents!TypeOK'
    BY <1>1, <1>2, <2>1 DEF AgentsInv, Agents!TypeOK
  <2> HIDE DEF new
  <2> QED
    BY <1>1, <1>2, <2>1, <2>2
       DEF AgentsInv, Agents!Numbered, Agents!NothingBefore, Agents!DeletionIsKnown,
           Agents!AllFollow, Agents!Automatic, Agents!DeletedStaysDeleted
<1>4. CASE b.status = "APROBADO"
  <2> DEFINE made_ == Agents!ForBooking(b)
  <2>1. Fresh(made_)
    BY SellerIsFresh, OwnersAreFresh
       DEF AgentsInv, Agents!ForBooking, Agents!Base, Agents!MaxZero, Agents!Booking
  <2>2. Agents!Add(made_) /\ followed' = (b.concierge # Agents!None /\ ~Agents!OwnRateUsed(b))
    BY <1>4 DEF Agents!Purchase
  <2> HIDE DEF made_
  <2>3. /\ earned' = made_
        /\ earned' \in SUBSET Agents!Commission /\ IsFiniteSet(earned')
        /\ made' \in Nat /\ made' >= made /\ Agents!Numbered'
    BY <1>1, <2>1, <2>2, AddHolds DEF AgentsInv
  <2>4. Agents!TypeOK'
    BY <1>1, <1>2, <2>2, <2>3, SameSets DEF AgentsInv, Agents!TypeOK
  <2>5. ASSUME followed' PROVE \A c \in earned' : c.amount = Agents!Amount(b) /\ new = b
    <3>1. b.concierge # Agents!None /\ Agents!RateOf(b) = Agents!Or(b.rate, Agents!DefaultRate)
      BY <2>2, <2>5 DEF Agents!OwnRateUsed, Agents!RateOf, Agents!Or
    <3>2. earned' = Agents!OfConcierge(b, Agents!Base(b))
      BY <2>3, <3>1 DEF made_, Agents!ForBooking
    <3> QED
      BY <1>2, <3>1, <3>2, NobodyElse DEF Agents!Amount, Agents!Share, Agents!Base
  <2>6. Agents!AllFollow'
    BY <1>1, <2>5 DEF Agents!AllFollow, Agents!Automatic
  <2>7. Agents!NothingBefore' /\ Agents!DeletionIsKnown' /\ Agents!DeletedStaysDeleted'
    BY <1>1, <1>2 DEF Agents!NothingBefore, Agents!DeletionIsKnown, Agents!DeletedStaysDeleted
  <2> QED
    BY <2>3, <2>4, <2>6, <2>7 DEF AgentsInv
<1> QED
  BY <1>3, <1>4

\* So does an approval, if there are none.
LEMMA ApproveHolds ==
    ASSUME Agents!Assumptions, AgentsInv, Agents!Approve
    PROVE  AgentsInv'
<1> DEFINE new == [booking EXCEPT !.status = "APROBADO"]
<1>1. /\ booking' = new /\ booking.status # Agents!None /\ booking \in Agents!Booking
      /\ contract' = (IF contract = Agents!None THEN Agents!None ELSE "APROBADO")
      /\ UNCHANGED <<deletion, given>>
  BY DEF Agents!Approve, AgentsInv, Agents!TypeOK
<1>2. /\ new \in Agents!Booking /\ new.status = "APROBADO" /\ contract' \in Agents!Statuses
      /\ new.concierge = booking.concierge /\ new.rate = booking.rate
      /\ Agents!Amount(new) = Agents!Amount(booking)
  BY <1>1 DEF Agents!Booking, Agents!Statuses, Agents!Amount
<1> HIDE DEF new
<1>3. CASE earned # {}
  <2>1. UNCHANGED <<earned, made, followed>>
    BY <1>3 DEF Agents!Approve
  <2> QED
    BY <1>1, <1>2, <2>1
       DEF AgentsInv, Agents!TypeOK, Agents!Numbered, Agents!NothingBefore,
           Agents!DeletionIsKnown, Agents!AllFollow, Agents!Automatic, Agents!DeletedStaysDeleted,
           Agents!None
<1>4. CASE earned = {}
  <2> DEFINE ones == Agents!ForBooking(booking)
  <2>1. Fresh(ones)
    BY <1>1, SellerIsFresh, OwnersAreFresh
       DEF AgentsInv, Agents!ForBooking, Agents!Base, Agents!MaxZero, Agents!Booking
  <2>2. Agents!Add(ones) /\ followed' = (followed /\ ~Agents!OwnRateUsed(booking))
    BY <1>4 DEF Agents!Approve
  <2>3. booking.concierge # Agents!None => ones = Agents!OfConcierge(booking, Agents!Base(booking))
    BY DEF Agents!ForBooking
  <2> HIDE DEF ones
  <2>4. /\ earned' = ones
        /\ earned' \in SUBSET Agents!Commission /\ IsFiniteSet(earned')
        /\ made' \in Nat /\ made' >= made /\ Agents!Numbered'
    BY <1>4, <2>1, <2>2, AddHolds DEF AgentsInv
  <2>5. Agents!TypeOK'
    BY <1>1, <1>2, <2>2, <2>4, SameSets DEF AgentsInv, Agents!TypeOK
  <2>6. ASSUME followed', booking.concierge # Agents!None
        PROVE  \A c \in earned' : c.amount = Agents!Amount(booking)
    <3>1. Agents!RateOf(booking) = Agents!Or(booking.rate, Agents!DefaultRate)
      BY <2>2, <2>6 DEF Agents!OwnRateUsed, Agents!RateOf, Agents!Or
    <3> QED
      BY <2>3, <2>4, <2>6, <3>1, NobodyElse DEF Agents!Amount, Agents!Share, Agents!Base
  <2>7. Agents!AllFollow'
    BY <1>1, <1>2, <2>6 DEF Agents!AllFollow, Agents!Automatic
  <2>8. Agents!NothingBefore' /\ Agents!DeletionIsKnown'
    BY <1>1, <1>2, <2>2 DEF AgentsInv, Agents!NothingBefore, Agents!DeletionIsKnown, Agents!None
  <2>9. ASSUME given > 0 PROVE \A c \in earned' : c.owner = TheStore /\ c.amount = 0
    <3>1. booking.concierge = TheStore /\ TheStore # Agents!None /\ booking.rate = 0
      BY <2>9 DEF AgentsInv, Agents!DeletionIsKnown, Agents!Assumptions
    <3>2. Agents!RateOf(booking) = 0 /\ Agents!Base(booking) \in Nat
      BY <1>1, <3>1
         DEF Agents!RateOf, Agents!Or, Agents!NoNumber, Agents!Base, Agents!MaxZero,
             Agents!Booking
    <3> QED
      BY <2>3, <2>4, <3>1, <3>2, NobodyElse DEF Agents!Share
  <2>10. Agents!DeletedStaysDeleted'
    BY <1>1, <2>9 DEF Agents!DeletedStaysDeleted
  <2> QED
    BY <2>4, <2>5, <2>7, <2>8, <2>10 DEF AgentsInv
<1> QED
  BY <1>3, <1>4

\* A confirmation counts the delivery, and is not followed, or there is no concierge.
LEMMA ConfirmHolds ==
    ASSUME Agents!Assumptions, AgentsInv, Agents!Confirm
    PROVE  AgentsInv'
<1> DEFINE new == [booking EXCEPT !.status = "APROBADO", !.reserve = FALSE]
<1>1. /\ booking' = new /\ booking.reserve /\ booking \in Agents!Booking
      /\ UNCHANGED <<contract, deletion, given>>
  BY DEF Agents!Confirm, AgentsInv, Agents!TypeOK
<1>2. /\ new \in Agents!Booking /\ new.status = "APROBADO"
      /\ new.concierge = booking.concierge /\ new.rate = booking.rate
      /\ Agents!Amount(new) = Agents!Amount(booking)
  BY <1>1 DEF Agents!Booking, Agents!Statuses, Agents!Amount
<1> HIDE DEF new
<1>3. CASE booking.concierge = Agents!None /\ earned # {}
  <2>1. UNCHANGED <<earned, made, followed>>
    BY <1>3 DEF Agents!Confirm
  <2> QED
    BY <1>1, <1>2, <2>1
       DEF AgentsInv, Agents!TypeOK, Agents!Numbered, Agents!NothingBefore,
           Agents!DeletionIsKnown, Agents!AllFollow, Agents!Automatic, Agents!DeletedStaysDeleted,
           Agents!None
<1>4. CASE booking.concierge = Agents!None /\ earned = {}
  <2>1. /\ Fresh(Agents!OfVehicles(booking)) /\ Agents!Add(Agents!OfVehicles(booking))
        /\ UNCHANGED followed
    BY <1>1, <1>4, OwnersAreFresh DEF AgentsInv, Agents!Confirm
  <2>2. /\ earned' \in SUBSET Agents!Commission /\ IsFiniteSet(earned')
        /\ made' \in Nat /\ made' >= made /\ Agents!Numbered'
    BY <2>1, AddHolds DEF AgentsInv
  <2>3. ~(given > 0)
    BY <1>4 DEF AgentsInv, Agents!DeletionIsKnown, Agents!Assumptions
  <2> QED
    BY <1>1, <1>2, <1>4, <2>1, <2>2, <2>3, SameSets
       DEF AgentsInv, Agents!TypeOK, Agents!NothingBefore, Agents!DeletionIsKnown,
           Agents!AllFollow, Agents!DeletedStaysDeleted, Agents!None
<1>5. CASE booking.concierge # Agents!None
  <2> DEFINE ones == Agents!OfConcierge(booking, booking.total)
  <2>1. Fresh(ones)
    BY <1>1, <1>5, SellerIsFresh DEF AgentsInv, Agents!Booking
  <2>2. Agents!Add(ones) /\ followed' = FALSE
    BY <1>5 DEF Agents!Confirm
  <2>3. ASSUME given > 0 PROVE \A c \in ones : c.owner = TheStore /\ c.amount = 0
    <3>1. booking.concierge = TheStore /\ TheStore # Agents!None /\ booking.rate = 0
      BY <2>3 DEF AgentsInv, Agents!DeletionIsKnown, Agents!Assumptions
    <3>2. Agents!RateOf(booking) = 0 /\ booking.total \in Nat
      BY <1>1, <3>1 DEF Agents!RateOf, Agents!Or, Agents!NoNumber, Agents!Booking
    <3> QED
      BY <3>1, <3>2, NobodyElse DEF Agents!Share
  <2> HIDE DEF ones
  <2>4. /\ earned' = earned \cup ones
        /\ earned' \in SUBSET Agents!Commission /\ IsFiniteSet(earned')
        /\ made' \in Nat /\ made' >= made /\ Agents!Numbered'
    BY <2>1, <2>2, AddHolds DEF AgentsInv
  <2>5. Agents!TypeOK' /\ Agents!AllFollow'
    BY <1>1, <1>2, <2>2, <2>4, SameSets DEF AgentsInv, Agents!TypeOK, Agents!AllFollow
  <2>6. Agents!NothingBefore' /\ Agents!DeletionIsKnown'
    BY <1>1, <1>2, <2>2 DEF AgentsInv, Agents!NothingBefore, Agents!DeletionIsKnown, Agents!None
  <2>7. Agents!DeletedStaysDeleted'
    BY <1>1, <2>3, <2>4 DEF AgentsInv, Agents!DeletedStaysDeleted
  <2> QED
    BY <2>4, <2>5, <2>6, <2>7 DEF AgentsInv
<1> QED
  BY <1>3, <1>4, <1>5

\* Rejections, cancellations and contracts.
LEMMA StatusHolds ==
    ASSUME AgentsInv, Agents!Reject \/ Agents!Cancel \/ Agents!OpenContract
    PROVE  AgentsInv'
<1>1. /\ booking.status # Agents!None /\ booking \in Agents!Booking /\ contract \in Agents!Statuses
      /\ UNCHANGED <<earned, made, deletion, given, followed>>
  BY DEF AgentsInv, Agents!TypeOK, Agents!Reject, Agents!Cancel, Agents!OpenContract
<1>2. PICK status \in Agents!Statuses \ {Agents!None} :
        booking' = [booking EXCEPT !.status = status]
  <2>1. booking = [booking EXCEPT !.status = booking.status] /\ booking.status \in Agents!Statuses
    BY <1>1 DEF Agents!Booking
  <2>2. /\ "RECHAZADO" \in Agents!Statuses \ {Agents!None}
        /\ "CANCELADO" \in Agents!Statuses \ {Agents!None}
    BY DEF Agents!Statuses, Agents!None
  <2> QED
    BY <1>1, <2>1, <2>2, Zenon DEF Agents!Reject, Agents!Cancel, Agents!OpenContract
<1>3. /\ booking' \in Agents!Booking /\ booking'.status # Agents!None
      /\ booking'.concierge = booking.concierge /\ booking'.rate = booking.rate
      /\ Agents!Amount(booking') = Agents!Amount(booking)
  BY <1>1, <1>2 DEF Agents!Booking, Agents!Amount
<1>4. contract' \in Agents!Statuses
  BY <1>1 DEF Agents!Reject, Agents!Cancel, Agents!OpenContract, Agents!Statuses, Agents!Booking
<1> QED
  BY <1>1, <1>3, <1>4
     DEF AgentsInv, Agents!TypeOK, Agents!Numbered, Agents!NothingBefore, Agents!DeletionIsKnown,
         Agents!AllFollow, Agents!Automatic, Agents!DeletedStaysDeleted

\* What an extension earns is not automatic.
LEMMA ExtendHolds ==
    ASSUME Agents!Assumptions, AgentsInv, NEW amount \in ExtensionCosts,
           NEW concierge \in Concierges,
           NEW rate \in Percentages \cup {Agents!NoNumber}, NEW fixed \in {0, 1},
           Agents!Extend(amount, concierge, rate, fixed)
    PROVE  AgentsInv'
<1> DEFINE share == Agents!Share(Agents!MaxZero(amount - booking.delivery),
                                 Agents!Or(rate, Agents!DefaultRate))
           one == Agents!New(made + 1, concierge, IF fixed > 0 THEN fixed ELSE share, "extension",
                      fixed > 0)
<1>1. /\ Agents!Add({one}) /\ contract # Agents!None
      /\ UNCHANGED <<booking, contract, deletion, given, followed>>
  BY DEF Agents!Extend
<1>2. /\ amount \in Nat /\ concierge \in DOMAIN OwnPercentages
      /\ booking.delivery \in Nat /\ made \in Nat
  BY DEF Agents!Assumptions, AgentsInv, Agents!TypeOK, Agents!Booking
<1>3. Agents!Or(rate, Agents!DefaultRate) \in Nat
  <2>1. Percentages \subseteq Nat
    BY DEF Agents!Assumptions
  <2> QED
    BY <2>1 DEF Agents!Or, Agents!DefaultRate
<1>4. share \in Nat
  BY <1>2, <1>3 DEF Agents!Share, Agents!MaxZero
<1>5. one \in Agents!Commission /\ one.id = made + 1 /\ one.source = "extension"
  <2> HIDE DEF share
  <2> QED
    BY <1>2, <1>4 DEF Agents!Commission, Agents!New
<1> HIDE DEF one
<1>6. Fresh({one})
  BY <1>2, <1>5, OneIsFresh
<1>7. /\ earned' = earned \cup {one}
      /\ earned' \in SUBSET Agents!Commission /\ IsFiniteSet(earned')
      /\ made' \in Nat /\ made' >= made /\ Agents!Numbered'
  BY <1>1, <1>6, AddHolds DEF AgentsInv
<1>8. Agents!TypeOK' /\ Agents!NothingBefore' /\ Agents!DeletionIsKnown'
  BY <1>1, <1>7, SameSets DEF AgentsInv, Agents!TypeOK, Agents!NothingBefore, Agents!DeletionIsKnown
<1>9. Agents!AllFollow' /\ Agents!DeletedStaysDeleted'
  BY <1>1, <1>5, <1>7 DEF AgentsInv, Agents!AllFollow, Agents!Automatic, Agents!DeletedStaysDeleted
<1> QED
  BY <1>7, <1>8, <1>9 DEF AgentsInv

\* Commissions that change keep their numbers.
LEMMA RevisedKeep ==
    ASSUME Agents!TypeOK, Agents!Numbered, NEW f \in [earned -> Agents!Commission],
           \A c \in earned : f[c].id = c.id,
           earned' = {f[c] : c \in earned}, UNCHANGED made
    PROVE  earned' \in SUBSET Agents!Commission /\ IsFiniteSet(earned') /\ Agents!Numbered'
<1>1. f \in Surjection(earned, {f[c] : c \in earned})
  BY DEF Surjection
<1>2. IsFiniteSet(earned')
  BY <1>1, FS_Surjection, SameSets DEF Agents!TypeOK
<1> QED
  BY <1>2 DEF Agents!Numbered

\* What a recalculation does to one commission.
Recomputed(c, owner, amount) ==
    IF c \in Agents!Automatic
    THEN [c EXCEPT !.owner = IF owner = Agents!None THEN @ ELSE owner,
                   !.amount = Agents!Or(amount, @)]
    ELSE c

\* A recalculation keeps numbers and types.
LEMMA UpdatedKeep ==
    ASSUME Agents!TypeOK, Agents!Numbered, NEW owner \in DOMAIN OwnPercentages \cup {Agents!None},
           NEW amount \in Nat \cup {Agents!NoNumber},
           earned' = Agents!Updated(owner, amount), UNCHANGED made
    PROVE  earned' \in SUBSET Agents!Commission /\ IsFiniteSet(earned') /\ Agents!Numbered'
<1> DEFINE f == [c \in earned |-> Recomputed(c, owner, amount)]
<1>1. ASSUME NEW c \in earned
      PROVE  /\ Recomputed(c, owner, amount) \in Agents!Commission
             /\ Recomputed(c, owner, amount).id = c.id
  <2>1. c \in Agents!Commission
    BY DEF Agents!TypeOK
  <2>2. Agents!Or(amount, c.amount) \in Nat
    BY <2>1 DEF Agents!Or, Agents!Commission
  <2> QED
    BY <2>1, <2>2 DEF Agents!Commission, Recomputed
<1>2. earned' = {f[c] : c \in earned}
  BY DEF Agents!Updated, Recomputed
<1>3. f \in [earned -> Agents!Commission] /\ \A c \in earned : f[c].id = c.id
  BY <1>1
<1> HIDE DEF f
<1> QED
  BY <1>2, <1>3, RevisedKeep

\* An edit that is followed leaves each automatic commission of the concierge at the new
\* amount: it was recomputed from the new total and percentage, or neither of them changed.
LEMMA EditHolds ==
    ASSUME Agents!Assumptions, AgentsInv, NEW total \in NewTotals \cup {Agents!NoNumber},
           NEW rate \in Percentages \cup {Agents!NoNumber},
           NEW concierge \in Concierges \cup {Agents!None},
           NEW drops \in BOOLEAN, NEW fromStart \in BOOLEAN,
           Agents!Edit(total, rate, concierge, drops, fromStart)
    PROVE  AgentsInv'
<1> DEFINE moves    == concierge \notin {Agents!None, booking.concierge}
           resized  == total # Agents!NoNumber /\ total # booking.total
           new      == [booking EXCEPT !.total = Agents!Or(total, @), !.rate = Agents!Or(rate, @),
                                       !.concierge = IF concierge = Agents!None THEN @
                                                     ELSE concierge]
           base     == Agents!Base(new)
           amount   == CASE rate # Agents!NoNumber -> Agents!Share(base, rate)
                         [] rate = Agents!NoNumber /\ resized ->
                              Agents!Share(base, Agents!Or(booking.rate, Agents!DefaultRate))
                         [] OTHER -> Agents!NoNumber
           taken    == [new EXCEPT !.delivery = 0,
                          !.total = IF fromStart THEN Agents!MaxZero(booking.total - booking.delivery)
                                    ELSE @]
           relevant == rate # Agents!NoNumber \/ moves \/ resized
           one      == Agents!New(made + 1, concierge,
                                  Agents!Share(base, Agents!Or(rate, Agents!DefaultRate)),
                                  "booking", FALSE)
<1>1. /\ booking.status # Agents!None
      /\ booking' = IF drops THEN taken ELSE new
      /\ followed' =>
             /\ followed /\ ~drops
             /\ moves => rate # Agents!NoNumber \/ resized
             /\ ~(earned = {} /\ relevant /\ concierge # Agents!None /\ rate = Agents!NoNumber
                  /\ new.rate # Agents!NoNumber)
      /\ followed' \in BOOLEAN
      /\ given' = IF rate # Agents!NoNumber \/ concierge # Agents!None THEN 0 ELSE given
      /\ UNCHANGED <<contract, deletion>>
  BY DEF Agents!Edit
<1>2. \/ ~relevant /\ UNCHANGED <<earned, made>>
      \/ relevant /\ earned = {} /\ concierge # Agents!None /\ Agents!Add({one})
      \/ relevant /\ earned = {} /\ concierge = Agents!None /\ UNCHANGED <<earned, made>>
      \/ /\ relevant /\ earned # {} /\ UNCHANGED made
         /\ earned' = Agents!Updated(IF moves THEN concierge ELSE Agents!None, amount)
  BY DEF Agents!Edit
<1>3. /\ booking \in Agents!Booking /\ made \in Nat /\ given \in Nat
      /\ NewTotals \subseteq Nat /\ Percentages \subseteq Nat
      /\ concierge \in DOMAIN OwnPercentages \cup {Agents!None}
  BY DEF AgentsInv, Agents!TypeOK, Agents!Assumptions
<1>4. /\ rate \in Nat \cup {Agents!NoNumber} /\ total \in Nat \cup {Agents!NoNumber}
      /\ Agents!Or(rate, booking.rate) \in Nat \cup {Agents!NoNumber}
      /\ Agents!Or(total, booking.total) \in Nat
  <2>1. rate \in Nat \cup {Agents!NoNumber} /\ total \in Nat \cup {Agents!NoNumber}
    BY <1>3
  <2>2. booking.rate \in Nat \cup {Agents!NoNumber} /\ booking.total \in Nat
    BY <1>3 DEF Agents!Booking
  <2> QED
    BY <2>1, <2>2 DEF Agents!Or
<1>5. /\ new \in Agents!Booking /\ new.status = booking.status /\ new.reserve = booking.reserve
      /\ new.rate = Agents!Or(rate, booking.rate)
      /\ new.concierge = IF concierge = Agents!None THEN booking.concierge ELSE concierge
      /\ new.delivery = booking.delivery /\ new.total = Agents!Or(total, booking.total)
  BY <1>3, <1>4 DEF Agents!Booking
<1>6. /\ taken \in Agents!Booking /\ taken.status = new.status /\ taken.reserve = new.reserve
      /\ taken.rate = new.rate /\ taken.concierge = new.concierge
  <2>1. Agents!MaxZero(booking.total - booking.delivery) \in Nat
    BY <1>3 DEF Agents!Booking, Agents!MaxZero
  <2> HIDE DEF new
  <2>2. new.total \in Nat
    BY <1>5 DEF Agents!Booking
  <2> DEFINE left == IF fromStart THEN Agents!MaxZero(booking.total - booking.delivery)
                     ELSE new.total
  <2>3. taken = [new EXCEPT !.delivery = 0, !.total = left] /\ left \in Nat
    BY <2>1, <2>2
  <2> HIDE DEF taken, left
  <2> QED
    BY <1>5, <2>3 DEF Agents!Booking
<1> HIDE DEF new, taken
<1>7. /\ booking' \in Agents!Booking /\ booking'.status # Agents!None /\ booking'.rate = new.rate
      /\ booking'.concierge = new.concierge
      /\ followed' => booking' = new
  BY <1>1, <1>5, <1>6
<1>8. base \in Nat
  BY <1>5 DEF Agents!Base, Agents!MaxZero, Agents!Booking
<1>9. /\ Agents!Share(base, Agents!Or(rate, Agents!DefaultRate)) \in Nat
      /\ Agents!Share(base, Agents!Or(booking.rate, Agents!DefaultRate)) \in Nat
  <2>1. /\ Agents!Or(rate, Agents!DefaultRate) \in Nat
        /\ Agents!Or(booking.rate, Agents!DefaultRate) \in Nat
    BY <1>3, <1>4 DEF Agents!Or, Agents!DefaultRate, Agents!Booking
  <2> HIDE DEF base
  <2> QED
    BY <1>8, <2>1 DEF Agents!Share
<1>10. /\ amount \in Nat \cup {Agents!NoNumber}
       /\ rate # Agents!NoNumber \/ resized => amount \in Nat /\ amount = Agents!Amount(new)
  <2> DEFINE worth == Agents!Share(base, Agents!Or(new.rate, Agents!DefaultRate))
  <2>1. worth = Agents!Amount(new)
    BY DEF Agents!Share, Agents!Amount, Agents!Base
  <2>2. CASE rate # Agents!NoNumber
    <3>1. /\ amount = Agents!Share(base, rate)
          /\ Agents!Or(rate, Agents!DefaultRate) = rate /\ new.rate = rate
      BY <1>5, <2>2 DEF Agents!Or
    <3> HIDE DEF amount, base
    <3> QED
      BY <1>9, <2>1, <3>1
  <2>3. CASE rate = Agents!NoNumber /\ resized
    <3>1. /\ amount = Agents!Share(base, Agents!Or(booking.rate, Agents!DefaultRate))
          /\ new.rate = booking.rate
      BY <1>5, <2>3 DEF Agents!Or
    <3> HIDE DEF amount, base
    <3> QED
      BY <1>9, <2>1, <3>1
  <2>4. CASE rate = Agents!NoNumber /\ ~resized
    BY <2>4
  <2> QED
    BY <2>2, <2>3, <2>4
<1>11. CASE ~relevant /\ UNCHANGED <<earned, made>>
  <2>1. rate = Agents!NoNumber /\ ~resized /\ ~moves
    BY <1>11
  <2>2. new.total = booking.total /\ new.rate = booking.rate /\ new.concierge = booking.concierge
    BY <1>5, <2>1 DEF Agents!Or
  <2>3. Agents!Amount(new) = Agents!Amount(booking)
    BY <1>5, <2>2 DEF Agents!Amount
  <2> HIDE DEF amount, base, relevant, moves, resized
  <2>4. Agents!TypeOK' /\ Agents!Numbered'
    BY <1>1, <1>3, <1>7, <1>11 DEF AgentsInv, Agents!TypeOK, Agents!Numbered
  <2>5. Agents!NothingBefore' /\ Agents!DeletionIsKnown'
    BY <1>1, <1>7, <2>2 DEF AgentsInv, Agents!NothingBefore, Agents!DeletionIsKnown
  <2>6. Agents!AllFollow' /\ Agents!DeletedStaysDeleted'
    BY <1>1, <1>7, <1>11, <2>2, <2>3
       DEF AgentsInv, Agents!AllFollow, Agents!Automatic, Agents!DeletedStaysDeleted
  <2> QED
    BY <2>4, <2>5, <2>6 DEF AgentsInv
<1>12. CASE earned = {} /\ concierge = Agents!None /\ UNCHANGED <<earned, made>>
  <2> HIDE DEF amount, base, relevant, moves, resized
  <2>1. Agents!TypeOK' /\ Agents!Numbered'
    BY <1>1, <1>3, <1>7, <1>12 DEF AgentsInv, Agents!TypeOK, Agents!Numbered
  <2>2. given' > 0 => given > 0 /\ new.rate = booking.rate /\ new.concierge = booking.concierge
    BY <1>1, <1>3, <1>5 DEF Agents!Or
  <2>3. Agents!NothingBefore' /\ Agents!DeletionIsKnown'
    BY <1>1, <1>7, <2>2 DEF AgentsInv, Agents!NothingBefore, Agents!DeletionIsKnown
  <2>4. Agents!AllFollow' /\ Agents!DeletedStaysDeleted'
    BY <1>12 DEF Agents!AllFollow, Agents!Automatic, Agents!DeletedStaysDeleted
  <2> QED
    BY <2>1, <2>3, <2>4 DEF AgentsInv
<1>13. CASE relevant /\ earned = {} /\ concierge # Agents!None /\ Agents!Add({one})
  <2>1. /\ one \in Agents!Commission /\ one.id = made + 1
        /\ one.amount = Agents!Share(base, Agents!Or(rate, Agents!DefaultRate))
    <3> HIDE DEF base
    <3> QED
      BY <1>3, <1>9, <1>13 DEF Agents!New, Agents!Commission
  <2>2. Fresh({one})
    BY <1>3, <2>1, OneIsFresh
  <2> HIDE DEF one
  <2>3. /\ earned' = {one}
        /\ earned' \in SUBSET Agents!Commission /\ IsFiniteSet(earned')
        /\ made' \in Nat /\ made' >= made /\ Agents!Numbered'
    BY <1>13, <2>2, AddHolds DEF AgentsInv
  <2>4. ASSUME followed' PROVE one.amount = Agents!Amount(new)
    <3>1. Agents!Or(rate, Agents!DefaultRate) = Agents!Or(new.rate, Agents!DefaultRate)
      <4>1. rate # Agents!NoNumber \/ new.rate = Agents!NoNumber
        BY <1>1, <1>13, <2>4
      <4> QED
        BY <1>5, <4>1 DEF Agents!Or
    <3>2. one.amount = Agents!Share(base, Agents!Or(new.rate, Agents!DefaultRate))
      BY <2>1, <3>1
    <3> QED
      BY <3>2 DEF Agents!Amount, Agents!Share, Agents!Base
  <2> HIDE DEF amount, base, relevant, moves, resized
  <2>5. given' = 0
    BY <1>1, <1>13
  <2>6. Agents!TypeOK' /\ Agents!NothingBefore' /\ Agents!DeletionIsKnown'
    BY <1>1, <1>7, <2>3, <2>5, SameSets
       DEF AgentsInv, Agents!TypeOK, Agents!NothingBefore, Agents!DeletionIsKnown
  <2>7. Agents!AllFollow' /\ Agents!DeletedStaysDeleted'
    BY <1>7, <2>3, <2>4, <2>5 DEF Agents!AllFollow, Agents!Automatic, Agents!DeletedStaysDeleted
  <2> QED
    BY <2>3, <2>6, <2>7 DEF AgentsInv
<1>14. CASE /\ relevant /\ earned # {} /\ UNCHANGED made
            /\ earned' = Agents!Updated(IF moves THEN concierge ELSE Agents!None, amount)
  <2> DEFINE owner == IF moves THEN concierge ELSE Agents!None
  <2>1. owner \in DOMAIN OwnPercentages \cup {Agents!None}
    BY <1>3
  <2>2. earned' \in SUBSET Agents!Commission /\ IsFiniteSet(earned') /\ Agents!Numbered'
    <3> HIDE DEF owner, amount
    <3>1. earned' = Agents!Updated(owner, amount) /\ UNCHANGED made
      BY <1>14 DEF owner
    <3> QED
      BY <1>10, <2>1, <3>1, UpdatedKeep DEF AgentsInv
  <2>3. followed' => rate # Agents!NoNumber \/ resized
    BY <1>1, <1>14
  <2>4. given' > 0 => /\ given' = given /\ given > 0
                      /\ rate = Agents!NoNumber /\ concierge = Agents!None
                      /\ new.rate = booking.rate /\ new.concierge = booking.concierge
                      /\ owner = Agents!None /\ resized
    BY <1>1, <1>3, <1>5, <1>14 DEF Agents!Or
  <2>5. earned' = {Recomputed(c, owner, amount) : c \in earned}
    BY <1>14 DEF Agents!Updated, Recomputed
  <2>6. Agents!AllFollow'
    <3> SUFFICES ASSUME followed', NEW d \in earned', d \in Agents!Automatic'
                 PROVE  d.amount = Agents!Amount(booking')
      BY DEF Agents!AllFollow, Agents!Automatic
    <3> HIDE DEF amount, base, relevant, moves, resized, owner
    <3>1. PICK c \in earned : d = Recomputed(c, owner, amount)
      BY <2>5
    <3>2. c \in Agents!Commission
      BY DEF AgentsInv, Agents!TypeOK
    <3>3. c \in Agents!Automatic
      BY <3>1 DEF Agents!Automatic, Recomputed
    <3>4. amount \in Nat /\ amount = Agents!Amount(new)
      BY <1>10, <2>3
    <3>5. d.amount = amount
      BY <3>1, <3>2, <3>3, <3>4 DEF Recomputed, Agents!Or, Agents!NoNumber, Agents!Commission
    <3> QED
      BY <1>7, <3>4, <3>5
  <2>7. Agents!DeletedStaysDeleted'
    <3> SUFFICES ASSUME given' > 0, NEW d \in earned', d.id >= given', d.source = "booking",
                        ~d.manual
                 PROVE  d.owner = TheStore /\ d.amount = 0
      BY DEF Agents!DeletedStaysDeleted
    <3>1. booking.rate = 0
      BY <2>4 DEF AgentsInv, Agents!DeletionIsKnown
    <3>2. amount = 0
      <4>1. amount = Agents!Share(base, Agents!Or(booking.rate, Agents!DefaultRate))
        BY <2>4
      <4>2. Agents!Or(booking.rate, Agents!DefaultRate) = 0
        BY <3>1 DEF Agents!Or, Agents!NoNumber
      <4> HIDE DEF base, amount
      <4> QED
        BY <1>8, <4>1, <4>2 DEF Agents!Share
    <3> HIDE DEF amount, base, relevant, moves, resized, owner
    <3>3. PICK c \in earned : d = Recomputed(c, owner, amount)
      BY <2>5
    <3>4. c \in Agents!Commission
      BY DEF AgentsInv, Agents!TypeOK
    <3>5. c.id = d.id /\ c.source = d.source /\ c.manual = d.manual /\ c.owner = d.owner
      BY <2>4, <3>3, <3>4 DEF Recomputed, Agents!Commission
    <3>6. c.owner = TheStore /\ c.amount = 0
      BY <2>4, <3>5 DEF AgentsInv, Agents!DeletedStaysDeleted
    <3> QED
      BY <3>2, <3>3, <3>4, <3>5, <3>6 DEF Recomputed, Agents!Or, Agents!Commission
  <2> HIDE DEF amount, base, relevant, moves, resized, owner
  <2>8. Agents!TypeOK' /\ Agents!NothingBefore' /\ Agents!DeletionIsKnown'
    BY <1>1, <1>3, <1>7, <1>14, <2>2, <2>4, SameSets
       DEF AgentsInv, Agents!TypeOK, Agents!NothingBefore, Agents!DeletionIsKnown
  <2> QED
    BY <2>2, <2>6, <2>7, <2>8 DEF AgentsInv
<1> QED
  BY <1>2, <1>11, <1>12, <1>13, <1>14

\* What staff does with one commission or with those of a source.
LEMMA SetByHandHolds ==
    ASSUME AgentsInv, NEW c \in earned, Agents!SetByHand(c, 1)
    PROVE  AgentsInv'
<1> DEFINE new == [c EXCEPT !.amount = 1, !.manual = TRUE]
<1>1. /\ earned' = (earned \ {c}) \cup {new}
      /\ UNCHANGED <<booking, contract, made, deletion, given, followed>>
  BY DEF Agents!SetByHand
<1>2. c \in Agents!Commission
  BY DEF AgentsInv, Agents!TypeOK
<1>3. new \in Agents!Commission /\ new.id = c.id /\ new.manual
  BY <1>2 DEF Agents!Commission
<1> HIDE DEF new
<1>4. IsFiniteSet(earned')
  BY <1>1, FS_RemoveElement, FS_AddElement, SameSets DEF AgentsInv, Agents!TypeOK
<1>5. Agents!TypeOK' /\ Agents!Numbered' /\ Agents!NothingBefore' /\ Agents!DeletionIsKnown'
  BY <1>1, <1>3, <1>4, SameSets
     DEF AgentsInv, Agents!TypeOK, Agents!Numbered, Agents!NothingBefore, Agents!DeletionIsKnown
<1>6. Agents!AllFollow' /\ Agents!DeletedStaysDeleted'
  BY <1>1, <1>3 DEF AgentsInv, Agents!AllFollow, Agents!Automatic, Agents!DeletedStaysDeleted
<1> QED
  BY <1>5, <1>6 DEF AgentsInv

\* A deletion is not followed.
LEMMA DeletionHolds ==
    ASSUME AgentsInv, (\E c \in earned : Agents!DeleteOne(c))
                \/ (\E source \in {"booking", "extension"} : Agents!DeleteAll(source))
    PROVE  AgentsInv'
<1>1. /\ earned' \in SUBSET earned /\ earned # {} /\ ~followed'
      /\ followed' \in BOOLEAN /\ deletion' \in {"none", "assign"}
      /\ UNCHANGED <<booking, contract, made, given>>
  BY DEF Agents!DeleteOne, Agents!DeleteAll
<1>2. IsFiniteSet(earned')
  BY <1>1, FS_Subset, SameSets DEF AgentsInv, Agents!TypeOK
<1> QED
  BY <1>1, <1>2, SameSets
     DEF AgentsInv, Agents!TypeOK, Agents!Numbered, Agents!NothingBefore, Agents!DeletionIsKnown,
         Agents!AllFollow, Agents!DeletedStaysDeleted

\* The booking goes to the store at no percentage, so that there is nothing to earn.
LEMMA AssignmentHolds ==
    ASSUME Agents!Assumptions, AgentsInv, Agents!Assign \/ Agents!AssignFails
    PROVE  AgentsInv'
<1>1. /\ deletion = "assign" /\ deletion' = "none" /\ ~followed /\ booking.status # Agents!None
      /\ UNCHANGED <<contract, earned, made, followed>>
  BY DEF AgentsInv, Agents!NothingBefore, Agents!DeletionIsKnown, Agents!Assign, Agents!AssignFails
<1>2. /\ booking \in Agents!Booking /\ made \in Nat
      /\ \A c \in earned : c.id \in Nat /\ c.id <= made
  BY DEF AgentsInv, Agents!TypeOK, Agents!Numbered, Agents!Commission
<1>3. CASE Agents!Assign
  <2>1. /\ booking' \in Agents!Booking /\ booking'.status = booking.status
        /\ booking'.concierge = TheStore /\ booking'.rate = 0 /\ given' = made + 1
    BY <1>2, <1>3 DEF Agents!Assign, Agents!OfStore, Agents!Booking
  <2>2. Agents!DeletedStaysDeleted'
    BY <1>1, <1>2, <2>1 DEF Agents!DeletedStaysDeleted
  <2> QED
    BY <1>1, <1>2, <2>1, <2>2
       DEF AgentsInv, Agents!TypeOK, Agents!Numbered, Agents!NothingBefore,
           Agents!DeletionIsKnown, Agents!AllFollow
<1>4. CASE Agents!AssignFails
  BY <1>1, <1>4
     DEF Agents!AssignFails, AgentsInv, Agents!TypeOK, Agents!Numbered, Agents!NothingBefore,
         Agents!DeletionIsKnown, Agents!AllFollow, Agents!DeletedStaysDeleted
<1> QED
  BY <1>3, <1>4

\* What MapThenSumSet computes is the sum: of a cart,
LEMMA CartTotalIsSum ==
    ASSUME NEW some, IsFiniteSet(some), NEW w, \A x \in some : w[x] = x.total /\ w[x] \in Int,
           NEW g, IsSum(g, w, some), NEW few \in SUBSET some
    PROVE  Agents!CartTotal(few) = g[few]
<1> DEFINE From(f) == [s \in SUBSET few |-> IF s = {} THEN 0
                         ELSE (CHOOSE x \in s : TRUE).total + f[s \ {CHOOSE x \in s : TRUE}]]
           sum == CHOOSE f : f = From(f)
<1>1. PICK h : IsSum(h, w, few)
  BY SumsExist, FS_Subset
<1>2. h = From(h)
  <2>1. ASSUME NEW s \in SUBSET few PROVE h[s] = From(h)[s]
    <3>1. CASE s = {}
      BY <1>1, <3>1 DEF IsSum, Sums
    <3>2. CASE s # {}
      BY <1>1, <3>2, FirstIsIn DEF IsSum, Sums, First
    <3> QED
      BY <3>1, <3>2
  <2>2. h \in [SUBSET few -> Int]
    BY <1>1 DEF IsSum
  <2> QED
    BY <2>1, <2>2
<1>3. sum = From(sum)
  <2> HIDE DEF From
  <2> QED
    BY <1>2
<1>4. Agents!CartTotal(few) = sum[few]
  BY DEF Agents!CartTotal, Agents!MapThenSumSet, Agents!MapThenFoldSet
<1>5. Sums(sum, w, few)
  <2>1. ASSUME NEW s \in SUBSET few
        PROVE  sum[s] = IF s = {} THEN 0 ELSE w[First(s)] + sum[s \ {First(s)}]
    <3>1. sum[s] = From(sum)[s]
      BY <1>3
    <3>2. s # {} => w[First(s)] = First(s).total
      BY FirstIsIn
    <3> HIDE DEF sum
    <3> QED
      BY <3>1, <3>2 DEF First
  <2> QED
    BY <2>1 DEF Sums
<1> HIDE DEF sum
<1> QED
  BY <1>4, <1>5, SumsAgree, FS_Subset DEF IsSum

\* of commissions,
LEMMA WorthIsSum ==
    ASSUME NEW some, IsFiniteSet(some), NEW w, \A x \in some : w[x] = x.amount /\ w[x] \in Int,
           NEW g, IsSum(g, w, some), NEW few \in SUBSET some
    PROVE  Agents!Worth(few) = g[few]
<1> DEFINE From(f) == [s \in SUBSET few |-> IF s = {} THEN 0
                         ELSE (CHOOSE x \in s : TRUE).amount + f[s \ {CHOOSE x \in s : TRUE}]]
           sum == CHOOSE f : f = From(f)
<1>1. PICK h : IsSum(h, w, few)
  BY SumsExist, FS_Subset
<1>2. h = From(h)
  <2>1. ASSUME NEW s \in SUBSET few PROVE h[s] = From(h)[s]
    <3>1. CASE s = {}
      BY <1>1, <3>1 DEF IsSum, Sums
    <3>2. CASE s # {}
      BY <1>1, <3>2, FirstIsIn DEF IsSum, Sums, First
    <3> QED
      BY <3>1, <3>2
  <2>2. h \in [SUBSET few -> Int]
    BY <1>1 DEF IsSum
  <2> QED
    BY <2>1, <2>2
<1>3. sum = From(sum)
  <2> HIDE DEF From
  <2> QED
    BY <1>2
<1>4. Agents!Worth(few) = sum[few]
  BY DEF Agents!Worth, Agents!MapThenSumSet, Agents!MapThenFoldSet
<1>5. Sums(sum, w, few)
  <2>1. ASSUME NEW s \in SUBSET few
        PROVE  sum[s] = IF s = {} THEN 0 ELSE w[First(s)] + sum[s \ {First(s)}]
    <3>1. sum[s] = From(sum)[s]
      BY <1>3
    <3>2. s # {} => w[First(s)] = First(s).amount
      BY FirstIsIn
    <3> HIDE DEF sum
    <3> QED
      BY <3>1, <3>2 DEF First
  <2> QED
    BY <2>1 DEF Sums
<1> HIDE DEF sum
<1> QED
  BY <1>4, <1>5, SumsAgree, FS_Subset DEF IsSum

\* A cart costs what a booking can.
LEMMA CartTotalIsNatural ==
    ASSUME Agents!Assumptions, NEW cart \in CommissionedCarts
    PROVE  Agents!CartTotal(cart) \in Nat
<1> DEFINE w == [i \in cart |-> i.total]
<1>1. IsFiniteSet(cart) /\ \A i \in cart : w[i] = i.total /\ w[i] \in Nat
  BY SameSets DEF Agents!Assumptions
<1> HIDE DEF w
<1>2. PICK g : IsSum(g, w, cart)
  BY <1>1, SumsExist
<1>3. Agents!CartTotal(cart) = g[cart]
  BY <1>1, <1>2, CartTotalIsSum
<1> QED
  BY <1>1, <1>2, <1>3, SumIsNatural

\* At first there is neither a booking nor a commission.
LEMMA AgentsStart == Agents!Init => AgentsInv
<1> SUFFICES ASSUME Agents!Init PROVE AgentsInv
  OBVIOUS
<1>1. booking \in Agents!Booking /\ contract \in Agents!Statuses
  BY DEF Agents!Init, Agents!Booking, Agents!Statuses, Agents!NoNumber
<1>2. IsFiniteSet(earned) /\ earned = {}
  BY FS_EmptySet DEF Agents!Init
<1> QED
  BY <1>1, <1>2, SameSets
     DEF Agents!Init, AgentsInv, Agents!TypeOK, Agents!Numbered, Agents!NothingBefore,
         Agents!DeletionIsKnown, Agents!AllFollow, Agents!Automatic, Agents!DeletedStaysDeleted

\* A booking that is made is one.
LEMMA BookingsAre ==
    ASSUME Agents!Assumptions, NEW status \in {"PENDIENTE", "APROBADO"}, NEW reserve \in BOOLEAN,
           NEW delivery \in {0, DeliveryCharge}, NEW concierge \in Concierges \cup {Agents!None},
           NEW rate \in Percentages \cup {Agents!NoNumber}, NEW cart \in CommissionedCarts
    PROVE  [status |-> status, reserve |-> reserve,
            total |-> Agents!CartTotal(cart) + delivery, delivery |-> delivery,
            concierge |-> concierge, rate |-> rate, cart |-> cart] \in Agents!Booking
<1>1. Agents!CartTotal(cart) \in Nat
  BY CartTotalIsNatural
<1>2. Percentages \subseteq Nat /\ DeliveryCharge \in Nat
  BY DEF Agents!Assumptions
<1>3. Agents!CartTotal(cart) + delivery \in Nat /\ delivery \in Nat
  BY <1>1, <1>2
<1>4. rate \in Nat \cup {Agents!NoNumber}
  BY <1>2
<1>5. status \in Agents!Statuses
  BY DEF Agents!Statuses
<1> QED
  BY <1>3, <1>4, <1>5 DEF Agents!Booking

\* Every step.
LEMMA AgentsStep ==
    ASSUME Agents!Assumptions
    PROVE  AgentsInv /\ [Agents!Next]_(Agents!vars) => AgentsInv'
<1> SUFFICES ASSUME AgentsInv, [Agents!Next]_(Agents!vars) PROVE AgentsInv'
  OBVIOUS
<1>1. CASE UNCHANGED Agents!vars
  BY <1>1
     DEF Agents!vars, AgentsInv, Agents!TypeOK, Agents!Numbered, Agents!NothingBefore,
         Agents!DeletionIsKnown, Agents!AllFollow, Agents!Automatic, Agents!DeletedStaysDeleted
<1>3. CASE \/ Agents!Approve \/ Agents!Reject \/ Agents!Cancel \/ Agents!Confirm
           \/ Agents!OpenContract \/ Agents!Assign \/ Agents!AssignFails
  BY <1>3, ApproveHolds, ConfirmHolds, StatusHolds, AssignmentHolds
<1>4. CASE \E amount \in ExtensionCosts, concierge \in Concierges,
              rate \in Percentages \cup {Agents!NoNumber}, fixed \in {0, 1} :
              Agents!Extend(amount, concierge, rate, fixed)
  BY <1>4, ExtendHolds
<1>5. CASE \E total \in NewTotals \cup {Agents!NoNumber},
              rate \in Percentages \cup {Agents!NoNumber},
              concierge \in Concierges \cup {Agents!None},
               drops \in BOOLEAN, fromStart \in BOOLEAN :
              Agents!Edit(total, rate, concierge, drops, fromStart)
  BY <1>5, EditHolds
<1>6. CASE \E c \in earned : Agents!SetByHand(c, 1)
  BY <1>6, SetByHandHolds
<1>7. CASE \/ \E c \in earned : Agents!DeleteOne(c)
           \/ \E source \in {"booking", "extension"} : Agents!DeleteAll(source)
  BY <1>7, DeletionHolds
<1>8. CASE \E status \in {"PENDIENTE", "APROBADO"}, reserve \in BOOLEAN,
              delivery \in {0, DeliveryCharge},
              concierge \in Concierges \cup {Agents!None},
              rate \in Percentages \cup {Agents!NoNumber},
              cart \in CommissionedCarts :
             LET b == [status |-> status, reserve |-> reserve,
                       total |-> Agents!CartTotal(cart) + delivery, delivery |-> delivery,
                       concierge |-> concierge, rate |-> rate, cart |-> cart]
             IN  /\ rate # Agents!NoNumber => concierge # Agents!None
                 /\ Agents!Request(b) \/ Agents!Purchase(b)
  <2>1. PICK status \in {"PENDIENTE", "APROBADO"}, reserve \in BOOLEAN,
             delivery \in {0, DeliveryCharge},
             concierge \in Concierges \cup {Agents!None},
             rate \in Percentages \cup {Agents!NoNumber},
             cart \in CommissionedCarts :
                LET b == [status |-> status, reserve |-> reserve,
                          total |-> Agents!CartTotal(cart) + delivery, delivery |-> delivery,
                          concierge |-> concierge, rate |-> rate, cart |-> cart]
                IN  /\ rate # Agents!NoNumber => concierge # Agents!None
                    /\ Agents!Request(b) \/ Agents!Purchase(b)
    BY <1>8, Zenon
  <2> DEFINE b == [status |-> status, reserve |-> reserve,
                   total |-> Agents!CartTotal(cart) + delivery, delivery |-> delivery,
                   concierge |-> concierge, rate |-> rate, cart |-> cart]
  <2>2. /\ b \in Agents!Booking /\ b.status # Agents!None
        /\ b.concierge \in Concierges \cup {Agents!None}
    BY BookingsAre DEF Agents!None
  <2>3. Agents!Request(b) \/ Agents!Purchase(b)
    BY <2>1
  <2> HIDE DEF b
  <2> QED
    BY <2>2, <2>3, RequestHolds, PurchaseHolds
<1> QED
  BY <1>1, <1>3, <1>4, <1>5, <1>6, <1>7, <1>8, Zenon DEF Agents!Next

\* Hence the invariant is always true.
LEMMA CommissionsInvariance ==
    ASSUME Agents!Assumptions
    PROVE  Agents!Spec => []AgentsInv
<1>1. Agents!Init => AgentsInv
  BY AgentsStart
<1>2. AgentsInv /\ [Agents!Next]_(Agents!vars) => AgentsInv'
  BY AgentsStep
<1> QED
  BY <1>1, <1>2, PTL DEF Agents!Spec

-----------------------------------------------------------------------------

\* A commission set by hand, or of an extension, in every step.
LEMMA OthersStay ==
    ASSUME AgentsInv, NEW c \in earned, c.manual \/ c.source = "extension"
    PROVE  /\ \A owner, amount : c \in Agents!Updated(owner, amount)
           /\ \A new : Agents!Add(new) => c \in earned'
           /\ \A d \in earned : d.id = c.id => d = c
  BY DEF AgentsInv, Agents!Numbered, Agents!Updated, Agents!Automatic, Agents!Add

\* No step recomputes them.
LEMMA SetByHandStepHolds ==
    ASSUME AgentsInv, [Agents!Next]_(Agents!vars)
    PROVE  Agents!SetByHandStep
<1> SUFFICES ASSUME NEW c \in earned, c.manual \/ c.source = "extension"
             PROVE  \/ c \in earned'
                    \/ [c EXCEPT !.amount = 1, !.manual = TRUE] \in earned'
                    \/ \A d \in earned' : d.id # c.id
  BY DEF Agents!SetByHandStep
<1>1. booking.status # Agents!None
  BY DEF AgentsInv, Agents!NothingBefore
<1>2. CASE UNCHANGED Agents!vars
  BY <1>2 DEF Agents!vars
<1>3. CASE \/ Agents!Approve \/ Agents!Reject \/ Agents!Cancel \/ Agents!Confirm
           \/ Agents!OpenContract \/ Agents!Assign \/ Agents!AssignFails
  BY <1>3, OthersStay
     DEF Agents!Approve, Agents!Reject, Agents!Cancel, Agents!Confirm, Agents!OpenContract,
         Agents!Assign, Agents!AssignFails
<1>4. CASE \E amount \in ExtensionCosts, concierge \in Concierges,
              rate \in Percentages \cup {Agents!NoNumber}, fixed \in {0, 1} :
              Agents!Extend(amount, concierge, rate, fixed)
  BY <1>4, OthersStay DEF Agents!Extend
<1>5. CASE \E total \in NewTotals \cup {Agents!NoNumber},
              rate \in Percentages \cup {Agents!NoNumber},
              concierge \in Concierges \cup {Agents!None},
               drops \in BOOLEAN, fromStart \in BOOLEAN :
              Agents!Edit(total, rate, concierge, drops, fromStart)
  <2>1. PICK total, rate, concierge, drops, fromStart :
             Agents!Edit(total, rate, concierge, drops, fromStart)
    BY <1>5
  <2>2. \/ UNCHANGED earned
        \/ \E new : Agents!Add(new)
        \/ \E owner, amount : earned' = Agents!Updated(owner, amount)
    BY <2>1 DEF Agents!Edit
  <2> QED
    BY <2>2, OthersStay
<1>6. CASE \E d \in earned : Agents!SetByHand(d, 1)
  BY <1>6 DEF Agents!SetByHand
<1>7. CASE \/ \E d \in earned : Agents!DeleteOne(d)
           \/ \E source \in {"booking", "extension"} : Agents!DeleteAll(source)
  <2>1. earned' \in SUBSET earned
    BY <1>7 DEF Agents!DeleteOne, Agents!DeleteAll
  <2> QED
    BY <2>1, OthersStay
<1>8. CASE \E b : Agents!Request(b) \/ Agents!Purchase(b)
  BY <1>1, <1>8 DEF Agents!Request, Agents!Purchase
<1> QED
  BY <1>2, <1>3, <1>4, <1>5, <1>6, <1>7, <1>8, Zenon DEF Agents!Next

\* What the lists of some come to is a sum of what each is due.
LEMMA ShownIsSum ==
    ASSUME NEW some, IsFiniteSet(some), NEW w, \A x \in some : w[x] = Agents!Due(x) /\ w[x] \in Int,
           NEW g, IsSum(g, w, some), NEW few \in SUBSET some
    PROVE  Agents!ShownTo(few) = g[few]
<1> DEFINE From(f) == [s \in SUBSET few |-> IF s = {} THEN 0
                         ELSE Agents!Due(CHOOSE x \in s : TRUE) + f[s \ {CHOOSE x \in s : TRUE}]]
           sum == CHOOSE f : f = From(f)
<1>1. PICK h : IsSum(h, w, few)
  BY SumsExist, FS_Subset
<1>2. h = From(h)
  <2>1. ASSUME NEW s \in SUBSET few PROVE h[s] = From(h)[s]
    <3>1. CASE s = {}
      BY <1>1, <3>1 DEF IsSum, Sums
    <3>2. CASE s # {}
      <4>1. First(s) \in some
        BY <3>2, FirstIsIn
      <4>2. w[First(s)] = Agents!Due(First(s))
        BY <4>1
      <4>3. h[s] = w[First(s)] + h[s \ {First(s)}]
        BY <1>1, <3>2 DEF IsSum, Sums
      <4>4. From(h)[s] = Agents!Due(First(s)) + h[s \ {First(s)}]
        BY <3>2 DEF First
      <4> QED
        BY <4>2, <4>3, <4>4
    <3> QED
      BY <3>1, <3>2
  <2>2. h \in [SUBSET few -> Int]
    BY <1>1 DEF IsSum
  <2> QED
    BY <2>1, <2>2
<1>3. sum = From(sum)
  <2> HIDE DEF From
  <2> QED
    BY <1>2
<1>4. Agents!ShownTo(few) = sum[few]
  BY DEF Agents!ShownTo, Agents!MapThenSumSet, Agents!MapThenFoldSet
<1>5. Sums(sum, w, few)
  <2>1. ASSUME NEW s \in SUBSET few
        PROVE  sum[s] = IF s = {} THEN 0 ELSE w[First(s)] + sum[s \ {First(s)}]
    <3>1. sum[s] = From(sum)[s]
      BY <1>3
    <3>2. s # {} => w[First(s)] = Agents!Due(First(s))
      BY FirstIsIn
    <3> HIDE DEF sum
    <3> QED
      BY <3>1, <3>2 DEF First
  <2> QED
    BY <2>1 DEF Sums
<1> HIDE DEF sum
<1> QED
  BY <1>4, <1>5, SumsAgree, FS_Subset DEF IsSum

\* What is on the list of one of some.
OnLists(owners) == {c \in earned : Agents!Shown /\ c.amount > 0 /\ c.owner \in owners}

\* What one is due is the sum of what is on their lists.
LEMMA DueIs ==
    ASSUME Agents!TypeOK, NEW w, \A c \in earned : w[c] = c.amount /\ w[c] \in Int,
           NEW g, IsSum(g, w, earned), NEW owner
    PROVE  Agents!Due(owner) = g[OnLists({owner})] /\ Agents!Due(owner) \in Int
<1> DEFINE B == Agents!Listed(owner, {"booking"})
           E == Agents!Listed(owner, {"extension"})
<1>1. B \in SUBSET earned /\ E \in SUBSET earned /\ B \cap E = {}
  BY DEF Agents!Listed
<1>2. OnLists({owner}) = B \cup E
  <2>1. \A c \in earned : c.source \in {"booking", "extension"}
    BY DEF Agents!TypeOK, Agents!Commission
  <2> QED
    BY <2>1 DEF OnLists, Agents!Listed
<1> HIDE DEF B, E
<1>3. IsFiniteSet(earned)
  BY SameSets DEF Agents!TypeOK
<1>4. Agents!Worth(B) = g[B] /\ Agents!Worth(E) = g[E]
  BY <1>1, <1>3, WorthIsSum
<1>5. g[B \cup E] = g[B] + g[E] /\ g[B] \in Int /\ g[E] \in Int
  <2>1. g[B \cup E] = g[B] + g[E]
    BY <1>1, <1>3, SumOfUnion
  <2>2. g[B] \in Int /\ g[E] \in Int
    BY <1>1 DEF IsSum
  <2> QED
    BY <2>1, <2>2
<1>6. Agents!Due(owner) = Agents!Worth(B) + Agents!Worth(E)
  BY DEF Agents!Due, B, E
<1>7. Agents!Due(owner) = g[B \cup E] /\ Agents!Due(owner) \in Int
  BY <1>4, <1>5, <1>6
<1>8. g[OnLists({owner})] = g[B \cup E]
  BY <1>2, Zenon
<1> QED
  BY <1>7, <1>8

\* The lists of all are a sum of sums: by a smallest set of owners for which they are not.
LEMMA ListsTogether ==
    ASSUME Agents!TypeOK, NEW w, \A c \in earned : w[c] = c.amount /\ w[c] \in Int,
           NEW g, IsSum(g, w, earned)
    PROVE  LET owners == {c.owner : c \in earned}
           IN  Agents!ShownTo(owners) = g[OnLists(owners)]
<1> DEFINE owners == {c.owner : c \in earned}
           u == [o \in owners |-> Agents!Due(o)]
<1>1. IsFiniteSet(owners) /\ IsFiniteSet(earned)
  <2> DEFINE f == [c \in earned |-> c.owner]
  <2>1. f \in Surjection(earned, owners)
    BY DEF Surjection
  <2> QED
    BY <2>1, FS_Surjection, SameSets DEF Agents!TypeOK
<1> HIDE DEF owners
<1>2. \A o \in owners : u[o] = Agents!Due(o) /\ u[o] \in Int
  BY DueIs
<1> HIDE DEF u
<1>3. PICK h : IsSum(h, u, owners)
  BY <1>1, <1>2, SumsExist
<1>4. Agents!ShownTo(owners) = h[owners]
  BY <1>1, <1>2, <1>3, ShownIsSum
<1> DEFINE Bad == {T \in SUBSET owners : h[T] # g[OnLists(T)]}
<1>5. Bad = {}
  <2> SUFFICES ASSUME Bad # {} PROVE FALSE
    OBVIOUS
  <2>1. PICK T \in Bad : \A U \in Bad : Cardinality(T) <= Cardinality(U)
    <3>1. \A U \in Bad : IsFiniteSet(U)
      BY <1>1, FS_Subset
    <3> HIDE DEF Bad
    <3> QED
      BY <3>1, SmallestSet
  <2>2. T \in SUBSET owners /\ IsFiniteSet(T) /\ h[T] # g[OnLists(T)]
    BY <1>1, FS_Subset
  <2>3. T # {}
    <3>1. OnLists({}) = {} /\ {} \in SUBSET owners /\ {} \in SUBSET earned
      BY DEF OnLists
    <3>2. h[{}] = 0 /\ g[{}] = 0
      BY <1>3, <3>1 DEF IsSum, Sums
    <3> HIDE DEF Bad
    <3> QED
      BY <2>2, <3>1, <3>2
  <2> DEFINE o == First(T)
             U == T \ {o}
  <2>4. o \in T /\ h[T] = u[o] + h[U]
    BY <1>3, <2>2, <2>3, FirstIsIn DEF IsSum, Sums
  <2>5. Cardinality(U) = Cardinality(T) - 1 /\ Cardinality(T) \in Nat
    <3> HIDE DEF Bad, o
    <3> QED
      BY <2>2, <2>4, FS_RemoveElement, FS_CardinalityType
  <2>6. U \in SUBSET owners /\ h[U] = g[OnLists(U)]
    <3>1. ~(Cardinality(T) <= Cardinality(U))
      BY <2>5
    <3>2. U \notin Bad
      <4> HIDE DEF Bad, U
      <4> QED
        BY <2>1, <3>1
    <3>3. U \in SUBSET owners
      BY <2>2
    <3> QED
      BY <3>2, <3>3
  <2>7. u[o] = g[OnLists({o})]
    BY <1>2, <2>2, <2>4, DueIs
  <2>8. /\ OnLists(T) = OnLists({o}) \cup OnLists(U) /\ OnLists({o}) \cap OnLists(U) = {}
        /\ OnLists({o}) \in SUBSET earned /\ OnLists(U) \in SUBSET earned
    BY <2>4 DEF OnLists
  <2>9. g[OnLists(T)] = g[OnLists({o})] + g[OnLists(U)]
    <3> DEFINE A == OnLists({o})
               B == OnLists(U)
               C == OnLists(T)
    <3>1. C = A \cup B /\ A \cap B = {} /\ A \in SUBSET earned /\ B \in SUBSET earned
      BY <2>8
    <3> HIDE DEF A, B, C, Bad
    <3>2. g[C] = g[A] + g[B]
      BY <1>1, <3>1, SumOfUnion
    <3> QED
      BY <3>2, Zenon DEF A, B, C
  <2> HIDE DEF o, U, Bad
  <2> QED
    BY <2>2, <2>4, <2>6, <2>7, <2>9
<1>6. h[owners] = g[OnLists(owners)]
  <2>1. owners \in SUBSET owners
    OBVIOUS
  <2> QED
    BY <1>5, <2>1
<1> QED
  BY <1>4, <1>6 DEF owners

\* Who is owed nothing is on no list or owed zero.
LEMMA ListsAreWhatIsOwedAlways ==
    ASSUME Agents!TypeOK
    PROVE  Agents!ListsAreWhatIsOwed
<1> DEFINE owners == {c.owner : c \in earned}
           w == [c \in earned |-> c.amount]
<1>1. /\ IsFiniteSet(earned)
      /\ \A c \in earned : w[c] = c.amount /\ w[c] \in Nat
  BY SameSets DEF Agents!TypeOK, Agents!Commission
<1> HIDE DEF w
<1>2. PICK g : IsSum(g, w, earned)
  BY <1>1, SumsExist
<1>3. Agents!ShownTo(owners) = g[OnLists(owners)]
  BY <1>1, <1>2, ListsTogether
<1>4. ASSUME booking.status = "CANCELADO" PROVE Agents!ShownTo(owners) = 0
  <2>1. OnLists(owners) = {}
    BY <1>4 DEF OnLists, Agents!Shown
  <2>2. g[{}] = 0
    BY <1>2 DEF IsSum, Sums
  <2> QED
    BY <1>3, <2>1, <2>2
<1>5. ASSUME booking.status = "APROBADO" PROVE Agents!ShownTo(owners) = Agents!Worth(earned)
  <2> DEFINE rest == {c \in earned : c.amount = 0}
  <2>1. /\ earned = OnLists(owners) \cup rest /\ OnLists(owners) \cap rest = {}
        /\ OnLists(owners) \in SUBSET earned /\ rest \in SUBSET earned
        /\ \A c \in rest : w[c] = 0
    <3>1. Agents!Shown
      BY <1>5 DEF Agents!Shown
    <3>2. \A c \in earned : c.amount \in Nat
      BY <1>1
    <3>3. \A c \in earned : c.amount > 0 \/ c.amount = 0
      BY <3>2
    <3> QED
      BY <1>1, <3>1, <3>3 DEF OnLists
  <2> HIDE DEF owners, rest
  <2>2. g[rest] = 0
    BY <1>1, <1>2, <2>1, SumOfZeros
  <2>3. g[OnLists(owners) \cup rest] = g[OnLists(owners)] + g[rest] /\ g[OnLists(owners)] \in Int
    <3>1. g[OnLists(owners) \cup rest] = g[OnLists(owners)] + g[rest]
      BY <1>1, <1>2, <2>1, SumOfUnion
    <3> QED
      BY <1>2, <2>1, <3>1 DEF IsSum
  <2>4. Agents!Worth(earned) = g[earned]
    BY <1>1, <1>2, WorthIsSum
  <2> QED
    BY <1>3, <2>1, <2>2, <2>3, <2>4
<1> QED
  BY <1>4, <1>5 DEF Agents!ListsAreWhatIsOwed

\* With one automatic commission, AllFollow is AmountsFollowBooking.
LEMMA AmountsFollowAlways ==
    ASSUME AgentsInv
    PROVE  Agents!AmountsFollowBooking
BY DEF AgentsInv, Agents!AllFollow, Agents!AmountsFollowBooking

\* A commission follows its booking through every edit that knows where it came from, what was
\* deleted stays deleted, and the lists of sellers and owners come to what the booking owes:
\* for any sellers, owners, carts, percentages and totals, however many commissions and edits.
THEOREM OfficeCommissionsAsOwed == OfficeSpec => []CommissionsAsOwed
<1>1. Agents!Spec => []AgentsInv
  BY PartsAssumption, CommissionsInvariance
<1>2. AgentsInv => /\ Agents!AmountsFollowBooking
                   /\ Agents!DeletedStaysDeleted
                   /\ Agents!ListsAreWhatIsOwed
  BY AmountsFollowAlways, ListsAreWhatIsOwedAlways DEF AgentsInv
<1>3. part = "commissions" /\ OfficeInit => Agents!Init
  BY DEF OfficeInit
<1>4. part = "commissions" /\ [OfficeNext]_vars => [Agents!Next]_(Agents!vars)
  BY DEF OfficeNext, vars, Agents!vars
<1>5. part = "commissions" /\ [OfficeNext]_vars => (part = "commissions")'
  BY PartStays
<1>6. ~(part = "commissions") /\ [OfficeNext]_vars => (~(part = "commissions"))'
  BY PartStays
<1>7. part = "commissions" /\ OfficeSpec => Agents!Spec
  BY <1>3, <1>4, <1>5, PTL DEF OfficeSpec, Agents!Spec
<1>8. ~(part = "commissions") /\ OfficeSpec => [](~(part = "commissions"))
  BY <1>6, PTL DEF OfficeSpec
<1> QED
  BY <1>1, <1>2, <1>7, <1>8, PTL DEF CommissionsAsOwed

-----------------------------------------------------------------------------
(***************************************************************************)
(* Owners' income.  The statement of a month that is over is made from     *)
(* records that change.  An entry of today is outside that month, and an   *)
(* extension or a charge leaves the vehicle what it was: the item it       *)
(* starts from but for the last day, and the share of the rental that it   *)
(* was used for, the whole or what a snapshot says.  Of the whole the      *)
(* payments do not depend on how long it is.  That no entry has two        *)
(* snapshots makes a deletion take back one change.                        *)
(***************************************************************************)

today == x1
rental == x2
timeline == x3
snapshots == x4

USE DEF today, rental, timeline, snapshots

\* What is true of every state of the records that a statement is made from.
IncomeInv == Income!TypeOK /\ Income!OneSnapshotEach

\* At first there is a cart, on day 0.
LEMMA IncomeStart ==
    ASSUME Income!ConstantsAssumption, Income!Init
    PROVE  IncomeInv
<1>1. Income!Unpaid \in Nat
  BY DEF Income!Unpaid, Income!ConstantsAssumption
<1> QED
  BY <1>1
     DEF Income!Init, IncomeInv, Income!TypeOK, Income!OneSnapshotEach, Income!ConstantsAssumption

\* An item that is replaced by one leaves a cart.
LEMMA ItemRevised ==
    ASSUME NEW cart \in Income!Cart, NEW i \in DOMAIN cart, NEW item \in Income!Item,
           item.start < item.end, item.end <= LastRental
    PROVE  [cart EXCEPT ![i] = item] \in Income!Cart
BY DEF Income!Cart

\* So does another vehicle for the rental,
LEMMA ReplacementsAreCarts ==
    ASSUME Income!ConstantsAssumption, Income!TypeOK, NEW i \in DOMAIN rental.cart,
           NEW cart \in Income!Replacements(i)
    PROVE  cart \in Income!Cart
<1> DEFINE item == rental.cart[i]
<1>1. /\ rental.cart \in Income!Cart /\ item \in Income!Item
      /\ item.start < item.end /\ item.end <= LastRental /\ LastRental \in Nat
  BY DEF Income!TypeOK, Income!Cart, Income!ConstantsAssumption
<1>2. PICK v \in Vehicles, start \in {item.start, today} \cap 0 .. item.end - 1,
           end \in {item.end, LastRental} :
        cart = [rental.cart EXCEPT ![i] = [vehicle |-> v, start |-> start, end |-> end,
                                            total |-> item.total]]
  BY DEF Income!Replacements
<1>3. start \in Nat /\ end \in Nat /\ start < end /\ end <= LastRental
  BY <1>1 DEF Income!Item
<1> HIDE DEF item
<1> QED
  BY <1>1, <1>2, <1>3, ItemRevised DEF Income!Item

\* and an extension.
LEMMA ExtendedIsCart ==
    ASSUME Income!ConstantsAssumption, Income!TypeOK, NEW i \in DOMAIN rental.cart,
           NEW end \in rental.cart[i].end + 1 .. LastRental
    PROVE  [rental.cart EXCEPT ![i].end = end] \in Income!Cart
<1> DEFINE item == rental.cart[i]
<1>1. /\ rental.cart \in Income!Cart /\ item \in Income!Item
      /\ item.start < item.end /\ item.end <= LastRental /\ LastRental \in Nat
  BY DEF Income!TypeOK, Income!Cart, Income!ConstantsAssumption
<1>2. /\ [item EXCEPT !.end = end] \in Income!Item
      /\ [item EXCEPT !.end = end].start < [item EXCEPT !.end = end].end
      /\ [item EXCEPT !.end = end].end <= LastRental
  BY <1>1 DEF Income!Item
<1>3. [rental.cart EXCEPT ![i].end = end] = [rental.cart EXCEPT ![i] = [item EXCEPT !.end = end]]
  OBVIOUS
<1> HIDE DEF item
<1> QED
  BY <1>1, <1>2, <1>3, ItemRevised

\* What appending does to a sequence.
LEMMA Appended ==
    ASSUME NEW S, NEW s \in Seq(S), NEW x \in S
    PROVE  /\ Append(s, x) \in Seq(S) /\ Len(Append(s, x)) = Len(s) + 1 /\ Len(s) \in Nat
           /\ DOMAIN Append(s, x) = DOMAIN s \cup {Len(s) + 1}
           /\ \A k \in DOMAIN s : Append(s, x)[k] = s[k]
           /\ Append(s, x)[Len(s) + 1] = x
OBVIOUS

\* An entry has a place of its own, which its snapshot names.
LEMMA RecordKeeps ==
    ASSUME IncomeInv, NEW event \in {Income!Extension, Income!VehicleChange, Income!ExtraHours},
           NEW amount \in Nat,
           NEW cart \in Income!Cart, Income!Record(event, amount, cart)
    PROVE  IncomeInv'
<1> DEFINE e == [event |-> event, amount |-> amount, date |-> today, deleted |-> FALSE]
           s == [at |-> today, old |-> rental.cart, new |-> cart, entry |-> Len(timeline) + 1]
<1>1. /\ timeline' = Append(timeline, e)
      /\ snapshots' = snapshots \/ snapshots' = Append(snapshots, s)
      /\ rental' = [rental EXCEPT !.cart = cart]
      /\ today' = today
  BY DEF Income!Record
<1>0. timeline \in Seq(Income!Entry) /\ snapshots \in Seq(Income!Snapshot)
  BY DEF IncomeInv, Income!TypeOK
<1>2. e \in Income!Entry /\ s \in Income!Snapshot
  BY DEF IncomeInv, Income!TypeOK, Income!Entry, Income!Snapshot
<1>3. s.entry = Len(timeline) + 1
  OBVIOUS
<1> HIDE DEF e, s
<1>4. Income!TypeOK'
  <2>1. timeline' \in Seq(Income!Entry)
    BY <1>0, <1>1, <1>2, Appended
  <2>2. snapshots' \in Seq(Income!Snapshot)
    BY <1>0, <1>1, <1>2, Appended
  <2> QED
    BY <1>1, <2>1, <2>2 DEF IncomeInv, Income!TypeOK
<1>5. Len(timeline') = Len(timeline) + 1 /\ Len(timeline) \in Nat
  <2>1. Len(Append(timeline, e)) = Len(timeline) + 1 /\ Len(timeline) \in Nat
    BY <1>0, <1>2
  <2> QED
    BY <1>1, <2>1, Zenon
<1>8. \A k \in DOMAIN snapshots : snapshots[k].entry \in Nat
  <2>1. \A k \in DOMAIN snapshots : snapshots[k] \in Income!Snapshot
    BY <1>0
  <2> QED
    BY <2>1 DEF Income!Snapshot
<1>6. CASE snapshots' = snapshots
  BY <1>4, <1>5, <1>6, <1>8 DEF IncomeInv, Income!TypeOK, Income!OneSnapshotEach
<1>7. CASE snapshots' = Append(snapshots, s)
  <2>1. /\ DOMAIN snapshots' = DOMAIN snapshots \cup {Len(snapshots) + 1}
        /\ \A k \in DOMAIN snapshots : snapshots'[k] = snapshots[k]
        /\ snapshots'[Len(snapshots) + 1] = s
    BY <1>0, <1>2, <1>7, Appended
  <2>3. Income!OneSnapshotEach'
    BY <1>3, <1>5, <1>8, <2>1 DEF IncomeInv, Income!OneSnapshotEach
  <2> QED
    BY <1>4, <2>3 DEF IncomeInv
<1> QED
  BY <1>1, <1>6, <1>7

\* A deletion takes out that snapshot: the rest keep their order, and no two become one.
LEMMA UndoKeeps ==
    ASSUME IncomeInv, Income!Undo
    PROVE  IncomeInv'
<1>1. PICK e \in DOMAIN timeline :
        /\ timeline' = [timeline EXCEPT ![e].deleted = TRUE]
        /\ snapshots' = Income!SnapshotsWithout(e)
        /\ rental' = [rental EXCEPT !.cart =
                         IF Income!SnapshotsOf(e) = {} THEN @
                         ELSE snapshots[CHOOSE s \in Income!SnapshotsOf(e) : TRUE].old]
        /\ UNCHANGED today
  BY DEF Income!Undo
<1> DEFINE r == CHOOSE s \in Income!SnapshotsOf(e) : TRUE
<1>2. timeline' \in Seq(Income!Entry) /\ Len(timeline') = Len(timeline)
  <2>1. timeline \in Seq(Income!Entry)
    BY DEF IncomeInv, Income!TypeOK
  <2>3. [timeline[e] EXCEPT !.deleted = TRUE] \in Income!Entry
    <3>1. timeline[e] \in Income!Entry
      BY <2>1
    <3> QED
      BY <3>1 DEF Income!Entry
  <2>2. timeline' = [timeline EXCEPT ![e] = [timeline[e] EXCEPT !.deleted = TRUE]]
    BY <1>1
  <2> QED
    BY <2>1, <2>2, <2>3
<1>3. CASE Income!SnapshotsOf(e) = {}
  BY <1>1, <1>2, <1>3 DEF Income!SnapshotsWithout, IncomeInv, Income!TypeOK, Income!OneSnapshotEach
<1>4. CASE Income!SnapshotsOf(e) # {}
  <2>1. r \in 1 .. Len(snapshots) /\ snapshots \in Seq(Income!Snapshot)
    BY <1>4 DEF Income!SnapshotsOf, IncomeInv, Income!TypeOK
  <2> DEFINE before == SubSeq(snapshots, 1, r - 1)
             after  == SubSeq(snapshots, r + 1, Len(snapshots))
  <2>2. snapshots' = before \o after /\ rental' = [rental EXCEPT !.cart = snapshots[r].old]
    BY <1>1, <1>4 DEF Income!SnapshotsWithout
  <2> HIDE DEF r
  <2>3. /\ before \in Seq(Income!Snapshot) /\ Len(before) = r - 1
        /\ \A k \in 1 .. r - 1 : before[k] = snapshots[k]
    BY <2>1
  <2>4. /\ after \in Seq(Income!Snapshot) /\ Len(after) = Len(snapshots) - r
        /\ \A k \in 1 .. Len(snapshots) - r : after[k] = snapshots[r + k]
    BY <2>1
  <2> HIDE DEF before, after
  <2>5. /\ snapshots' \in Seq(Income!Snapshot) /\ Len(snapshots') = Len(snapshots) - 1
        /\ \A k \in DOMAIN snapshots' :
             snapshots'[k] = IF k < r THEN snapshots[k] ELSE snapshots[k + 1]
    BY <2>1, <2>2, <2>3, <2>4
  <2>6. rental' \in [cart : Income!Cart, status : {"PENDIENTE", "APROBADO", "CANCELADO"},
                      method : RentalMethods, paid : Nat]
    <3>1. snapshots[r] \in Income!Snapshot
      BY <2>1
    <3>2. snapshots[r].old \in Income!Cart
      BY <3>1 DEF Income!Snapshot
    <3> QED
      BY <2>2, <3>2 DEF IncomeInv, Income!TypeOK
  <2>7. Income!OneSnapshotEach'
    <3> DEFINE was(k) == IF k < r THEN k ELSE k + 1
    <3>1. \A k \in DOMAIN snapshots' : was(k) \in DOMAIN snapshots /\ snapshots'[k] = snapshots[was(k)]
      BY <2>1, <2>5
    <3>2. \A k, l \in DOMAIN snapshots' : was(k) = was(l) => k = l
      BY <2>1, <2>5
    <3> HIDE DEF was
    <3> QED
      BY <1>2, <3>1, <3>2 DEF IncomeInv, Income!OneSnapshotEach
  <2> QED
    BY <1>1, <1>2, <2>5, <2>6, <2>7 DEF IncomeInv, Income!TypeOK
<1> QED
  BY <1>3, <1>4

\* Every step.
LEMMA IncomeStep ==
    ASSUME Income!ConstantsAssumption
    PROVE  IncomeInv /\ [Income!Next]_(Income!vars) => IncomeInv'
<1> SUFFICES ASSUME IncomeInv, [Income!Next]_(Income!vars) PROVE IncomeInv'
  OBVIOUS
<1>1. CASE UNCHANGED Income!vars
  BY <1>1 DEF Income!vars, IncomeInv, Income!TypeOK, Income!OneSnapshotEach
<1>2. CASE Income!Tick \/ Income!Deposit \/ Income!Approve \/ Income!Cancel
  BY <1>2
     DEF Income!Tick, Income!Deposit, Income!Approve, Income!Cancel, Income!Paid, IncomeInv,
         Income!TypeOK, Income!OneSnapshotEach
<1>3. CASE Income!Extend
  <2>1. PICK amount \in ServicePrices \ {0}, i \in DOMAIN rental.cart :
          \E end \in rental.cart[i].end + 1 .. LastRental :
            Income!Record(Income!Extension, amount, [rental.cart EXCEPT ![i].end = end])
    BY <1>3 DEF Income!Extend
  <2>2. amount \in Nat
    BY DEF Income!ConstantsAssumption
  <2> QED
    BY <2>1, <2>2, ExtendedIsCart, RecordKeeps DEF IncomeInv
<1>4. CASE Income!Change
  <2>1. PICK amount \in ServicePrices, i \in DOMAIN rental.cart :
          \E cart \in Income!Replacements(i) : Income!Record(Income!VehicleChange, amount, cart)
    BY <1>4 DEF Income!Change
  <2>2. amount \in Nat /\ \A cart \in Income!Replacements(i) : cart \in Income!Cart
    BY ReplacementsAreCarts DEF Income!ConstantsAssumption, IncomeInv
  <2> QED
    BY <2>1, <2>2, RecordKeeps
<1>5. CASE Income!Charge
  <2>1. PICK amount \in ServicePrices : Income!Record(Income!ExtraHours, amount, rental.cart)
    BY <1>5 DEF Income!Charge
  <2>2. amount \in Nat /\ rental.cart \in Income!Cart
    BY DEF Income!ConstantsAssumption, IncomeInv, Income!TypeOK
  <2> QED
    BY <2>1, <2>2, RecordKeeps
<1>6. CASE Income!Edit
  <2>1. PICK i \in DOMAIN rental.cart :
          \E cart \in Income!Replacements(i) : rental' = [rental EXCEPT !.cart = cart]
    BY <1>6 DEF Income!Edit
  <2>2. \A cart \in Income!Replacements(i) : cart \in Income!Cart
    BY ReplacementsAreCarts DEF IncomeInv
  <2> QED
    BY <1>6, <2>1, <2>2 DEF Income!Edit, IncomeInv, Income!TypeOK, Income!OneSnapshotEach
<1> QED
  BY <1>1, <1>2, <1>3, <1>4, <1>5, <1>6, UndoKeeps DEF Income!Next

\* Hence the invariant is always true.
LEMMA IncomeInvariance ==
    ASSUME Income!ConstantsAssumption
    PROVE  Income!Spec => []IncomeInv
<1>1. Income!Init => IncomeInv
  BY IncomeStart
<1>2. IncomeInv /\ [Income!Next]_(Income!vars) => IncomeInv'
  BY IncomeStep
<1> QED
  BY <1>1, <1>2, PTL DEF Income!Spec

\* The least element of a set of numbers is one of it,
LEMMA LeastIsIn ==
    ASSUME NEW T \in SUBSET Nat, T # {}
    PROVE  Income!Min(T) \in T
BY LeastNumber DEF Income!Min

\* and so is the greatest, if they are bounded.
LEMMA GreatestIsIn ==
    ASSUME NEW n \in Nat, NEW T \in SUBSET (1 .. n), T # {}
    PROVE  Income!Max(T) \in T /\ \A k \in T : k <= Income!Max(T)
<1> DEFINE U == {n - k : k \in T}
<1>1. U \in SUBSET Nat /\ U # {}
  <2>1. \A k \in T : k \in 1 .. n /\ n - k \in Nat
    OBVIOUS
  <2> QED
    BY <2>1
<1>2. PICK u \in U : \A x \in U : u <= x
  <2> HIDE DEF U
  <2> QED
    BY <1>1, LeastNumber
<1>3. PICK m \in T : u = n - m
  BY <1>2
<1>4. \A k \in T : m >= k
  BY <1>2, <1>3
<1>5. Income!Max(T) \in T /\ \A k \in T : Income!Max(T) >= k
  BY <1>3, <1>4 DEF Income!Max
<1> QED
  BY <1>5

\* The same rental, but for its last days.
SameButEnds(c, d) ==
    /\ DOMAIN d = DOMAIN c
    /\ \A i \in DOMAIN c :
         d[i].vehicle = c[i].vehicle /\ d[i].start = c[i].start /\ d[i].total = c[i].total

\* What an item is, and what does not change if only last days do.
LEMMA ItemsAre ==
    ASSUME NEW c \in Income!Cart, NEW v, Income!Names(c, v)
    PROVE  /\ Income!ItemOf(c, v) \in Income!Item
           /\ Income!ItemOf(c, v).start < Income!ItemOf(c, v).end
           /\ Income!ItemOf(c, v).end \in Nat
           /\ Income!ItemOf(c, v).start \in Nat
           /\ Income!ItemOf(c, v).total \in Nat
           /\ \A d \in Income!Cart : SameButEnds(c, d) =>
                /\ Income!Names(d, v)
                /\ Income!ItemOf(d, v).start = Income!ItemOf(c, v).start
                /\ Income!ItemOf(d, v).total = Income!ItemOf(c, v).total
<1> DEFINE T == {i \in DOMAIN c : c[i].vehicle = v}
<1>1. T \in SUBSET Nat /\ T # {} /\ T \in SUBSET (DOMAIN c)
  BY DEF Income!Cart, Income!Names
<1>2. Income!Min(T) \in T
  <2> HIDE DEF T
  <2> QED
    BY <1>1, LeastIsIn
<1>3. Income!Min(T) \in DOMAIN c /\ Income!ItemOf(c, v) = c[Income!Min(T)]
  BY <1>1, <1>2 DEF Income!ItemOf
<1>4. c[Income!Min(T)] \in Income!Item /\ c[Income!Min(T)].start < c[Income!Min(T)].end
  BY <1>3 DEF Income!Cart
<1>5. ASSUME NEW d \in Income!Cart, SameButEnds(c, d)
      PROVE  /\ Income!Names(d, v)
             /\ Income!ItemOf(d, v).start = Income!ItemOf(c, v).start
             /\ Income!ItemOf(d, v).total = Income!ItemOf(c, v).total
  <2>1. T = {i \in DOMAIN d : d[i].vehicle = v}
    BY <1>5 DEF SameButEnds
  <2>2. Income!ItemOf(d, v) = d[Income!Min(T)]
    BY <2>1 DEF Income!ItemOf
  <2>3. Income!Names(d, v)
    BY <1>2, <2>1 DEF Income!Names
  <2> HIDE DEF T
  <2> QED
    BY <1>3, <1>5, <2>2, <2>3 DEF SameButEnds
<1> HIDE DEF T
<1> QED
  BY <1>3, <1>4, <1>5 DEF Income!Item

\* What is left of a step that adds an entry and keeps the vehicles: an extension or a charge.
GoesOn(e, s) ==
    /\ today' = today
    /\ rental'.status = rental.status /\ rental'.method = rental.method
    /\ rental'.paid = rental.paid
    /\ rental'.cart \in Income!Cart /\ SameButEnds(rental.cart, rental'.cart)
    /\ e.date = today /\ timeline' = Append(timeline, e)
    /\ \/ rental'.cart = rental.cart /\ snapshots' = snapshots
       \/ /\ e.event = Income!Extension /\ e.amount > 0 /\ ~e.deleted
          /\ s.old = rental.cart /\ s.new = rental'.cart
          /\ snapshots' = Append(snapshots, s)

\* An entry that keeps the vehicles is an extension or a charge of today.
LEMMA EntriesGoOn ==
    ASSUME Income!ConstantsAssumption, IncomeInv, [Income!Next]_(Income!vars),
           Len(timeline') > Len(timeline),
           Income!VehiclesIn(rental'.cart) = Income!VehiclesIn(rental.cart)
    PROVE  \E e \in Income!Entry, s \in Income!Snapshot : GoesOn(e, s)
<1>0. /\ today \in Nat /\ rental.cart \in Income!Cart /\ timeline \in Seq(Income!Entry)
      /\ DOMAIN rental = {"cart", "status", "method", "paid"}
  BY DEF IncomeInv, Income!TypeOK
<1>1. Len(timeline) \in Nat /\ timeline' # timeline
  BY <1>0
<1>2. ASSUME NEW event \in {Income!Extension, Income!VehicleChange, Income!ExtraHours},
             NEW amount \in Nat, NEW cart \in Income!Cart, Income!Record(event, amount, cart),
             SameButEnds(rental.cart, cart),
             cart = rental.cart \/ (event = Income!Extension /\ amount > 0)
      PROVE  \E e \in Income!Entry, s \in Income!Snapshot : GoesOn(e, s)
  <2> DEFINE e == [event |-> event, amount |-> amount, date |-> today, deleted |-> FALSE]
             s == [at |-> today, old |-> rental.cart, new |-> cart,
                   entry |-> Len(timeline) + 1]
  <2>1. e \in Income!Entry /\ s \in Income!Snapshot
    BY <1>0, <1>1 DEF Income!Entry, Income!Snapshot
  <2>2. GoesOn(e, s)
    <3>1. rental'.cart = cart /\ rental'.status = rental.status
          /\ rental'.method = rental.method /\ rental'.paid = rental.paid
      BY <1>0, <1>2 DEF Income!Record
    <3> QED
      BY <1>2, <3>1 DEF Income!Record, GoesOn
  <2> QED
    BY <2>1, <2>2
<1>3. CASE Income!Extend
  <2>1. PICK amount \in ServicePrices \ {0}, i \in DOMAIN rental.cart :
          \E end \in rental.cart[i].end + 1 .. LastRental :
            Income!Record(Income!Extension, amount, [rental.cart EXCEPT ![i].end = end])
    BY <1>3 DEF Income!Extend
  <2>2. PICK end \in rental.cart[i].end + 1 .. LastRental :
            Income!Record(Income!Extension, amount, [rental.cart EXCEPT ![i].end = end])
    BY <2>1
  <2> DEFINE cart == [rental.cart EXCEPT ![i].end = end]
  <2>3. amount \in Nat /\ amount > 0
    <3>1. ServicePrices \in SUBSET Nat
      BY DEF Income!ConstantsAssumption
    <3> QED
      BY <3>1
  <2>4. cart \in Income!Cart
    BY ExtendedIsCart DEF IncomeInv
  <2>5. SameButEnds(rental.cart, cart)
    <3>1. \A j \in DOMAIN rental.cart : rental.cart[j] \in Income!Item
      BY <1>0 DEF Income!Cart
    <3> QED
      BY <3>1 DEF SameButEnds, Income!Item
  <2> HIDE DEF cart
  <2> QED
    BY <1>2, <2>2, <2>3, <2>4, <2>5 DEF cart
<1>4. CASE Income!Charge
  <2>1. PICK amount \in ServicePrices : Income!Record(Income!ExtraHours, amount, rental.cart)
    BY <1>4 DEF Income!Charge
  <2>2. amount \in Nat /\ SameButEnds(rental.cart, rental.cart)
    BY DEF Income!ConstantsAssumption, SameButEnds
  <2> QED
    BY <1>0, <1>2, <2>1, <2>2
<1>5. ~Income!Change
  <2> SUFFICES ASSUME Income!Change PROVE FALSE
    OBVIOUS
  <2>1. PICK amount \in ServicePrices, i \in DOMAIN rental.cart :
          \E cart \in Income!Replacements(i) : Income!Record(Income!VehicleChange, amount, cart)
    BY DEF Income!Change
  <2>2. PICK cart \in Income!Replacements(i) : Income!Record(Income!VehicleChange, amount, cart)
    BY <2>1
  <2>3. rental'.cart = cart
    BY <1>0, <2>2 DEF Income!Record
  <2>4. PICK v \in Vehicles : /\ \A j \in DOMAIN rental.cart : rental.cart[j].vehicle # v
                              /\ i \in DOMAIN cart /\ cart[i].vehicle = v
    BY DEF Income!Replacements
  <2> QED
    BY <2>3, <2>4 DEF Income!VehiclesIn
<1>6. ~Income!Undo
  BY <1>0, <1>1 DEF Income!Undo
<1>7. ~(\/ Income!Tick \/ Income!Deposit \/ Income!Approve \/ Income!Cancel \/ Income!Edit
        \/ UNCHANGED Income!vars)
  BY <1>1 DEF Income!Tick, Income!Deposit, Income!Approve, Income!Cancel, Income!Edit, Income!vars
<1> QED
  BY <1>3, <1>4, <1>5, <1>6, <1>7 DEF Income!Next

\* A factor of both does not change a quotient,
LEMMA QuotientScales ==
    ASSUME NEW a \in Nat, NEW b \in Nat, NEW u \in Nat, b > 0, u > 0
    PROVE  (a * u) \div (b * u) = a \div b
<1> DEFINE q == a \div b
           r == a % b
<1>1. q \in Int /\ r \in 0 .. b - 1 /\ a = b * q + r
  OBVIOUS
<1> HIDE DEF q, r
<1>2. r * u >= 0 /\ r * u < b * u
  BY <1>1
<1>3. a * u = (b * u) * q + r * u
  BY <1>1
<1>4. b * u \in Nat /\ b * u > 0 /\ r * u \in Int
  BY <1>1
<1>5. ASSUME NEW m \in Int, NEW n \in Nat, n > 0, NEW k \in Int, NEW l \in Int,
             m = n * k + l, 0 <= l, l < n
      PROVE  m \div n = k
  BY <1>5
<1>6. (a * u) \div (b * u) = q
  BY <1>1, <1>2, <1>3, <1>4, <1>5
<1> QED
  BY <1>6 DEF q

\* or a rounded one.
LEMMA RoundScales ==
    ASSUME NEW t \in Nat, NEW k \in Nat, NEW u \in Nat, k > 0, u > 0
    PROVE  Income!Round(t * u, k * u) = Income!Round(t, k)
<1>1. 2 * t + k \in Nat /\ 2 * k \in Nat /\ 2 * k > 0
  OBVIOUS
<1>2. ((2 * t + k) * u) \div ((2 * k) * u) = (2 * t + k) \div (2 * k)
  BY <1>1, QuotientScales
<1>3. 2 * (t * u) + k * u = (2 * t + k) * u /\ 2 * (k * u) = (2 * k) * u
  OBVIOUS
<1> QED
  BY <1>2, <1>3 DEF Income!Round

\* What MapThenSumSet computes is the sum.
LEMMA AmountIsSum ==
    ASSUME NEW h, NEW some, IsFiniteSet(some), NEW w,
           \A x \in some : w[x] = h[x].amount /\ w[x] \in Int, NEW g, IsSum(g, w, some)
    PROVE  Income!AmountOf(h, some) = g[some]
<1> DEFINE From(f) == [s \in SUBSET some |-> IF s = {} THEN 0
                         ELSE h[CHOOSE x \in s : TRUE].amount + f[s \ {CHOOSE x \in s : TRUE}]]
           sum == CHOOSE f : f = From(f)
<1>2. g = From(g)
  <2>1. ASSUME NEW s \in SUBSET some PROVE g[s] = From(g)[s]
    <3>1. CASE s = {}
      BY <3>1 DEF IsSum, Sums
    <3>2. CASE s # {}
      BY <3>2, FirstIsIn DEF IsSum, Sums, First
    <3> QED
      BY <3>1, <3>2
  <2>2. g \in [SUBSET some -> Int]
    BY DEF IsSum
  <2> QED
    BY <2>1, <2>2
<1>3. sum = From(sum)
  <2> HIDE DEF From
  <2> QED
    BY <1>2
<1>4. Income!AmountOf(h, some) = sum[some]
  BY DEF Income!AmountOf, Income!MapThenSumSet, Income!MapThenFoldSet
<1>5. Sums(sum, w, some)
  <2>1. ASSUME NEW s \in SUBSET some
        PROVE  sum[s] = IF s = {} THEN 0 ELSE w[First(s)] + sum[s \ {First(s)}]
    <3>1. sum[s] = From(sum)[s]
      BY <1>3
    <3>2. s # {} => w[First(s)] = h[First(s)].amount
      BY FirstIsIn
    <3> HIDE DEF sum
    <3> QED
      BY <3>1, <3>2 DEF First
  <2> QED
    BY <2>1 DEF Sums
<1> HIDE DEF sum
<1> QED
  BY <1>4, <1>5, SumsAgree, FS_Subset DEF IsSum

\* Histories that agree on some entries: these come to the same.
LEMMA AmountsAre ==
    ASSUME NEW h \in Seq(Income!Entry), NEW some \in SUBSET (DOMAIN h)
    PROVE  /\ Income!AmountOf(h, some) \in Nat
           /\ \A other : (\A e \in some : other[e] = h[e]) =>
                 Income!AmountOf(other, some) = Income!AmountOf(h, some)
<1> DEFINE w == [x \in some |-> h[x].amount]
<1>1. \A x \in some : w[x] = h[x].amount /\ w[x] \in Nat
  <2>1. \A x \in some : h[x] \in Income!Entry
    OBVIOUS
  <2> QED
    BY <2>1 DEF Income!Entry
<1>2. IsFiniteSet(some)
  <2>1. IsFiniteSet(1 .. Len(h)) /\ some \in SUBSET (1 .. Len(h))
    BY FS_Interval
  <2> QED
    BY <2>1, FS_Subset
<1> HIDE DEF w
<1>3. PICK g : IsSum(g, w, some)
  BY <1>1, <1>2, SumsExist
<1>4. Income!AmountOf(h, some) = g[some]
  BY <1>1, <1>2, <1>3, AmountIsSum
<1>5. g[some] \in Nat
  BY <1>1, <1>2, <1>3, SumIsNatural
<1>6. ASSUME NEW other, \A e \in some : other[e] = h[e]
      PROVE  Income!AmountOf(other, some) = Income!AmountOf(h, some)
  <2>1. \A x \in some : w[x] = other[x].amount /\ w[x] \in Int
    BY <1>1, <1>6
  <2>2. Income!AmountOf(other, some) = g[some]
    BY <1>2, <1>3, <2>1, AmountIsSum
  <2> QED
    BY <1>4, <2>2
<1> QED
  BY <1>4, <1>5, <1>6

\* The snapshots say of a vehicle what they said, and one more that it is in the cart still.
LEMMA SnapshotsGoOn ==
    ASSUME IncomeInv, NEW e \in Income!Entry, NEW s \in Income!Snapshot, GoesOn(e, s), NEW v
    PROVE  /\ Income!Removed(v)' = Income!Removed(v)
           /\ Income!Moves(v)' = Income!Moves(v)
           /\ \A k \in DOMAIN snapshots :
                snapshots'[k] = snapshots[k] /\ snapshots[k] \in Income!Snapshot
           /\ Income!Left(v)' = IF snapshots' # snapshots /\ ~Income!Removed(v)
                         THEN Income!Left(v) \cup {Len(snapshots) + 1} ELSE Income!Left(v)
           /\ snapshots' # snapshots =>
                /\ snapshots' = Append(snapshots, s)
                /\ snapshots'[Len(snapshots) + 1].old = rental.cart
           /\ snapshots \in Seq(Income!Snapshot) /\ Len(snapshots) \in Nat
<1>1. /\ snapshots \in Seq(Income!Snapshot)
      /\ rental.cart \in Income!Cart
      /\ rental'.cart \in Income!Cart
      /\ SameButEnds(rental.cart, rental'.cart)
      /\ \/ snapshots' = snapshots
         \/ s.old = rental.cart /\ s.new = rental'.cart /\ snapshots' = Append(snapshots, s)
  BY DEF IncomeInv, Income!TypeOK, GoesOn
<1>2. Income!Names(rental'.cart, v) = Income!Names(rental.cart, v)
  BY <1>1 DEF SameButEnds, Income!Names
<1>3. Income!Removed(v)' = Income!Removed(v) /\ Income!Removed(v) = ~Income!Names(rental.cart, v)
  BY <1>2 DEF Income!Removed
<1>4. CASE snapshots' = snapshots
  <2>1. Income!Moves(v)' = Income!Moves(v) /\ Income!Left(v)' = Income!Left(v)
    BY <1>4 DEF Income!Moves, Income!Left
  <2>2. \A k \in DOMAIN snapshots : snapshots'[k] = snapshots[k] /\ snapshots[k] \in Income!Snapshot
    BY <1>1, <1>4
  <2>3. Len(snapshots) \in Nat
    BY <1>1
  <2> QED
    BY <1>1, <1>3, <1>4, <2>1, <2>2, <2>3
<1>5. CASE s.old = rental.cart /\ s.new = rental'.cart /\ snapshots' = Append(snapshots, s)
  <2>1. /\ DOMAIN snapshots' = DOMAIN snapshots \cup {Len(snapshots) + 1}
        /\ \A k \in DOMAIN snapshots : snapshots'[k] = snapshots[k]
        /\ snapshots'[Len(snapshots) + 1] = s
        /\ Len(snapshots) \in Nat /\ Len(snapshots) + 1 \notin DOMAIN snapshots
    BY <1>1, <1>5, Appended
  <2>2. snapshots' # snapshots
    BY <2>1
  <2>3. Income!Moves(v)' = Income!Moves(v)
    BY <1>2, <1>5, <2>1 DEF Income!Moves
  <2>4. Income!Left(v)' = IF ~Income!Removed(v)
                          THEN Income!Left(v) \cup {Len(snapshots) + 1} ELSE Income!Left(v)
    BY <1>3, <1>5, <2>1 DEF Income!Left
  <2>5. \A k \in DOMAIN snapshots : snapshots[k] \in Income!Snapshot
    BY <1>1
  <2> QED
    BY <1>1, <1>3, <1>5, <2>1, <2>2, <2>3, <2>4, <2>5
<1> QED
  BY <1>1, <1>4, <1>5

\* The item that a report starts from, but for its last day.
LEMMA ItemsGoOn ==
    ASSUME IncomeInv, NEW e \in Income!Entry, NEW s \in Income!Snapshot, GoesOn(e, s), NEW v,
           Income!TookPart(v)
    PROVE  /\ Income!BaseItem(v)'.start = Income!BaseItem(v).start
           /\ Income!BaseItem(v)'.total = Income!BaseItem(v).total
           /\ Income!BaseItem(v).start < Income!BaseItem(v).end
           /\ Income!BaseItem(v)'.start < Income!BaseItem(v)'.end
           /\ Income!BaseItem(v).start \in Nat
           /\ Income!BaseItem(v).end \in Nat
           /\ Income!BaseItem(v)'.end \in Nat
           /\ Income!BaseItem(v).total \in Nat
           /\ Income!Removed(v) \/ rental'.cart = rental.cart =>
                Income!BaseItem(v)' = Income!BaseItem(v)
<1>1. /\ rental.cart \in Income!Cart /\ rental'.cart \in Income!Cart
      /\ SameButEnds(rental.cart, rental'.cart)
  BY DEF IncomeInv, Income!TypeOK, GoesOn
<1>2. CASE Income!Removed(v)
  <2>1. /\ Income!Left(v) # {}
        /\ Income!Left(v) \in SUBSET Nat
        /\ Income!Left(v) \in SUBSET (DOMAIN snapshots)
    <3>1. DOMAIN snapshots = 1 .. Len(snapshots) /\ Len(snapshots) \in Nat
      BY DEF IncomeInv, Income!TypeOK
    <3> QED
      BY <1>2, <3>1 DEF Income!TookPart, Income!Left
  <2>2. Income!Min(Income!Left(v)) \in Income!Left(v)
    BY <2>1, LeastIsIn
  <2> DEFINE k == Income!Min(Income!Left(v))
  <2>3. /\ k \in DOMAIN snapshots
        /\ snapshots'[k] = snapshots[k]
        /\ snapshots[k] \in Income!Snapshot
        /\ Income!Left(v)' = Income!Left(v) /\ Income!Removed(v)'
    BY <1>2, <2>1, <2>2, SnapshotsGoOn
  <2>4. snapshots[k].old \in Income!Cart /\ Income!Names(snapshots[k].old, v)
    BY <2>2, <2>3 DEF Income!Left, Income!Snapshot
  <2>5. /\ Income!BaseItem(v) = Income!ItemOf(snapshots[k].old, v)
        /\ Income!BaseItem(v)' = Income!BaseItem(v)
    BY <1>2, <2>3 DEF Income!BaseItem
  <2> HIDE DEF k
  <2> QED
    BY <2>4, <2>5, ItemsAre
<1>3. CASE ~Income!Removed(v)
  <2>1. ~Income!Removed(v)' /\ Income!Names(rental.cart, v)
    BY <1>3, SnapshotsGoOn DEF Income!Removed
  <2>2. /\ Income!BaseItem(v) = Income!ItemOf(rental.cart, v)
        /\ Income!BaseItem(v)' = Income!ItemOf(rental'.cart, v)
    BY <1>3, <2>1 DEF Income!BaseItem
  <2>3. /\ Income!Names(rental'.cart, v)
        /\ Income!ItemOf(rental'.cart, v).start = Income!ItemOf(rental.cart, v).start
        /\ Income!ItemOf(rental'.cart, v).total = Income!ItemOf(rental.cart, v).total
    BY <1>1, <2>1, ItemsAre
  <2> QED
    BY <1>1, <1>3, <2>1, <2>2, <2>3, ItemsAre
<1> QED
  BY <1>2, <1>3

\* A vehicle was used as before, or all the time before and after.
LEMMA UseGoesOn ==
    ASSUME IncomeInv, NEW e \in Income!Entry, NEW s \in Income!Snapshot, GoesOn(e, s), NEW v,
           Income!TookPart(v)
    PROVE  /\ Income!Use(v)'.start = Income!Use(v).start
           /\ rental'.cart = rental.cart \/ Income!Moves(v) # {} => Income!Use(v)' = Income!Use(v)
           /\ \/ Income!Use(v)' = Income!Use(v)
              \/ /\ Income!Used(v) \in Nat \ {0} /\ Income!OutOf(v) = Income!Used(v)
                 /\ Income!Used(v)' \in Nat \ {0} /\ Income!OutOf(v)' = Income!Used(v)'
<1>1. CASE Income!Moves(v) # {}
  <2>1. Income!Moves(v) \in SUBSET (1 .. Len(snapshots)) /\ Len(snapshots) \in Nat
    BY SnapshotsGoOn DEF Income!Moves
  <2>2. Income!Max(Income!Moves(v)) \in DOMAIN snapshots
    BY <1>1, <2>1, GreatestIsIn DEF Income!Moves
  <2>3. /\ Income!Moves(v)' = Income!Moves(v)
        /\ snapshots'[Income!Max(Income!Moves(v))] = snapshots[Income!Max(Income!Moves(v))]
    BY <2>2, SnapshotsGoOn
  <2>4. Income!Use(v)' = Income!Use(v)
    BY <1>1, <2>3 DEF Income!Use
  <2> QED
    BY <2>4
<1>2. CASE Income!Moves(v) = {}
  <2> DEFINE dates(item) ==
               [start |-> item.start, end |-> item.end, from |-> item.start, to |-> item.end]
  <2>1. Income!Moves(v)' = {}
    BY <1>2, SnapshotsGoOn
  <2>2. Income!Use(v) = dates(Income!BaseItem(v))
    BY <1>2 DEF Income!Use
  <2>3. Income!Use(v)' = dates(Income!BaseItem(v)')
    BY <2>1 DEF Income!Use
  <2>4. /\ Income!BaseItem(v)'.start = Income!BaseItem(v).start
        /\ Income!BaseItem(v).start < Income!BaseItem(v).end
        /\ Income!BaseItem(v)'.start < Income!BaseItem(v)'.end
        /\ Income!BaseItem(v).start \in Nat
        /\ Income!BaseItem(v).end \in Nat
        /\ Income!BaseItem(v)'.end \in Nat
    BY ItemsGoOn
  <2>5. /\ Income!Used(v) = Income!BaseItem(v).end - Income!BaseItem(v).start
        /\ Income!OutOf(v) = Income!Used(v)
    BY <2>2, <2>4 DEF Income!Used, Income!OutOf
  <2>6. /\ Income!Used(v)' = Income!BaseItem(v)'.end - Income!BaseItem(v)'.start
        /\ Income!OutOf(v)' = Income!Used(v)'
    BY <2>3, <2>4 DEF Income!Used, Income!OutOf
  <2>7. rental'.cart = rental.cart => Income!Use(v)' = Income!Use(v)
    BY <2>2, <2>3, ItemsGoOn
  <2>8. Income!Use(v)'.start = Income!Use(v).start
    BY <2>2, <2>3, <2>4
  <2>9. Income!Used(v) \in Nat \ {0} /\ Income!Used(v)' \in Nat \ {0}
    BY <2>4, <2>5, <2>6
  <2> QED
    BY <1>2, <2>5, <2>6, <2>7, <2>8, <2>9
<1> QED
  BY <1>1, <1>2

\* The payments of a vehicle that was used some of the time; used is not zero.
PartsOf(total, used, whole) ==
    CASE rental.method = "cash" ->
           <<[date |-> 0, amount |-> Income!Round(total * used, 5 * whole)],
             [date |-> rental.paid, amount |-> Income!Round(4 * (total * used), 5 * whole)]>>
      [] rental.method = "transfer" ->
           <<[date |-> rental.paid, amount |-> Income!Round(total * used, whole)]>>
      [] OTHER -> <<[date |-> 0, amount |-> Income!Round(total * used, whole)]>>

\* Of a whole use, the payments do not depend on how long it is.
LEMMA WholeParts ==
    ASSUME NEW total \in Nat, NEW used \in Nat \ {0}
    PROVE  PartsOf(total, used, used) = PartsOf(total, 1, 1)
<1>1. ASSUME NEW u \in Nat \ {0}
      PROVE  /\ Income!Round(total * u, 5 * u) = Income!Round(total, 5)
             /\ Income!Round(4 * (total * u), 5 * u) = Income!Round(4 * total, 5)
             /\ Income!Round(total * u, u) = Income!Round(total, 1)
  <2>1. Income!Round(total * u, 5 * u) = Income!Round(total, 5)
    BY RoundScales
  <2>2. /\ Income!Round((4 * total) * u, 5 * u) = Income!Round(4 * total, 5)
        /\ (4 * total) * u = 4 * (total * u)
    <3>1. 4 * total \in Nat /\ (4 * total) * u = 4 * (total * u)
      OBVIOUS
    <3> QED
      BY <3>1, RoundScales
  <2>3. Income!Round(total * u, 1 * u) = Income!Round(total, 1) /\ 1 * u = u
    <3>1. 1 * u = u
      OBVIOUS
    <3> QED
      BY <3>1, RoundScales
  <2> QED
    BY <2>1, <2>2, <2>3
<1>2. PartsOf(total, used, used) =
        CASE rental.method = "cash" ->
               <<[date |-> 0, amount |-> Income!Round(total, 5)],
                 [date |-> rental.paid, amount |-> Income!Round(4 * total, 5)]>>
          [] rental.method = "transfer" ->
               <<[date |-> rental.paid, amount |-> Income!Round(total, 1)]>>
          [] OTHER -> <<[date |-> 0, amount |-> Income!Round(total, 1)]>>
  BY <1>1 DEF PartsOf
<1>3. PartsOf(total, 1, 1) =
        CASE rental.method = "cash" ->
               <<[date |-> 0, amount |-> Income!Round(total, 5)],
                 [date |-> rental.paid, amount |-> Income!Round(4 * total, 5)]>>
          [] rental.method = "transfer" ->
               <<[date |-> rental.paid, amount |-> Income!Round(total, 1)]>>
          [] OTHER -> <<[date |-> 0, amount |-> Income!Round(total, 1)]>>
  <2>1. 1 \in Nat \ {0}
    OBVIOUS
  <2> QED
    BY <1>1, <2>1 DEF PartsOf
<1> QED
  BY <1>2, <1>3

\* What was added to the rental in a month that is over.
LEMMA TotalsGoOn ==
    ASSUME Income!ConstantsAssumption, IncomeInv, NEW e \in Income!Entry, NEW s \in Income!Snapshot,
           GoesOn(e, s),
           NEW v, Income!TookPart(v), NEW m \in StatementMonths, m.to <= today
    PROVE  /\ Income!VehicleTotal(v, m) \in Nat
           /\ Income!VehicleTotal(v, m)' = Income!VehicleTotal(v, m)
<1>1. timeline \in Seq(Income!Entry) /\ today \in Nat /\ m.to \in Nat
  BY DEF IncomeInv, Income!TypeOK, Income!ConstantsAssumption
<1>2. /\ DOMAIN timeline' = DOMAIN timeline \cup {Len(timeline) + 1}
      /\ \A k \in DOMAIN timeline : timeline'[k] = timeline[k]
      /\ timeline'[Len(timeline) + 1] = e
  BY <1>1, Appended DEF GoesOn
<1>3. ~Income!Within(e.date, m)
  BY <1>1 DEF GoesOn, Income!Within
<1>4. Income!Removed(v)' = Income!Removed(v)
  BY SnapshotsGoOn
<1>5. Income!Adjustments(v, m)' = Income!Adjustments(v, m)
  BY <1>2, <1>3, <1>4 DEF Income!Adjustments
<1>6. /\ Income!AmountOf(timeline, Income!Adjustments(v, m)) \in Nat
      /\ Income!AmountOf(timeline', Income!Adjustments(v, m))
           = Income!AmountOf(timeline, Income!Adjustments(v, m))
  <2> DEFINE some == Income!Adjustments(v, m)
  <2>1. some \in SUBSET (DOMAIN timeline)
    BY DEF Income!Adjustments
  <2>2. \A x \in some : timeline'[x] = timeline[x]
    BY <1>2, <2>1
  <2> HIDE DEF some
  <2>3. /\ Income!AmountOf(timeline, some) \in Nat
        /\ Income!AmountOf(timeline', some) = Income!AmountOf(timeline, some)
    BY <1>1, <2>1, <2>2, AmountsAre
  <2> QED
    BY <2>3 DEF some
<1>7. Income!BaseItem(v)'.total = Income!BaseItem(v).total /\ Income!BaseItem(v).total \in Nat
  BY ItemsGoOn
<1> QED
  BY <1>5, <1>6, <1>7 DEF Income!VehicleTotal

\* No entry of today changes what was earned in a month that is over,
LEMMA IncomeStays ==
    ASSUME Income!ConstantsAssumption, IncomeInv, NEW e \in Income!Entry, NEW s \in Income!Snapshot,
           GoesOn(e, s),
           NEW v, NEW m \in StatementMonths, m.to <= today
    PROVE  Income!Income(v, m)' = Income!Income(v, m)
<1>1. Income!TookPart(v)' = Income!TookPart(v)
  <2>1. /\ Income!Removed(v)' = Income!Removed(v)
        /\ Income!Removed(v) => Income!Left(v)' = Income!Left(v)
    BY SnapshotsGoOn
  <2> QED
    BY <2>1 DEF Income!TookPart
<1>2. CASE ~Income!TookPart(v)
  BY <1>1, <1>2 DEF Income!Income, Income!Reported
<1>3. CASE Income!TookPart(v)
  <2> DEFINE t == Income!VehicleTotal(v, m)
  <2>1. Income!VehicleTotal(v, m)' = t /\ t \in Nat
    BY <1>3, TotalsGoOn
  <2>2. /\ rental'.method = rental.method /\ rental'.paid = rental.paid
        /\ rental'.status = rental.status
    BY DEF GoesOn
  <2>3. Income!Parts(v, m) = PartsOf(t, Income!Used(v), Income!OutOf(v))
    BY DEF Income!Parts, PartsOf
  <2> HIDE DEF t
  <2>4. Income!Parts(v, m)' = PartsOf(t, Income!Used(v)', Income!OutOf(v)')
    BY <2>1, <2>2 DEF Income!Parts, PartsOf
  <2>5. Income!Reported(v)' = Income!Reported(v) /\ Income!Parts(v, m)' = Income!Parts(v, m)
    <3>1. CASE Income!Use(v)' = Income!Use(v)
      <4>1. Income!Used(v)' = Income!Used(v) /\ Income!OutOf(v)' = Income!OutOf(v)
        BY <3>1 DEF Income!Used, Income!OutOf
      <4>2. Income!Reported(v)' = Income!Reported(v)
        BY <1>1, <2>2, <4>1 DEF Income!Reported
      <4>3. Income!Parts(v, m)' = Income!Parts(v, m)
        BY <2>3, <2>4, <4>1
      <4> QED
        BY <4>2, <4>3
    <3>2. CASE /\ Income!Used(v) \in Nat \ {0} /\ Income!OutOf(v) = Income!Used(v)
               /\ Income!Used(v)' \in Nat \ {0} /\ Income!OutOf(v)' = Income!Used(v)'
      <4>1. Income!Reported(v)' = Income!Reported(v)
        BY <1>1, <2>2, <3>2 DEF Income!Reported
      <4>2. Income!Parts(v, m) = PartsOf(t, 1, 1)
        BY <2>1, <2>3, <3>2, WholeParts
      <4>3. Income!Parts(v, m)' = PartsOf(t, 1, 1)
        BY <2>1, <2>4, <3>2, WholeParts
      <4> QED
        BY <4>1, <4>2, <4>3
    <3> QED
      BY <1>3, <3>1, <3>2, UseGoesOn
  <2>6. Income!Income(v, m)' = IF Income!Reported(v)' THEN Income!PaidIn(Income!Parts(v, m)', m) ELSE 0
    BY DEF Income!Income
  <2> QED
    BY <2>5, <2>6 DEF Income!Income
<1> QED
  BY <1>2, <1>3

\* nor the days rented in it: an extension of later is left out.
LEMMA DaysStay ==
    ASSUME Income!ConstantsAssumption, IncomeInv, NEW e \in Income!Entry, NEW s \in Income!Snapshot,
           GoesOn(e, s),
           NEW v, NEW m \in StatementMonths,
           m.to <= today, ~Income!Removed(v), Income!Left(v) = {}, Income!Recorded
    PROVE  Income!RentalDays(v, m)' = Income!RentalDays(v, m)
<1>1. Income!TookPart(v) /\ Income!Names(rental.cart, v) /\ ~Income!Removed(v)'
  BY SnapshotsGoOn DEF Income!TookPart, Income!Removed
<1>2. Income!RentalDays(v, m) = Income!Use(v).end - Income!Use(v).start
  BY DEF Income!RentalDays, Income!OriginalEnd
<1>3. Income!Use(v)'.start = Income!Use(v).start
  BY <1>1, UseGoesOn
<1>4. CASE snapshots' = snapshots
  <2>1. Income!Left(v)' = {}
    BY <1>4, SnapshotsGoOn
  <2>2. Income!RentalDays(v, m)' = Income!Use(v)'.end - Income!Use(v)'.start
    BY <2>1 DEF Income!RentalDays, Income!OriginalEnd
  <2>3. CASE rental'.cart = rental.cart
    BY <1>1, <1>2, <2>2, <2>3, UseGoesOn
  <2>4. CASE rental'.cart # rental.cart
    <3>1. snapshots' = Append(snapshots, s) /\ snapshots \in Seq(Income!Snapshot)
      BY <2>4, SnapshotsGoOn DEF GoesOn
    <3> QED
      BY <1>4, <3>1, Appended
  <2> QED
    BY <2>3, <2>4
<1>5. CASE snapshots' # snapshots
  <2> DEFINE n == Len(snapshots)
  <2>1. /\ Income!Left(v)' = {n + 1} /\ n \in Nat
        /\ snapshots'[n + 1].old = rental.cart
        /\ e.event = Income!Extension /\ e.amount > 0 /\ ~e.deleted
    BY <1>5, SnapshotsGoOn DEF GoesOn
  <2>2. Income!ExcludedExtension(m)'
    <3>1. timeline \in Seq(Income!Entry) /\ today \in Nat /\ m.to \in Nat
      BY DEF IncomeInv, Income!TypeOK, Income!ConstantsAssumption
    <3>2. Len(timeline) + 1 \in DOMAIN timeline' /\ timeline'[Len(timeline) + 1] = e
      BY <3>1, Appended DEF GoesOn
    <3>3. ~Income!Within(e.date, m)
      BY <3>1 DEF GoesOn, Income!Within
    <3> QED
      BY <2>1, <3>2, <3>3 DEF Income!ExcludedExtension
  <2>3. Income!Min({n + 1}) = n + 1
    <3>1. {n + 1} \in SUBSET Nat /\ {n + 1} # {}
      BY <2>1
    <3> HIDE DEF n
    <3>2. Income!Min({n + 1}) \in {n + 1}
      BY <3>1, LeastIsIn
    <3> QED
      BY <3>2
  <2>4. Income!RentalDays(v, m)' = Income!ItemOf(rental.cart, v).end - Income!Use(v)'.start
    <3>1. Income!OriginalEnd(v, m, Income!Use(v).end)'
            = Income!ItemOf(snapshots'[Income!Min(Income!Left(v)')].old, v).end
      BY <2>1, <2>2 DEF Income!OriginalEnd
    <3>2. snapshots'[Income!Min(Income!Left(v)')].old = rental.cart
      BY <2>1, <2>3
    <3> QED
      BY <3>1, <3>2 DEF Income!RentalDays
  <2>5. CASE Income!Moves(v) = {}
    <3>1. /\ Income!Use(v).end = Income!BaseItem(v).end
          /\ Income!BaseItem(v) = Income!ItemOf(rental.cart, v)
      BY <2>5 DEF Income!Use, Income!BaseItem
    <3> QED
      BY <1>2, <1>3, <2>4, <3>1
  <2>6. CASE Income!Moves(v) # {}
    <3> DEFINE k == Income!Max(Income!Moves(v))
    <3>1. k \in Income!Moves(v) /\ k \in 1 .. n
      <4>1. Income!Moves(v) \in SUBSET (1 .. n)
        BY <2>1, SnapshotsGoOn DEF Income!Moves
      <4> QED
        BY <2>1, <2>6, <4>1, GreatestIsIn
    <3>2. /\ ~Income!Names(snapshots[k].old, v)
          /\ Income!Names(snapshots[k].new, v)
          /\ k \in DOMAIN snapshots
      <4> HIDE DEF k
      <4>1. /\ k \in DOMAIN snapshots
            /\ Income!Names(snapshots[k].old, v) # Income!Names(snapshots[k].new, v)
        BY <3>1 DEF Income!Moves
      <4>2. ~Income!Names(snapshots[k].old, v)
        BY <4>1 DEF Income!Left
      <4>3. Income!Names(snapshots[k].new, v) \in BOOLEAN
        BY DEF Income!Names
      <4> QED
        BY <4>1, <4>2, <4>3 DEF Income!Names
    <3>3. Income!Use(v).end = Income!ItemOf(snapshots[k].new, v).end
      BY <2>6, <3>2 DEF Income!Use, Income!UseOfAdded
    <3> HIDE DEF k
    <3>4. snapshots[k].new = rental.cart
      <4>1. CASE k = n
        BY <3>2, <4>1 DEF Income!Recorded
      <4>2. CASE k # n
        <5>1. snapshots[k].new = snapshots[k + 1].old /\ k + 1 \in DOMAIN snapshots
          <6>1. DOMAIN snapshots = 1 .. n
            BY SnapshotsGoOn
          <6> QED
            BY <2>1, <3>1, <3>2, <4>2, <6>1 DEF Income!Recorded
        <5> QED
          BY <3>2, <5>1 DEF Income!Left
      <4> QED
        BY <4>1, <4>2
    <3> QED
      BY <1>2, <1>3, <2>4, <3>3, <3>4
  <2> QED
    BY <2>5, <2>6
<1> QED
  BY <1>4, <1>5

\* So the statement of that month stays as it was.
LEMMA ClosedPeriodHolds ==
    ASSUME Income!ConstantsAssumption, IncomeInv, [Income!Next]_(Income!vars)
    PROVE  Income!ClosedPeriodStep
<1> SUFFICES ASSUME Len(timeline') > Len(timeline),
                    Income!VehiclesIn(rental'.cart) = Income!VehiclesIn(rental.cart),
                    NEW v \in Vehicles, NEW m \in StatementMonths, m.to <= today
             PROVE  /\ Income!Income(v, m)' = Income!Income(v, m)
                    /\ ~Income!Removed(v) /\ Income!Left(v) = {} /\ Income!Recorded =>
                         Income!RentalDays(v, m)' = Income!RentalDays(v, m)
  BY DEF Income!ClosedPeriodStep
<1>1. PICK e \in Income!Entry, s \in Income!Snapshot : GoesOn(e, s)
  BY EntriesGoOn
<1> QED
  BY <1>1, IncomeStays, DaysStay

\* What was settled stays: no step recalculates a commission set by hand, and no new entry of
\* the timeline changes the statement of a month that is over, for any sellers, carts,
\* prices, periods and numbers of entries.
THEOREM OfficeSettledStays == OfficeSpec => SettledStays
<1>1. Agents!Spec => []AgentsInv
  BY PartsAssumption, CommissionsInvariance
<1>2. AgentsInv /\ [Agents!Next]_(Agents!vars) => Agents!SetByHandStep
  BY SetByHandStepHolds
<1>3. Income!Spec => []IncomeInv
  BY PartsAssumption, IncomeInvariance
<1>4. IncomeInv /\ [Income!Next]_(Income!vars) => Income!ClosedPeriodStep
  BY PartsAssumption, ClosedPeriodHolds
<1>5. /\ part = "commissions" /\ OfficeInit => Agents!Init
      /\ part = "income" /\ OfficeInit => Income!Init
  BY DEF OfficeInit
<1>6. /\ part = "commissions" /\ [OfficeNext]_vars => [Agents!Next]_(Agents!vars)
      /\ part = "income" /\ [OfficeNext]_vars => [Income!Next]_(Income!vars)
  BY DEF OfficeNext, vars, Agents!vars, Income!vars
<1>7. /\ part = "commissions" /\ [OfficeNext]_vars => (part = "commissions")'
      /\ ~(part = "commissions") /\ [OfficeNext]_vars => (~(part = "commissions"))'
      /\ part = "income" /\ [OfficeNext]_vars => (part = "income")'
      /\ ~(part = "income") /\ [OfficeNext]_vars => (~(part = "income"))'
  BY PartStays
<1>8. part = "commissions" /\ OfficeSpec => [][Agents!SetByHandStep]_vars
  BY <1>1, <1>2, <1>5, <1>6, <1>7, PTL DEF OfficeSpec, Agents!Spec
<1>9. part = "income" /\ OfficeSpec => [][Income!ClosedPeriodStep]_vars
  BY <1>3, <1>4, <1>5, <1>6, <1>7, PTL DEF OfficeSpec, Income!Spec
<1> QED
  BY <1>7, <1>8, <1>9, PTL DEF OfficeSpec, SettledStays

-----------------------------------------------------------------------------
(***************************************************************************)
(* The dashboard.  Its widgets take the money of a period apart by what a  *)
(* booking, a payment or a vehicle says of it; that they agree rests on    *)
(* what sums over functions are: the sum over groups is the sum over all,  *)
(* rows and columns of a table come to the same, a part comes to no more   *)
(* than the whole.  SumOf takes one element after the other, too.          *)
(***************************************************************************)

sales == x2
active == x4

USE DEF sales, active

\* What SumOf computes is the sum.
LEMMA SumOfIs ==
    ASSUME NEW S, IsFiniteSet(S), NEW w \in [S -> Int], NEW g, IsSum(g, w, S)
    PROVE  Dash!SumOf(w) = g[S]
<1> DEFINE From(f) == [T \in SUBSET S |-> IF T = {} THEN 0
                         ELSE w[CHOOSE x \in T : TRUE] + f[T \ {CHOOSE x \in T : TRUE}]]
           sum == CHOOSE f : f = From(f)
<1>1. g = From(g)
  <2>1. ASSUME NEW T \in SUBSET S PROVE g[T] = From(g)[T]
    BY DEF IsSum, Sums, First
  <2>2. g \in [SUBSET S -> Int]
    BY DEF IsSum
  <2> QED
    BY <2>1, <2>2
<1>2. sum = From(sum)
  <2> HIDE DEF From
  <2> QED
    BY <1>1
<1>3. Dash!SumOf(w) = sum[S]
  BY DEF Dash!SumOf, Dash!MapThenSumSet, Dash!MapThenFoldSet
<1>4. Sums(sum, w, S)
  <2>1. ASSUME NEW T \in SUBSET S
        PROVE  sum[T] = IF T = {} THEN 0 ELSE w[First(T)] + sum[T \ {First(T)}]
    <3>1. sum[T] = From(sum)[T]
      BY <1>2
    <3> HIDE DEF sum
    <3> QED
      BY <3>1 DEF First
  <2> QED
    BY <2>1 DEF Sums
<1> HIDE DEF sum
<1> QED
  BY <1>3, <1>4, SumsAgree DEF IsSum

\* So it can be read off from whatever satisfies the recursion of the sums of subsets.
LEMMA SumOfPart ==
    ASSUME NEW S, IsFiniteSet(S), NEW w, \A x \in S : w[x] \in Int, NEW T \in SUBSET S,
           NEW h, Sums(h, w, S)
    PROVE  Dash!SumOf([x \in T |-> w[x]]) = h[T]
<1> DEFINE v == [x \in T |-> w[x]]
<1>1. IsFiniteSet(T) /\ v \in [T -> Int] /\ \A x \in T : v[x] = w[x]
  BY FS_Subset
<1> HIDE DEF v
<1>2. PICK f : IsSum(f, v, T)
  BY <1>1, SumsExist
<1>3. Dash!SumOf(v) = f[T]
  BY <1>1, <1>2, SumOfIs
<1>4. Sums(h, v, T)
  <2>1. \A U \in SUBSET T : U # {} => First(U) \in T
    BY FirstIsIn
  <2> QED
    BY <1>1, <2>1 DEF Sums
<1>5. Sums(f, v, T)
  BY <1>2 DEF IsSum
<1>6. f[T] = h[T]
  BY <1>1, <1>4, <1>5, SumsAgree
<1> QED
  BY <1>3, <1>6 DEF v

\* A sum is a number, of natural numbers a natural one, and of zeros zero.
LEMMA SumIsInt ==
    ASSUME NEW S, IsFiniteSet(S), NEW w \in [S -> Int]
    PROVE  /\ Dash!SumOf(w) \in Int
           /\ (\A x \in S : w[x] \in Nat) => Dash!SumOf(w) \in Nat
           /\ (\A x \in S : w[x] = 0) => Dash!SumOf(w) = 0
<1>1. \A x \in S : w[x] \in Int
  OBVIOUS
<1>2. PICK g : IsSum(g, w, S)
  BY <1>1, SumsExist
<1>3. Dash!SumOf(w) = g[S] /\ g[S] \in Int
  BY <1>2, SumOfIs DEF IsSum
<1>4. (\A x \in S : w[x] \in Nat) => g[S] \in Nat
  BY <1>1, <1>2, SumIsNatural
<1>5. (\A x \in S : w[x] = 0) => g[S] = 0
  BY <1>1, <1>2, SumOfZeros
<1> QED
  BY <1>3, <1>4, <1>5

\* The sum over a part of a set.
Part(w, A) == Dash!SumOf([x \in A |-> w[x]])

\* The sum over two disjoint parts is the sum of both.
LEMMA PartsAddUp ==
    ASSUME NEW S, IsFiniteSet(S), NEW w, \A x \in S : w[x] \in Int,
           NEW A \in SUBSET S, NEW B \in SUBSET S, A \cap B = {},
           NEW V \in SUBSET S, V = A \cup B
    PROVE  Part(w, V) = Part(w, A) + Part(w, B)
<1>1. PICK g : IsSum(g, w, S)
  BY SumsExist
<1>2. Sums(g, w, S)
  BY <1>1 DEF IsSum
<1>3. /\ Dash!SumOf([x \in A |-> w[x]]) = g[A]
      /\ Dash!SumOf([x \in B |-> w[x]]) = g[B]
      /\ Dash!SumOf([x \in V |-> w[x]]) = g[V]
  BY <1>2, SumOfPart
<1>4. g[V] = g[A] + g[B]
  BY <1>1, SumOfUnion
<1> QED
  BY <1>3, <1>4 DEF Part

\* A sum of sums can be taken separately,
LEMMA SumOfSums ==
    ASSUME NEW S, IsFiniteSet(S), NEW u, NEW w, \A x \in S : u[x] \in Int /\ w[x] \in Int
    PROVE  Dash!SumOf([x \in S |-> u[x] + w[x]])
             = Dash!SumOf([x \in S |-> u[x]]) + Dash!SumOf([x \in S |-> w[x]])
<1>1. PICK f : IsSum(f, u, S)
  BY SumsExist
<1>2. PICK g : IsSum(g, w, S)
  BY SumsExist
<1> DEFINE v == [x \in S |-> u[x] + w[x]]
           h == [T \in SUBSET S |-> f[T] + g[T]]
<1>3. Sums(h, v, S)
  <2>1. ASSUME NEW T \in SUBSET S
        PROVE  h[T] = IF T = {} THEN 0 ELSE v[First(T)] + h[T \ {First(T)}]
    <3>1. CASE T = {}
      <4>1. f[T] = 0 /\ g[T] = 0
        BY <1>1, <1>2, <3>1 DEF IsSum, Sums
      <4>2. h[T] = f[T] + g[T]
        OBVIOUS
      <4> HIDE DEF h, v
      <4> QED
        BY <3>1, <4>1, <4>2
    <3>2. CASE T # {}
      <4>1. First(T) \in S /\ T \ {First(T)} \in SUBSET S
        BY <3>2, FirstIsIn
      <4>2. f[T] = u[First(T)] + f[T \ {First(T)}] /\ f[T \ {First(T)}] \in Int
        BY <1>1, <3>2, <4>1 DEF IsSum, Sums
      <4>3. g[T] = w[First(T)] + g[T \ {First(T)}] /\ g[T \ {First(T)}] \in Int
        BY <1>2, <3>2, <4>1 DEF IsSum, Sums
      <4>4. u[First(T)] \in Int /\ w[First(T)] \in Int
        BY <4>1
      <4>5. /\ h[T] = f[T] + g[T] /\ v[First(T)] = u[First(T)] + w[First(T)]
            /\ h[T \ {First(T)}] = f[T \ {First(T)}] + g[T \ {First(T)}]
        BY <4>1
      <4> HIDE DEF h, v
      <4> QED
        BY <3>2, <4>2, <4>3, <4>4, <4>5
    <3> QED
      BY <3>1, <3>2
  <2> HIDE DEF h, v
  <2> QED
    BY <2>1 DEF Sums
<1>4. \A x \in S : v[x] \in Int
  OBVIOUS
<1>5. h[S] = f[S] + g[S] /\ v = [x \in S |-> v[x]]
  OBVIOUS
<1> HIDE DEF h
<1>6. Dash!SumOf(v) = h[S]
  <2> HIDE DEF v
  <2>1. S \in SUBSET S
    OBVIOUS
  <2>2. Dash!SumOf([x \in S |-> v[x]]) = h[S]
    BY <1>3, <1>4, <2>1, SumOfPart
  <2> QED
    BY <1>5, <2>2
<1>7. Dash!SumOf([x \in S |-> u[x]]) = f[S] /\ Dash!SumOf([x \in S |-> w[x]]) = g[S]
  <2>1. Sums(f, u, S) /\ Sums(g, w, S)
    BY <1>1, <1>2 DEF IsSum
  <2> QED
    BY <2>1, SumOfPart
<1> QED
  BY <1>5, <1>6, <1>7

\* and what is less in each place comes to less.
LEMMA SumIsLess ==
    ASSUME NEW S, IsFiniteSet(S), NEW u, NEW w,
           \A x \in S : u[x] \in Int /\ w[x] \in Int /\ u[x] <= w[x]
    PROVE  Dash!SumOf([x \in S |-> u[x]]) <= Dash!SumOf([x \in S |-> w[x]])
<1> DEFINE d == [x \in S |-> w[x] - u[x]]
<1>1. \A x \in S : d[x] \in Nat /\ d[x] \in Int /\ u[x] + d[x] = w[x]
  OBVIOUS
<1>2. d \in [S -> Int] /\ d = [x \in S |-> d[x]]
  BY <1>1
<1> HIDE DEF d
<1>3. Dash!SumOf([x \in S |-> u[x] + d[x]])
        = Dash!SumOf([x \in S |-> u[x]]) + Dash!SumOf([x \in S |-> d[x]])
  BY <1>1, SumOfSums
<1>4. [x \in S |-> u[x] + d[x]] = [x \in S |-> w[x]]
  BY <1>1
<1>5. Dash!SumOf([x \in S |-> d[x]]) \in Nat
  BY <1>1, <1>2, SumIsInt
<1>6. Dash!SumOf([x \in S |-> u[x]]) \in Int
  <2>1. [x \in S |-> u[x]] \in [S -> Int]
    OBVIOUS
  <2> QED
    BY <2>1, SumIsInt
<1> QED
  BY <1>3, <1>4, <1>5, <1>6

\* A sum over groups is the sum over all.
LEMMA SumOfGroups ==
    ASSUME NEW S, IsFiniteSet(S), NEW w, \A x \in S : w[x] \in Int,
           NEW C, IsFiniteSet(C), NEW f, \A x \in S : f[x] \in C,
           NEW u, \A c \in C : u[c] = Dash!SumOf([x \in {y \in S : f[y] = c} |-> w[x]])
    PROVE  Dash!SumOf([c \in C |-> u[c]]) = Dash!SumOf([x \in S |-> w[x]])
<1>1. PICK g : IsSum(g, w, S)
  BY SumsExist
<1> DEFINE Of(T) == {x \in S : f[x] \in T}
           h == [T \in SUBSET C |-> g[Of(T)]]
<1>2. \A c \in C : Of({c}) \in SUBSET S /\ u[c] = g[Of({c})] /\ u[c] \in Int
  <2>1. \A c \in C : {y \in S : f[y] = c} = Of({c}) /\ Of({c}) \in SUBSET S
    OBVIOUS
  <2>2. Sums(g, w, S) /\ \A T \in SUBSET S : g[T] \in Int
    BY <1>1 DEF IsSum
  <2> SUFFICES ASSUME NEW c \in C
               PROVE  Of({c}) \in SUBSET S /\ u[c] = g[Of({c})] /\ u[c] \in Int
    OBVIOUS
  <2> DEFINE T == Of({c})
  <2>3. T \in SUBSET S /\ u[c] = Dash!SumOf([x \in T |-> w[x]])
    BY <2>1
  <2> HIDE DEF T
  <2>4. Dash!SumOf([x \in T |-> w[x]]) = g[T]
    BY <2>2, <2>3, SumOfPart
  <2> QED
    BY <2>2, <2>3, <2>4 DEF T
<1>3. Sums(h, u, C)
  <2>1. ASSUME NEW T \in SUBSET C
        PROVE  h[T] = IF T = {} THEN 0 ELSE u[First(T)] + h[T \ {First(T)}]
    <3>1. CASE T = {}
      <4>1. Of(T) = {} /\ h[T] = g[Of(T)]
        BY <3>1
      <4>2. g[{}] = 0
        BY <1>1 DEF IsSum, Sums
      <4> HIDE DEF Of, h
      <4> QED
        BY <3>1, <4>1, <4>2
    <3>2. CASE T # {}
      <4> DEFINE c == First(T)
                 U == T \ {c}
      <4>1. c \in T /\ c \in C /\ U \in SUBSET C
        BY <3>2, FirstIsIn
      <4>2. /\ Of(T) = Of({c}) \cup Of(U) /\ Of({c}) \cap Of(U) = {}
            /\ Of({c}) \in SUBSET S /\ Of(U) \in SUBSET S
        BY <4>1
      <4>3. h[T] = g[Of(T)] /\ h[U] = g[Of(U)]
        BY <4>1
      <4>4. g[Of(T)] = g[Of({c})] + g[Of(U)]
        <5> DEFINE A == Of({c})
                   B == Of(U)
        <5>1. A \in SUBSET S /\ B \in SUBSET S /\ A \cap B = {} /\ Of(T) = A \cup B
          BY <4>2
        <5> HIDE DEF A, B
        <5>2. g[A \cup B] = g[A] + g[B]
          BY <1>1, <5>1, SumOfUnion
        <5> QED
          BY <5>1, <5>2 DEF A, B
      <4> HIDE DEF Of, h, c
      <4> QED
        BY <1>2, <3>2, <4>1, <4>3, <4>4 DEF c
    <3> QED
      BY <3>1, <3>2
  <2> HIDE DEF h
  <2> QED
    BY <2>1 DEF Sums
<1>4. h[C] = g[Of(C)] /\ Of(C) = S
  OBVIOUS
<1> HIDE DEF h, Of
<1>5. Dash!SumOf([c \in C |-> u[c]]) = h[C]
  <2>1. C \in SUBSET C /\ \A c \in C : u[c] \in Int
    BY <1>2
  <2> QED
    BY <1>3, <2>1, SumOfPart
<1>6. Dash!SumOf([x \in S |-> w[x]]) = g[S]
  <2>1. S \in SUBSET S /\ Sums(g, w, S)
    BY <1>1 DEF IsSum
  <2> QED
    BY <2>1, SumOfPart
<1> QED
  BY <1>4, <1>5, <1>6

\* How many elements a set has is the sum of as many ones.
LEMMA CardinalityIsSum ==
    ASSUME NEW S, IsFiniteSet(S)
    PROVE  Cardinality(S) = Dash!SumOf([x \in S |-> 1])
<1> DEFINE w == [x \in S |-> 1]
           h == [T \in SUBSET S |-> Cardinality(T)]
<1>1. Sums(h, w, S)
  <2>1. ASSUME NEW T \in SUBSET S
        PROVE  h[T] = IF T = {} THEN 0 ELSE w[First(T)] + h[T \ {First(T)}]
    <3>1. IsFiniteSet(T) /\ Cardinality(T) \in Nat
      BY FS_Subset, FS_CardinalityType
    <3>2. CASE T = {}
      BY <3>2, FS_EmptySet
    <3>3. CASE T # {}
      <4>1. First(T) \in T /\ First(T) \in S /\ T \ {First(T)} \in SUBSET S
        BY <3>3, FirstIsIn
      <4>2. Cardinality(T \ {First(T)}) = Cardinality(T) - 1
        BY <3>1, <4>1, FS_RemoveElement
      <4> QED
        BY <3>1, <3>3, <4>1, <4>2
    <3> QED
      BY <3>2, <3>3
  <2> HIDE DEF h, w
  <2> QED
    BY <2>1 DEF Sums
<1>2. /\ \A x \in S : w[x] \in Int
      /\ h[S] = Cardinality(S)
      /\ w = [x \in S |-> w[x]]
  OBVIOUS
<1> HIDE DEF h
<1>3. Dash!SumOf(w) = h[S]
  <2> HIDE DEF w
  <2> QED
    BY <1>1, <1>2, SumOfPart
<1> QED
  BY <1>2, <1>3

\* The sum of one is that one.
LEMMA SumOfOne ==
    ASSUME NEW k, NEW w, w[k] \in Int
    PROVE  Dash!SumOf([x \in {k} |-> w[x]]) = w[k]
<1>1. IsFiniteSet({k}) /\ \A x \in {k} : w[x] \in Int
  BY FS_Singleton
<1>2. PICK g : IsSum(g, w, {k})
  BY <1>1, SumsExist
<1>3. Dash!SumOf([x \in {k} |-> w[x]]) = g[{k}]
  <2>1. {k} \in SUBSET {k} /\ Sums(g, w, {k})
    BY <1>2 DEF IsSum
  <2> QED
    BY <1>1, <2>1, SumOfPart
<1>4. First({k}) = k
  BY FirstIsIn
<1>5. g[{k}] = w[k] + g[{}] /\ g[{}] = 0
  <2>1. \A T \in SUBSET {k} : g[T] = IF T = {} THEN 0 ELSE w[First(T)] + g[T \ {First(T)}]
    BY <1>2 DEF IsSum, Sums
  <2>2. g[{}] = 0
    BY <2>1
  <2>3. {k} \in SUBSET {k} /\ {k} # {} /\ {k} \ {k} = {}
    OBVIOUS
  <2>4. g[{k}] = w[First({k})] + g[{k} \ {First({k})}]
    BY <2>1, <2>3
  <2> QED
    BY <1>4, <2>2, <2>3, <2>4
<1> QED
  BY <1>3, <1>5

\* A part comes to no more than the whole, nor does one of it.
LEMMA SumOfSome ==
    ASSUME NEW S, IsFiniteSet(S), NEW w, \A x \in S : w[x] \in Nat, NEW A \in SUBSET S
    PROVE  /\ Dash!SumOf([x \in A |-> w[x]]) \in Nat
           /\ Dash!SumOf([x \in A |-> w[x]]) <= Dash!SumOf([x \in S |-> w[x]])
           /\ \A x \in A : w[x] <= Dash!SumOf([y \in A |-> w[y]])
           /\ (\A x \in S \ A : w[x] = 0) =>
                Dash!SumOf([x \in A |-> w[x]]) = Dash!SumOf([x \in S |-> w[x]])
<1>1. \A T \in SUBSET S : /\ IsFiniteSet(T) /\ [x \in T |-> w[x]] \in [T -> Int]
                          /\ \A x \in T : [y \in T |-> w[y]][x] = w[x]
  BY FS_Subset
<1>2. \A T \in SUBSET S : Dash!SumOf([x \in T |-> w[x]]) \in Nat
  BY <1>1, SumIsInt
<1>3. \A x \in S : w[x] \in Int
  OBVIOUS
<1>4. Dash!SumOf([x \in S |-> w[x]])
        = Dash!SumOf([x \in A |-> w[x]]) + Dash!SumOf([x \in S \ A |-> w[x]])
  <2> DEFINE B == S \ A
             V == S
  <2>1. V = A \cup B /\ A \cap B = {} /\ B \in SUBSET S /\ V \in SUBSET S
    OBVIOUS
  <2> HIDE DEF B, V
  <2>2. Part(w, V) = Part(w, A) + Part(w, B)
    BY <1>3, <2>1, PartsAddUp
  <2> QED
    BY <2>2 DEF B, V, Part
<1>5. ASSUME NEW x \in A
      PROVE  w[x] <= Dash!SumOf([y \in A |-> w[y]])
  <2> DEFINE One == {x}
             B == A \ {x}
  <2>1. One \cup B = A /\ One \cap B = {} /\ One \in SUBSET S /\ B \in SUBSET S
    OBVIOUS
  <2>2. Dash!SumOf([y \in One |-> w[y]]) = w[x]
    BY <1>3, SumOfOne
  <2> HIDE DEF One, B
  <2>3. Part(w, A) = Part(w, One) + Part(w, B)
    BY <1>3, <2>1, PartsAddUp
  <2>4. Dash!SumOf([y \in B |-> w[y]]) \in Nat
    BY <1>2, <2>1
  <2> QED
    BY <2>2, <2>3, <2>4 DEF Part
<1>6. ASSUME \A x \in S \ A : w[x] = 0
      PROVE  Dash!SumOf([x \in S \ A |-> w[x]]) = 0
  <2>1. S \ A \in SUBSET S
    OBVIOUS
  <2> QED
    BY <1>1, <1>6, <2>1, SumIsInt
<1>7. S \ A \in SUBSET S /\ S \in SUBSET S
  OBVIOUS
<1>8. /\ Dash!SumOf([x \in A |-> w[x]]) \in Nat /\ Dash!SumOf([x \in S \ A |-> w[x]]) \in Nat
      /\ Dash!SumOf([x \in S |-> w[x]]) \in Nat
  BY <1>2, <1>7
<1> QED
  BY <1>4, <1>5, <1>6, <1>8

\* Rows and columns of a table come to the same.
RowSum(v, S, c) == Dash!SumOf([x \in S |-> v[c][x]])

ColumnSum(v, C, x) == Dash!SumOf([c \in C |-> v[c][x]])

LEMMA TableExchange ==
    ASSUME NEW S, IsFiniteSet(S), NEW C, IsFiniteSet(C),
           NEW v, \A c \in C, x \in S : v[c][x] \in Int
    PROVE  Dash!SumOf([c \in C |-> RowSum(v, S, c)]) = Dash!SumOf([x \in S |-> ColumnSum(v, C, x)])
<1> DEFINE row(c) == Dash!SumOf([x \in S |-> v[c][x]])
           rows == [c \in C |-> row(c)]
           column(T, x) == Dash!SumOf([c \in T |-> v[c][x]])
           h == [T \in SUBSET C |-> Dash!SumOf([x \in S |-> column(T, x)])]
<1>1. \A c \in C : row(c) \in Int
  <2> TAKE c \in C
  <2>1. [x \in S |-> v[c][x]] \in [S -> Int]
    OBVIOUS
  <2> QED
    BY <2>1, SumIsInt
<1>2. ASSUME NEW T \in SUBSET C, NEW x \in S
      PROVE  /\ column(T, x) \in Int
             /\ T = {} => column(T, x) = 0
             /\ T # {} => column(T, x) = v[First(T)][x] + column(T \ {First(T)}, x)
  <2> DEFINE w == [c \in C |-> v[c][x]]
  <2>1. \A c \in C : w[c] = v[c][x] /\ w[c] \in Int
    OBVIOUS
  <2>2. \A U \in SUBSET C : [c \in U |-> v[c][x]] = [c \in U |-> w[c]]
    BY <2>1
  <2> HIDE DEF w
  <2>3. PICK g : IsSum(g, w, C)
    BY <2>1, SumsExist
  <2>4. \A U \in SUBSET C : column(U, x) = g[U] /\ g[U] \in Int
    <3>1. Sums(g, w, C) /\ \A U \in SUBSET C : g[U] \in Int
      BY <2>3 DEF IsSum
    <3> TAKE U \in SUBSET C
    <3>2. Dash!SumOf([c \in U |-> w[c]]) = g[U]
      BY <2>1, <3>1, SumOfPart
    <3> QED
      BY <2>2, <3>1, <3>2
  <2>5. T # {} => First(T) \in C /\ T \ {First(T)} \in SUBSET C
    BY FirstIsIn
  <2> HIDE DEF column
  <2> QED
    BY <2>1, <2>3, <2>4, <2>5 DEF IsSum, Sums
<1>3. Sums(h, rows, C)
  <2>1. ASSUME NEW T \in SUBSET C
        PROVE  h[T] = IF T = {} THEN 0 ELSE rows[First(T)] + h[T \ {First(T)}]
    <3>0. \A U \in SUBSET C : h[U] = Dash!SumOf([x \in S |-> column(U, x)])
      OBVIOUS
    <3> HIDE DEF column, h
    <3>1. CASE T = {}
      <4> DEFINE z == [x \in S |-> column(T, x)]
      <4>1. z \in [S -> Int] /\ \A x \in S : z[x] = 0
        BY <1>2, <3>1
      <4>2. h[T] = Dash!SumOf(z)
        BY <3>0
      <4> HIDE DEF z
      <4>3. Dash!SumOf(z) = 0
        BY <4>1, SumIsInt
      <4> QED
        BY <3>1, <4>2, <4>3
    <3>2. CASE T # {}
      <4> DEFINE c == First(T)
                 U == T \ {c}
                 one == [x \in S |-> v[c][x]]
                 rest == [x \in S |-> column(U, x)]
      <4>1. c \in C /\ U \in SUBSET C
        BY <3>2, FirstIsIn
      <4>2. \A x \in S : one[x] \in Int /\ rest[x] \in Int /\ column(T, x) = one[x] + rest[x]
        BY <1>2, <3>2, <4>1
      <4>3. [x \in S |-> column(T, x)] = [x \in S |-> one[x] + rest[x]]
        BY <4>2
      <4>4. one = [x \in S |-> one[x]] /\ rest = [x \in S |-> rest[x]]
        OBVIOUS
      <4>5. rows[c] = Dash!SumOf(one) /\ h[U] = Dash!SumOf(rest)
        BY <3>0, <4>1
      <4> HIDE DEF one, rest, c, rows
      <4>6. Dash!SumOf([x \in S |-> one[x] + rest[x]]) = Dash!SumOf(one) + Dash!SumOf(rest)
        BY <4>2, <4>4, SumOfSums
      <4>7. h[T] = rows[c] + h[U]
        BY <3>0, <4>3, <4>5, <4>6
      <4> QED
        BY <3>2, <4>7 DEF c
    <3> QED
      BY <3>1, <3>2
  <2> HIDE DEF h, rows
  <2> QED
    BY <2>1 DEF Sums
<1>4. /\ h[C] = Dash!SumOf([x \in S |-> column(C, x)])
      /\ rows = [c \in C |-> rows[c]]
      /\ \A c \in C : rows[c] \in Int
  BY <1>1
<1>5. Dash!SumOf(rows) = h[C]
  <2> HIDE DEF row, rows, h
  <2>1. C \in SUBSET C /\ \A c \in C : rows[c] \in Int
    BY <1>4
  <2>2. Dash!SumOf([c \in C |-> rows[c]]) = h[C]
    BY <1>3, <2>1, SumOfPart
  <2> QED
    BY <1>4, <2>2
<1> QED
  BY <1>4, <1>5 DEF RowSum, ColumnSum

\* The same of any functions that hold the sums.
LEMMA SumsExchange ==
    ASSUME NEW S, IsFiniteSet(S), NEW C, IsFiniteSet(C),
           NEW v, \A c \in C, x \in S : v[c][x] \in Int,
           NEW a, \A c \in C : a[c] = RowSum(v, S, c),
           NEW b, \A x \in S : b[x] = ColumnSum(v, C, x)
    PROVE  Dash!SumOf([c \in C |-> a[c]]) = Dash!SumOf([x \in S |-> b[x]])
<1> DEFINE rows == [c \in C |-> a[c]]
           columns == [x \in S |-> b[x]]
<1>1. rows = [c \in C |-> RowSum(v, S, c)]
  OBVIOUS
<1>2. columns = [x \in S |-> ColumnSum(v, C, x)]
  OBVIOUS
<1> HIDE DEF rows, columns
<1>3. Dash!SumOf(rows) = Dash!SumOf(columns)
  BY <1>1, <1>2, TableExchange
<1> QED
  BY <1>3 DEF rows, columns

\* The dashboard's finite sets and its counts are those of the theorems about sets.
LEMMA SameCounts ==
    \A S : Dash!IsFiniteSet(S) = IsFiniteSet(S) /\ Dash!Cardinality(S) = Cardinality(S)
<1> SUFFICES ASSUME NEW S
             PROVE  Dash!IsFiniteSet(S) = IsFiniteSet(S) /\ Dash!Cardinality(S) = Cardinality(S)
  OBVIOUS
<1>1. Dash!IsFiniteSet(S) = IsFiniteSet(S)
  BY DEF Dash!IsFiniteSet, IsFiniteSet
<1>2. Dash!Cardinality(S) = Cardinality(S)
  BY DEF Dash!Cardinality, Cardinality
<1> QED
  BY <1>1, <1>2

\* The vehicles and the categories are finite, and no category stands for none.
LEMMA FleetIsFinite ==
    ASSUME Dash!Assumptions
    PROVE  IsFiniteSet(Vehicles) /\ IsFiniteSet(Categories) /\ Dash!None \notin Categories
BY SameCounts DEF Dash!Assumptions

\* At first there are no bookings.
LEMMA DashStart ==
    ASSUME Dash!Assumptions, Dash!Init
    PROVE  Dash!TypeOK
<1>1. category \in [Vehicles -> Categories]
  BY DEF Dash!Assumptions, Dash!Init
<1> QED
  BY <1>1 DEF Dash!Init, Dash!TypeOK

\* What a booking is.
LEMMA SaleIs ==
    ASSUME Dash!TypeOK, NEW b \in DOMAIN sales
    PROVE  /\ sales[b] \in Dash!Booking
           /\ sales[b].made \in Nat /\ sales[b].total \in Nat /\ sales[b].totalPaid \in Nat
           /\ sales[b].method \in Dash!Methods
           /\ sales[b].payments \in Seq(Dash!Payment)
           /\ sales[b].vehicle \in Vehicles /\ sales[b].price \in Nat
           /\ sales[b].tour \in Categories \cup {Dash!None} /\ sales[b].tourPrice \in Nat
<1>1. sales[b] \in Dash!Booking
  BY DEF Dash!TypeOK
<1> QED
  BY <1>1 DEF Dash!Booking

\* A booking that is replaced by one with money, or by one that is not approved.
LEMMA SaleRevised ==
    ASSUME Dash!TypeOK, NEW b \in DOMAIN sales, NEW sale \in Dash!Booking,
           sales' = [sales EXCEPT ![b] = sale],
           UNCHANGED <<today, category, active>>
    PROVE  Dash!TypeOK'
<1>1. sales' \in Seq(Dash!Booking)
  BY DEF Dash!TypeOK
<1> QED
  BY <1>1 DEF Dash!TypeOK

\* A new booking,
LEMMA BookKeeps ==
    ASSUME Dash!Assumptions, Dash!TypeOK, NEW kind \in SaleKinds, Dash!Book(kind)
    PROVE  Dash!TypeOK'
<1> DEFINE sale == [kind EXCEPT !.made = today]
<1>1. kind \in Dash!Booking /\ today \in Nat
  BY DEF Dash!Assumptions, Dash!TypeOK
<1>2. sale \in Dash!Booking
  BY <1>1 DEF Dash!Booking
<1>3. sales' = Append(sales, sale) /\ sales \in Seq(Dash!Booking)
  BY DEF Dash!Book, Dash!TypeOK
<1> HIDE DEF sale
<1>4. sales' \in Seq(Dash!Booking)
  BY <1>2, <1>3
<1> QED
  BY <1>4 DEF Dash!Book, Dash!TypeOK

\* an approval with a list of payments,
LEMMA ApproveListKeeps ==
    ASSUME Dash!Assumptions, Dash!TypeOK, NEW b \in DOMAIN sales, NEW list \in StaffLists,
           NEW amount \in StaffAmounts, Dash!ApproveList(b, list, amount)
    PROVE  Dash!TypeOK'
<1> DEFINE sale == [sales[b] EXCEPT !.status = "APROBADO", !.totalPaid = amount,
                                       !.payments = list]
<1>1. amount \in Nat /\ list \in Seq(Dash!Payment) /\ sales[b] \in Dash!Booking
  BY SaleIs DEF Dash!Assumptions
<1>2. sale \in Dash!Booking
  BY <1>1 DEF Dash!Booking
<1>3. sales' = [sales EXCEPT ![b] = sale]
  BY <1>1 DEF Dash!ApproveList
<1> HIDE DEF sale
<1> QED
  BY <1>2, <1>3, SaleRevised DEF Dash!ApproveList

\* one with an amount,
LEMMA ApproveAmountKeeps ==
    ASSUME Dash!Assumptions, Dash!TypeOK, NEW b \in DOMAIN sales,
           NEW amount \in StaffAmounts, Dash!ApproveAmount(b, amount)
    PROVE  Dash!TypeOK'
<1> DEFINE old == sales[b]
           paid == [type |-> old.method, amount |-> amount, paid |-> TRUE, noted |-> TRUE]
<1>1. amount \in Nat /\ old \in Dash!Booking
  BY SaleIs DEF Dash!Assumptions
<1>2. old.payments \in Seq(Dash!Payment) /\ Append(old.payments, paid) \in Seq(Dash!Payment)
  <2>1. paid \in Dash!Payment
    BY <1>1 DEF Dash!Booking, Dash!Payment
  <2> HIDE DEF paid
  <2> QED
    BY <1>1, <2>1 DEF Dash!Booking
<1>3. \E list \in Seq(Dash!Payment) :
         sales' = [sales EXCEPT ![b] = [old EXCEPT !.status = "APROBADO",
                                                         !.totalPaid = amount, !.payments = list]]
  <2> DEFINE omitted == \/ amount = 0
                        \/ \E i \in DOMAIN old.payments :
                             old.payments[i].paid /\ old.payments[i].amount = amount
  <2>1. sales' = [sales EXCEPT ![b].status = "APROBADO", ![b].totalPaid = amount,
                           ![b].payments = IF omitted THEN @ ELSE Append(@, paid)]
    BY DEF Dash!ApproveAmount
  <2> HIDE DEF omitted, paid
  <2>2. CASE omitted
    BY <1>2, <2>1, <2>2
  <2>3. CASE ~omitted
    BY <1>2, <2>1, <2>3
  <2> QED
    BY <2>2, <2>3
<1>4. PICK list \in Seq(Dash!Payment) :
         sales' = [sales EXCEPT ![b] = [old EXCEPT !.status = "APROBADO",
                                                         !.totalPaid = amount, !.payments = list]]
  BY <1>3
<1> DEFINE sale == [old EXCEPT !.status = "APROBADO", !.totalPaid = amount, !.payments = list]
<1>5. sale \in Dash!Booking
  BY <1>1 DEF Dash!Booking
<1>6. sales' = [sales EXCEPT ![b] = sale]
  BY <1>4
<1> HIDE DEF sale
<1> QED
  BY <1>5, <1>6, SaleRevised DEF Dash!ApproveAmount

\* and a cancellation, which takes the money away.
LEMMA CancelKeeps ==
    ASSUME Dash!TypeOK, NEW b \in DOMAIN sales, Dash!Cancel(b)
    PROVE  Dash!TypeOK'
<1> DEFINE sale == [sales[b] EXCEPT !.status = "CANCELADO", !.totalPaid = 0]
<1>1. sales[b] \in Dash!Booking
  BY SaleIs
<1>2. sale \in Dash!Booking
  BY <1>1 DEF Dash!Booking
<1>3. sales' = [sales EXCEPT ![b] = sale]
  BY <1>1 DEF Dash!Cancel
<1> HIDE DEF sale
<1> QED
  BY <1>2, <1>3, SaleRevised DEF Dash!Cancel

\* Every step.
LEMMA DashStep ==
    ASSUME Dash!Assumptions, Dash!TypeOK, [Dash!Next]_(Dash!vars)
    PROVE  Dash!TypeOK'
<1>1. CASE Dash!Tick
  BY <1>1 DEF Dash!Tick, Dash!TypeOK
<1>2. ASSUME NEW v \in Vehicles, NEW c \in Categories, Dash!Recategorise(v, c)
      PROVE  Dash!TypeOK'
  BY <1>2 DEF Dash!Recategorise, Dash!TypeOK
<1>3. ASSUME NEW v \in active, Dash!Retire(v)
      PROVE  Dash!TypeOK'
  BY <1>3 DEF Dash!Retire, Dash!TypeOK
<1>4. CASE UNCHANGED Dash!vars
  BY <1>4 DEF Dash!vars, Dash!TypeOK
<1>5. ASSUME NEW b \in DOMAIN sales, NEW amount \in StaffAmounts,
             \/ Dash!ApproveAmount(b, amount)
             \/ \E list \in StaffLists : Dash!ApproveList(b, list, amount)
      PROVE  Dash!TypeOK'
  BY <1>5, ApproveAmountKeeps, ApproveListKeeps
<1> QED
  BY <1>1, <1>2, <1>3, <1>4, <1>5, BookKeeps, CancelKeeps DEF Dash!Next

\* Hence the invariant is always true.
LEMMA DashInvariance ==
    ASSUME Dash!Assumptions
    PROVE  Dash!Spec => []Dash!TypeOK
<1>1. Dash!Init => Dash!TypeOK
  BY DashStart
<1>2. Dash!TypeOK /\ [Dash!Next]_(Dash!vars) => Dash!TypeOK'
  BY DashStep
<1> QED
  BY <1>1, <1>2, PTL DEF Dash!Spec

\* A finite set has a finite image.
LEMMA ImageIsFinite ==
    ASSUME NEW S, IsFiniteSet(S), NEW g
    PROVE  IsFiniteSet({g[x] : x \in S})
<1> DEFINE T == {g[x] : x \in S}
           f == [x \in S |-> g[x]]
<1>1. f \in Surjection(S, T)
  BY DEF Surjection
<1> HIDE DEF f, T
<1>2. IsFiniteSet(T)
  BY <1>1, FS_Surjection
<1> QED
  BY <1>2 DEF T

\* The bookings of a period are among those there are.
LEMMA SalesAreFinite ==
    ASSUME Dash!TypeOK
    PROVE  /\ IsFiniteSet(DOMAIN sales)
           /\ \A statuses, period : /\ Dash!MadeIn(statuses, period) \in SUBSET DOMAIN sales
                                    /\ IsFiniteSet(Dash!MadeIn(statuses, period))
<1>1. DOMAIN sales = 1 .. Len(sales) /\ Len(sales) \in Nat
  BY DEF Dash!TypeOK
<1>2. IsFiniteSet(DOMAIN sales)
  BY <1>1, FS_Interval
<1>3. \A statuses, period : Dash!MadeIn(statuses, period) \in SUBSET DOMAIN sales
  BY DEF Dash!MadeIn
<1> QED
  BY <1>2, <1>3, FS_Subset

\* There are three methods of payment.
LEMMA MethodsAreFinite == IsFiniteSet(Dash!Methods)
<1>1. IsFiniteSet({"CASH"})
  BY FS_Singleton
<1>2. IsFiniteSet({"CASH"} \cup {"TRANSFER"})
  BY <1>1, FS_AddElement
<1>3. IsFiniteSet(({"CASH"} \cup {"TRANSFER"}) \cup {"STRIPE"})
  BY <1>2, FS_AddElement
<1>4. ({"CASH"} \cup {"TRANSFER"}) \cup {"STRIPE"} = Dash!Methods
  BY DEF Dash!Methods
<1> QED
  BY <1>3, <1>4

\* What the payments of a booking are.
LEMMA PaymentsAre ==
    ASSUME Dash!TypeOK, NEW b \in DOMAIN sales
    PROVE  /\ IsFiniteSet(DOMAIN sales[b].payments)
           /\ Dash!PaidPayments(b) \in SUBSET DOMAIN sales[b].payments
           /\ IsFiniteSet(Dash!PaidPayments(b))
           /\ \A i \in DOMAIN sales[b].payments :
                /\ sales[b].payments[i].amount \in Nat
                /\ sales[b].payments[i].type \in Dash!Methods
<1>1. sales[b].payments \in Seq(Dash!Payment)
  BY SaleIs
<1>2. DOMAIN sales[b].payments = 1 .. Len(sales[b].payments) /\ Len(sales[b].payments) \in Nat
  BY <1>1
<1>3. IsFiniteSet(DOMAIN sales[b].payments)
  BY <1>2, FS_Interval
<1>4. Dash!PaidPayments(b) \in SUBSET DOMAIN sales[b].payments
  BY DEF Dash!PaidPayments
<1>5. \A i \in DOMAIN sales[b].payments : sales[b].payments[i] \in Dash!Payment
  BY <1>1
<1> QED
  BY <1>3, <1>4, <1>5, FS_Subset DEF Dash!Payment

\* What has been paid of a booking, as the widgets see it.
Received(b) == IF sales[b].payments = <<>> THEN sales[b].totalPaid
               ELSE Dash!AmountOf(b, Dash!PaidPayments(b))

ReceivedBy(m, b) == IF sales[b].payments = <<>>
                    THEN IF sales[b].method = m THEN sales[b].totalPaid ELSE 0
                    ELSE Dash!AmountOf(b, {i \in Dash!PaidPayments(b) : sales[b].payments[i].type = m})

\* Some payments of a booking come to a natural number,
LEMMA AmountIsNatural ==
    ASSUME Dash!TypeOK, NEW b \in DOMAIN sales, NEW some \in SUBSET Dash!PaidPayments(b)
    PROVE  Dash!AmountOf(b, some) \in Nat
<1> DEFINE w == [i \in some |-> sales[b].payments[i].amount]
<1>1. IsFiniteSet(some)
  BY PaymentsAre, FS_Subset
<1>2. w \in [some -> Int] /\ \A i \in some : w[i] \in Nat
  BY PaymentsAre
<1>3. Dash!AmountOf(b, some) = Dash!SumOf(w)
  BY DEF Dash!AmountOf
<1> HIDE DEF w
<1> QED
  BY <1>1, <1>2, <1>3, SumIsInt

\* and so does what has been received, by a method or at all.
LEMMA ReceivedIsNatural ==
    ASSUME Dash!TypeOK, NEW b \in DOMAIN sales
    PROVE  /\ Received(b) \in Nat
           /\ \A m \in Dash!Methods : ReceivedBy(m, b) \in Nat
<1>1. sales[b].totalPaid \in Nat
  BY SaleIs
<1>2. Dash!AmountOf(b, Dash!PaidPayments(b)) \in Nat
  BY AmountIsNatural
<1>3. ASSUME NEW m \in Dash!Methods
      PROVE  Dash!AmountOf(b, {i \in Dash!PaidPayments(b) : sales[b].payments[i].type = m}) \in Nat
  BY AmountIsNatural
<1> QED
  BY <1>1, <1>2, <1>3 DEF Received, ReceivedBy

\* By methods it comes to the whole.
LEMMA MethodsMakeUpSale ==
    ASSUME Dash!TypeOK, NEW b \in DOMAIN sales
    PROVE  Dash!SumOf([m \in Dash!Methods |-> ReceivedBy(m, b)]) = Received(b)
<1>1. CASE sales[b].payments = <<>>
  <2> DEFINE w == [m \in Dash!Methods |-> ReceivedBy(m, b)]
             k == sales[b].method
             One == {k}
  <2>1. k \in Dash!Methods /\ sales[b].totalPaid \in Nat
    BY SaleIs
  <2>2. /\ \A m \in Dash!Methods : w[m] \in Nat
        /\ \A m \in Dash!Methods \ One : w[m] = 0
        /\ w[k] = Received(b) /\ w[k] \in Int
    BY <1>1, <2>1 DEF ReceivedBy, Received
  <2>3. One \in SUBSET Dash!Methods /\ w = [m \in Dash!Methods |-> w[m]]
    BY <2>1
  <2> HIDE DEF w, k
  <2>4. Dash!SumOf([m \in One |-> w[m]]) = w[k]
    BY <2>2, SumOfOne
  <2> HIDE DEF One
  <2>5. Dash!SumOf([m \in One |-> w[m]]) = Dash!SumOf([m \in Dash!Methods |-> w[m]])
    BY <2>2, <2>3, MethodsAreFinite, SumOfSome
  <2>6. Dash!SumOf(w) = Received(b)
    BY <2>2, <2>3, <2>4, <2>5
  <2> QED
    BY <2>6 DEF w
<1>2. CASE sales[b].payments # <<>>
  <2> DEFINE S == Dash!PaidPayments(b)
             w == [i \in S |-> sales[b].payments[i].amount]
             f == [i \in S |-> sales[b].payments[i].type]
             u == [m \in Dash!Methods |-> ReceivedBy(m, b)]
  <2>1. IsFiniteSet(S) /\ \A i \in S : w[i] \in Int /\ f[i] \in Dash!Methods
    BY PaymentsAre
  <2>2. ASSUME NEW m \in Dash!Methods
        PROVE  u[m] = Dash!SumOf([i \in {j \in S : f[j] = m} |-> w[i]])
    <3>1. {j \in S : f[j] = m} = {i \in S : sales[b].payments[i].type = m}
      OBVIOUS
    <3>2. [i \in {j \in S : f[j] = m} |-> w[i]]
            = [i \in {j \in S : sales[b].payments[j].type = m} |-> sales[b].payments[i].amount]
      BY <3>1
    <3>3. u[m] = Dash!AmountOf(b, {i \in S : sales[b].payments[i].type = m})
      BY <1>2 DEF ReceivedBy
    <3> QED
      BY <3>2, <3>3 DEF Dash!AmountOf
  <2>3. Received(b) = Dash!SumOf(w) /\ w = [i \in S |-> w[i]] /\ u = [m \in Dash!Methods |-> u[m]]
    BY <1>2 DEF Received, Dash!AmountOf
  <2> HIDE DEF S, w, f, u
  <2>4. Dash!SumOf([m \in Dash!Methods |-> u[m]]) = Dash!SumOf([i \in S |-> w[i]])
    BY <2>1, <2>2, MethodsAreFinite, SumOfGroups
  <2>5. Dash!SumOf(u) = Received(b)
    BY <2>3, <2>4
  <2> QED
    BY <2>5 DEF u
<1> QED
  BY <1>1, <1>2

\* Hence three widgets come to what has been received in a period.
LEMMA MediaMakeUpPeriod ==
    ASSUME Dash!TypeOK, NEW period
    PROVE  Dash!SumOf([m \in {sales[b].medium : b \in DOMAIN sales} |-> Dash!MediumRevenue(m, period)])
             = Dash!SumOf([b \in Dash!PaidIn(period) |-> Received(b)])
<1> DEFINE S == Dash!PaidIn(period)
           C == {sales[b].medium : b \in DOMAIN sales}
           w == [b \in S |-> Received(b)]
           f == [b \in S |-> sales[b].medium]
           u == [m \in C |-> Dash!MediumRevenue(m, period)]
<1>1. S \in SUBSET DOMAIN sales /\ IsFiniteSet(S)
  BY SalesAreFinite, FS_Subset DEF Dash!PaidIn
<1>2. \A b \in S : w[b] \in Int /\ f[b] \in C
  BY <1>1, ReceivedIsNatural
<1>3. IsFiniteSet(C)
  <2> DEFINE g == [b \in DOMAIN sales |-> sales[b].medium]
  <2>1. C = {g[b] : b \in DOMAIN sales}
    OBVIOUS
  <2> HIDE DEF C, g
  <2> QED
    BY <2>1, SalesAreFinite, ImageIsFinite
<1>4. ASSUME NEW m \in C
      PROVE  u[m] = Dash!SumOf([x \in {y \in S : f[y] = m} |-> w[x]])
  <2>1. {y \in S : f[y] = m} = {b \in S : sales[b].medium = m}
    OBVIOUS
  <2>2. [x \in {y \in S : f[y] = m} |-> w[x]]
          = [b \in {b \in S : sales[b].medium = m} |-> Received(b)]
    BY <2>1
  <2>3. u[m] = Dash!SumOf([b \in {b \in S : sales[b].medium = m} |-> Received(b)])
    BY DEF Dash!MediumRevenue, Received
  <2> QED
    BY <2>2, <2>3
<1>5. w = [b \in S |-> w[b]] /\ u = [m \in C |-> u[m]]
  OBVIOUS
<1> HIDE DEF S, C, w, f, u
<1>6. Dash!SumOf([m \in C |-> u[m]]) = Dash!SumOf([b \in S |-> w[b]])
  <2>1. IsFiniteSet(S) /\ \A b \in S : w[b] \in Int
    BY <1>1, <1>2
  <2>2. \A b \in S : f[b] \in C
    BY <1>2
  <2>3. \A m \in C : u[m] = Dash!SumOf([x \in {y \in S : f[y] = m} |-> w[x]])
    BY <1>4
  <2> QED
    BY <2>1, <2>2, <2>3, <1>3, SumOfGroups
<1>7. Dash!SumOf(u) = Dash!SumOf(w)
  BY <1>5, <1>6
<1> QED
  BY <1>7 DEF u, w, S, C

\* By methods: rows and columns of the table of methods and bookings.
LEMMA MethodsMakeUpPeriod ==
    ASSUME Dash!TypeOK, NEW period
    PROVE  Dash!SumOf([m \in Dash!Methods |-> Dash!MethodRevenue(m, period)])
             = Dash!SumOf([b \in Dash!PaidIn(period) |-> Received(b)])
<1> DEFINE S == Dash!PaidIn(period)
           v == [m \in Dash!Methods |-> [b \in S |-> ReceivedBy(m, b)]]
<1>1. S \in SUBSET DOMAIN sales /\ IsFiniteSet(S)
  BY SalesAreFinite, FS_Subset DEF Dash!PaidIn
<1>2. \A m \in Dash!Methods, b \in S : v[m][b] \in Int /\ v[m][b] = ReceivedBy(m, b)
  BY <1>1, ReceivedIsNatural
<1> DEFINE u == [m \in Dash!Methods |-> Dash!MethodRevenue(m, period)]
           w == [b \in S |-> Received(b)]
<1>3. ASSUME NEW m \in Dash!Methods
      PROVE  u[m] = RowSum(v, S, m)
  <2>1. [b \in S |-> v[m][b]] = [b \in S |-> ReceivedBy(m, b)]
    BY <1>2
  <2> HIDE DEF v
  <2> QED
    BY <2>1 DEF Dash!MethodRevenue, ReceivedBy, RowSum
<1>4. ASSUME NEW b \in S
      PROVE  w[b] = ColumnSum(v, Dash!Methods, b)
  <2>1. [m \in Dash!Methods |-> v[m][b]] = [m \in Dash!Methods |-> ReceivedBy(m, b)]
    BY <1>2
  <2> HIDE DEF v
  <2> QED
    BY <1>1, <2>1, MethodsMakeUpSale DEF ColumnSum
<1>5. u = [m \in Dash!Methods |-> u[m]] /\ w = [b \in S |-> w[b]]
  OBVIOUS
<1>6. IsFiniteSet(S) /\ \A m \in Dash!Methods, b \in S : v[m][b] \in Int
  BY <1>1, <1>2
<1> HIDE DEF v, S, u, w
<1>7. Dash!SumOf([m \in Dash!Methods |-> u[m]]) = Dash!SumOf([b \in S |-> w[b]])
  BY <1>3, <1>4, <1>6, MethodsAreFinite, SumsExchange
<1>8. Dash!SumOf(u) = Dash!SumOf(w)
  BY <1>5, <1>7
<1> QED
  BY <1>8 DEF S, u, w

\* By transactions, if none is noted as validated.
LEMMA TransactionsMakeUpPeriod ==
    ASSUME Dash!TypeOK, NEW period,
           \A b \in DOMAIN sales : \A i \in DOMAIN sales[b].payments :
              ~sales[b].payments[i].noted
    PROVE  Dash!TransactionIncome(period) = Dash!SumOf([b \in Dash!PaidIn(period) |-> Received(b)])
<1> DEFINE Shown(b) ==
             IF sales[b].payments = <<>> THEN sales[b].totalPaid
             ELSE Dash!AmountOf(b, {i \in Dash!PaidPayments(b) : ~sales[b].payments[i].noted})
<1>1. \A b \in Dash!PaidIn(period) : b \in DOMAIN sales
  BY DEF Dash!PaidIn, Dash!MadeIn
<1>2. \A b \in Dash!PaidIn(period) :
         {i \in Dash!PaidPayments(b) : ~sales[b].payments[i].noted} = Dash!PaidPayments(b)
  BY <1>1 DEF Dash!PaidPayments
<1>3. \A b \in Dash!PaidIn(period) : Shown(b) = Received(b)
  BY <1>2 DEF Received
<1>4. Dash!TransactionIncome(period) = Dash!SumOf([b \in Dash!PaidIn(period) |-> Shown(b)])
  BY DEF Dash!TransactionIncome
<1> HIDE DEF Shown
<1>5. [b \in Dash!PaidIn(period) |-> Shown(b)] = [b \in Dash!PaidIn(period) |-> Received(b)]
  BY <1>3
<1> QED
  BY <1>4, <1>5

\* So the three widgets show the same.
LEMMA WidgetsAgreeAlways ==
    ASSUME Dash!TypeOK
    PROVE  Dash!WidgetsAgree
<1> SUFFICES
      ASSUME NEW period \in Dash!Periods
      PROVE  LET methods == Dash!SumOf([m \in Dash!Methods |-> Dash!MethodRevenue(m, period)])
                 media   == Dash!SumOf([m \in {sales[b].medium : b \in DOMAIN sales} |->
                                     Dash!MediumRevenue(m, period)])
                 noted   == \E b \in DOMAIN sales : \E i \in DOMAIN sales[b].payments :
                               sales[b].payments[i].noted
             IN  methods = media /\ (~noted => Dash!TransactionIncome(period) = media)
  BY DEF Dash!WidgetsAgree
<1>1. Dash!SumOf([m \in {sales[b].medium : b \in DOMAIN sales} |-> Dash!MediumRevenue(m, period)])
        = Dash!SumOf([b \in Dash!PaidIn(period) |-> Received(b)])
  BY MediaMakeUpPeriod
<1>2. Dash!SumOf([m \in Dash!Methods |-> Dash!MethodRevenue(m, period)])
        = Dash!SumOf([b \in Dash!PaidIn(period) |-> Received(b)])
  BY MethodsMakeUpPeriod
<1> QED
  BY <1>1, <1>2, TransactionsMakeUpPeriod

\* Whole units of days.
LEMMA DaysDivide ==
    ASSUME NEW day \in Nat, NEW n \in Nat \ {0}
    PROVE  /\ day \div n \in Nat
           /\ (day \div n) * n <= day /\ day < (day \div n) * n + n
OBVIOUS

\* The units around one.
LEMMA UnitsAre ==
    ASSUME NEW q \in Int, NEW n \in Int
    PROVE  /\ (q + 1) * n = q * n + n /\ (q - 1) * n = q * n - n /\ (q - 2) * n = q * n - 2 * n
           /\ q * n \in Int
OBVIOUS

\* The months around that of a day.
LEMMA MonthStartIs ==
    ASSUME Dash!Assumptions, NEW day \in Nat
    PROVE  LET m == (day \div MonthLength) * MonthLength
           IN  /\ m \in Int /\ m <= day /\ day < m + MonthLength
               /\ Dash!MonthStart(day, 0) = m /\ Dash!MonthStart(day, 1) = m + MonthLength
               /\ Dash!MonthStart(day, -1) = m - MonthLength
               /\ Dash!MonthStart(day, -2) = m - 2 * MonthLength
<1> DEFINE q == day \div MonthLength
<1>1. MonthLength \in Nat \ {0}
  BY DEF Dash!Assumptions
<1>2. q \in Nat /\ q * MonthLength <= day /\ day < q * MonthLength + MonthLength
  BY <1>1, DaysDivide
<1> HIDE DEF q
<1>3. /\ (q + 1) * MonthLength = q * MonthLength + MonthLength
      /\ (q - 1) * MonthLength = q * MonthLength - MonthLength
      /\ (q - 2) * MonthLength = q * MonthLength - 2 * MonthLength
      /\ q * MonthLength \in Int
  BY <1>1, <1>2, UnitsAre
<1>4. /\ Dash!MonthStart(day, 0) = (q + 0) * MonthLength
      /\ Dash!MonthStart(day, 1) = (q + 1) * MonthLength
      /\ Dash!MonthStart(day, -1) = (q + -1) * MonthLength
      /\ Dash!MonthStart(day, -2) = (q + -2) * MonthLength
  BY DEF Dash!MonthStart, q
<1>5. q + 0 = q /\ q + -1 = q - 1 /\ q + -2 = q - 2
  BY <1>2
<1> QED
  BY <1>2, <1>3, <1>4, <1>5 DEF q

\* A period and the one before it.
LEMMA PeriodsAreAdjacent ==
    ASSUME Dash!Assumptions, NEW day \in Nat, NEW type \in Dash!Types
    PROVE  LET now == Dash!Current(type, day)
               before == Dash!Previous(type, day)
           IN  /\ now.from \in Int /\ now.to \in Int /\ before.from \in Int
               /\ before.to = now.from /\ before.from < now.from /\ now.from < now.to
               /\ type # "lastMonth" => now.from <= day /\ day < now.to
<1>1. CASE type = "day"
  BY <1>1 DEF Dash!Current, Dash!Previous
<1>2. CASE type = "week"
  <2> DEFINE w == (day \div WeekLength) * WeekLength
  <2>1. WeekLength \in Nat \ {0}
    BY DEF Dash!Assumptions
  <2>2. w \in Int /\ w <= day /\ day < w + WeekLength
    <3>1. day \div WeekLength \in Nat
      BY <2>1, DaysDivide
    <3> QED
      BY <2>1, <3>1, DaysDivide, UnitsAre
  <2>3. /\ Dash!Current(type, day) = [from |-> w, to |-> w + WeekLength]
        /\ Dash!Previous(type, day) = [from |-> w - WeekLength, to |-> w]
    BY <1>2 DEF Dash!Current, Dash!Previous
  <2> HIDE DEF w
  <2> QED
    BY <1>2, <2>1, <2>2, <2>3
<1>3. CASE type = "month"
  <2> DEFINE m == (day \div MonthLength) * MonthLength
  <2>1. MonthLength \in Nat \ {0}
    BY DEF Dash!Assumptions
  <2>2. /\ m \in Int /\ m <= day /\ day < m + MonthLength
        /\ Dash!MonthStart(day, 0) = m /\ Dash!MonthStart(day, 1) = m + MonthLength
        /\ Dash!MonthStart(day, -1) = m - MonthLength
    BY MonthStartIs
  <2> HIDE DEF m
  <2>3. /\ Dash!Current(type, day) = [from |-> m, to |-> m + MonthLength]
        /\ Dash!Previous(type, day) = [from |-> m - MonthLength, to |-> m]
    BY <1>3, <2>2 DEF Dash!Current, Dash!Previous
  <2> QED
    BY <1>3, <2>1, <2>2, <2>3
<1>4. CASE type = "lastMonth"
  <2> DEFINE m == (day \div MonthLength) * MonthLength
  <2>1. MonthLength \in Nat \ {0}
    BY DEF Dash!Assumptions
  <2>2. /\ m \in Int
        /\ Dash!MonthStart(day, 0) = m
        /\ Dash!MonthStart(day, -1) = m - MonthLength /\ Dash!MonthStart(day, -2) = m - 2 * MonthLength
    BY MonthStartIs
  <2> HIDE DEF m
  <2>3. /\ Dash!Current(type, day) = [from |-> m - MonthLength, to |-> m]
        /\ Dash!Previous(type, day) = [from |-> m - 2 * MonthLength, to |-> m - MonthLength]
    BY <1>4, <2>2 DEF Dash!Current, Dash!Previous
  <2> QED
    BY <1>4, <2>1, <2>2, <2>3
<1>5. CASE type = "year"
  <2> DEFINE days == MonthLength * YearLength
             y == days * (day \div days)
  <2>1. days \in Nat \ {0}
    <3>1. MonthLength \in Nat \ {0} /\ YearLength \in Nat \ {0}
      BY DEF Dash!Assumptions
    <3> QED
      BY <3>1
  <2>2. /\ Dash!Current(type, day) = [from |-> y, to |-> y + days]
        /\ Dash!Previous(type, day) = [from |-> y - days, to |-> y]
    BY <1>5 DEF Dash!Current, Dash!Previous
  <2> HIDE DEF days
  <2>3. y \in Int /\ y <= day /\ day < y + days
    <3> DEFINE q == day \div days
    <3>1. q \in Nat /\ q * days <= day /\ day < q * days + days
      BY <2>1, DaysDivide
    <3> HIDE DEF q
    <3>2. days * q = q * days /\ q * days \in Int
      BY <2>1, <3>1
    <3> QED
      BY <3>1, <3>2 DEF q
  <2> HIDE DEF y
  <2> QED
    BY <1>5, <2>1, <2>2, <2>3
<1> QED
  BY <1>1, <1>2, <1>3, <1>4, <1>5 DEF Dash!Types

\* What a booking counts for is a natural number.
LEMMA WorthIsNatural ==
    ASSUME Dash!TypeOK, NEW b \in DOMAIN sales
    PROVE  Dash!Worth(b) \in Nat
BY SaleIs DEF Dash!Worth

\* The money of two adjacent periods is that of both.
LEMMA PeriodsAddUp ==
    ASSUME Dash!TypeOK, NEW before, NEW now,
           before.from \in Int, now.from \in Int, now.to \in Int,
           before.to = now.from, before.from < now.from, now.from < now.to
    PROVE  Dash!TotalIncome(now) + Dash!TotalIncome(before)
             = Dash!TotalIncome([from |-> before.from, to |-> now.to])
<1> DEFINE statuses == {"PENDIENTE", "APROBADO"}
           both == [from |-> before.from, to |-> now.to]
           S == DOMAIN sales
           A == Dash!MadeIn(statuses, now)
           B == Dash!MadeIn(statuses, before)
           V == Dash!MadeIn(statuses, both)
           w == [b \in S |-> Dash!Worth(b)]
<1>1. IsFiniteSet(S) /\ A \in SUBSET S /\ B \in SUBSET S /\ V \in SUBSET S
  BY SalesAreFinite
<1>2. A \cap B = {} /\ V = A \cup B
  <2>1. \A b \in S : sales[b].made \in Int
    BY SaleIs
  <2>2. both.from = before.from /\ both.to = now.to
    OBVIOUS
  <2>3. \A b \in S : /\ b \in A <=> /\ sales[b].status \in statuses
                                    /\ now.from <= sales[b].made /\ sales[b].made < now.to
                     /\ b \in B <=> /\ sales[b].status \in statuses
                                    /\ before.from <= sales[b].made /\ sales[b].made < before.to
                     /\ b \in V <=> /\ sales[b].status \in statuses
                                    /\ before.from <= sales[b].made /\ sales[b].made < now.to
    BY <2>2 DEF Dash!MadeIn
  <2> HIDE DEF A, B, V, S, statuses, both
  <2>4. \A b \in S : ~(b \in A /\ b \in B) /\ (b \in V <=> b \in A \/ b \in B)
    BY <2>1, <2>3
  <2> QED
    BY <1>1, <2>4
<1>3. \A b \in S : w[b] \in Int
  BY WorthIsNatural
<1>4. /\ Dash!TotalIncome(now) = Part(w, A)
      /\ Dash!TotalIncome(before) = Part(w, B)
      /\ Dash!TotalIncome(both) = Part(w, V)
  <2>1. ASSUME NEW period
        PROVE  Dash!TotalIncome(period) = Part(w, Dash!MadeIn(statuses, period))
    <3>1. [b \in Dash!MadeIn(statuses, period) |-> w[b]]
            = [b \in Dash!MadeIn(statuses, period) |-> Dash!Worth(b)]
      BY SalesAreFinite
    <3> HIDE DEF w
    <3> QED
      BY <3>1 DEF Dash!TotalIncome, Part
  <2> HIDE DEF w, statuses, both
  <2> QED
    BY <2>1
<1>5. Part(w, A) \in Int /\ Part(w, B) \in Int
  <2> HIDE DEF w, A, B
  <2>1. /\ IsFiniteSet(A) /\ [b \in A |-> w[b]] \in [A -> Int]
        /\ IsFiniteSet(B) /\ [b \in B |-> w[b]] \in [B -> Int]
    BY <1>1, <1>3, FS_Subset
  <2> QED
    BY <2>1, SumIsInt DEF Part
<1> HIDE DEF statuses, both, S, A, B, V, w
<1>6. Part(w, V) = Part(w, A) + Part(w, B)
  <2>1. A \cup B = V /\ A \cap B = {} /\ A \in SUBSET S /\ B \in SUBSET S /\ V \in SUBSET S
    BY <1>1, <1>2
  <2> QED
    BY <1>1, <1>3, <2>1, PartsAddUp
<1> QED
  BY <1>4, <1>5, <1>6 DEF both

\* So trends compare adjacent periods and share no money.
LEMMA TrendsCompareAlways ==
    ASSUME Dash!Assumptions, Dash!TypeOK
    PROVE  Dash!TrendsCompareAdjacent
<1>1. today \in Nat
  BY DEF Dash!TypeOK
<1> SUFFICES ASSUME NEW type \in Dash!Types
             PROVE  LET now == Dash!Current(type, today)
                        before == Dash!Previous(type, today)
                    IN  /\ before.to = now.from /\ before.from < before.to /\ now.from < now.to
                        /\ type # "lastMonth" => now.from <= today /\ today < now.to
                        /\ Dash!TotalIncome(now) + Dash!TotalIncome(before)
                             = Dash!TotalIncome([from |-> before.from, to |-> now.to])
  BY DEF Dash!TrendsCompareAdjacent
<1> DEFINE now == Dash!Current(type, today)
           before == Dash!Previous(type, today)
<1>2. /\ now.from \in Int /\ now.to \in Int /\ before.from \in Int
      /\ before.to = now.from /\ before.from < now.from /\ now.from < now.to
      /\ type # "lastMonth" => now.from <= today /\ today < now.to
  BY <1>1, PeriodsAreAdjacent
<1> HIDE DEF now, before
<1>3. Dash!TotalIncome(now) + Dash!TotalIncome(before)
        = Dash!TotalIncome([from |-> before.from, to |-> now.to])
  BY <1>2, PeriodsAddUp
<1> QED
  BY <1>2, <1>3 DEF now, before

\* What an approved booking is.
LEMMA ApprovedAre ==
    ASSUME Dash!TypeOK, NEW period
    PROVE  /\ IsFiniteSet(Dash!Approved(period)) /\ Dash!Approved(period) \in SUBSET DOMAIN sales
           /\ \A b \in Dash!Approved(period) :
                /\ sales[b].price \in Nat /\ sales[b].tourPrice \in Nat
                /\ sales[b].vehicle \in Vehicles /\ category[sales[b].vehicle] \in Categories
                /\ sales[b].tour \in Categories \cup {Dash!None}
                /\ sales[b].totalPaid \in Nat
<1>1. IsFiniteSet(Dash!Approved(period)) /\ Dash!Approved(period) \in SUBSET DOMAIN sales
  BY SalesAreFinite DEF Dash!Approved
<1>2. \A v \in Vehicles : category[v] \in Categories
  BY DEF Dash!TypeOK
<1> QED
  BY <1>1, <1>2, SaleIs

\* Rentals and tours by category.
LEMMA RentalsByCategory ==
    ASSUME Dash!Assumptions, Dash!TypeOK, NEW period
    PROVE  Dash!SumOf([c \in Categories |-> Dash!RentalRevenue(c, period)])
             = Dash!SumOf([b \in Dash!Approved(period) |-> sales[b].price])
<1> DEFINE S == Dash!Approved(period)
           w == [b \in S |-> sales[b].price]
           f == [b \in S |-> category[sales[b].vehicle]]
           u == [c \in Categories |-> Dash!RentalRevenue(c, period)]
<1>1. IsFiniteSet(S) /\ \A b \in S : w[b] \in Int
  BY ApprovedAre
<1>2. \A b \in S : f[b] \in Categories
  BY ApprovedAre
<1>3. IsFiniteSet(Categories)
  BY FleetIsFinite
<1>4. ASSUME NEW c \in Categories
      PROVE  u[c] = Dash!SumOf([x \in {y \in S : f[y] = c} |-> w[x]])
  <2>1. {y \in S : f[y] = c} = {b \in S : category[sales[b].vehicle] = c}
    OBVIOUS
  <2>2. [x \in {y \in S : f[y] = c} |-> w[x]]
          = [b \in {b \in S : category[sales[b].vehicle] = c} |-> sales[b].price]
    BY <2>1
  <2>3. u[c] = Dash!SumOf([b \in {b \in S : category[sales[b].vehicle] = c} |-> sales[b].price])
    BY DEF Dash!RentalRevenue
  <2> QED
    BY <2>2, <2>3
<1>5. w = [b \in S |-> w[b]] /\ u = [c \in Categories |-> u[c]]
  OBVIOUS
<1> HIDE DEF S, w, f, u
<1>6. Dash!SumOf([c \in Categories |-> u[c]]) = Dash!SumOf([b \in S |-> w[b]])
  BY <1>1, <1>2, <1>3, <1>4, SumOfGroups
<1>7. Dash!SumOf(u) = Dash!SumOf(w)
  BY <1>5, <1>6
<1> QED
  BY <1>7 DEF u, w, S

\* A tour is in the category that the cart says.
LEMMA ToursByCategory ==
    ASSUME Dash!Assumptions, Dash!TypeOK, NEW period
    PROVE  Dash!SumOf([c \in Categories |-> Dash!TourRevenue(c, period)])
             = Dash!SumOf([b \in {b \in Dash!Approved(period) : sales[b].tour # Dash!None} |->
                        sales[b].tourPrice])
<1> DEFINE S == {b \in Dash!Approved(period) : sales[b].tour # Dash!None}
           w == [b \in S |-> sales[b].tourPrice]
           f == [b \in S |-> sales[b].tour]
           u == [c \in Categories |-> Dash!TourRevenue(c, period)]
<1>1. IsFiniteSet(S) /\ \A b \in S : w[b] \in Int
  BY ApprovedAre, FS_Subset
<1>2. \A b \in S : f[b] \in Categories
  BY ApprovedAre
<1>3. IsFiniteSet(Categories) /\ Dash!None \notin Categories
  BY FleetIsFinite
<1>4. ASSUME NEW c \in Categories
      PROVE  u[c] = Dash!SumOf([x \in {y \in S : f[y] = c} |-> w[x]])
  <2>1. {y \in S : f[y] = c} = {b \in Dash!Approved(period) : sales[b].tour = c}
    BY <1>3
  <2>2. [x \in {y \in S : f[y] = c} |-> w[x]]
          = [b \in {b \in Dash!Approved(period) : sales[b].tour = c} |-> sales[b].tourPrice]
    BY <2>1
  <2>3. u[c] = Dash!SumOf([b \in {b \in Dash!Approved(period) : sales[b].tour = c} |->
                        sales[b].tourPrice])
    BY DEF Dash!TourRevenue
  <2> QED
    BY <2>2, <2>3
<1>5. w = [b \in S |-> w[b]] /\ u = [c \in Categories |-> u[c]]
  OBVIOUS
<1> HIDE DEF S, w, f, u
<1>6. Dash!SumOf([c \in Categories |-> u[c]]) = Dash!SumOf([b \in S |-> w[b]])
  BY <1>1, <1>2, <1>3, <1>4, SumOfGroups
<1>7. Dash!SumOf(u) = Dash!SumOf(w)
  BY <1>5, <1>6
<1> QED
  BY <1>7 DEF u, w, S

\* The revenue by category is both.
LEMMA RevenueByCategory ==
    ASSUME Dash!Assumptions, Dash!TypeOK, NEW period
    PROVE  /\ \A c \in Categories :
                Dash!TourRevenue(c, period) \in Nat /\ Dash!RentalRevenue(c, period) \in Nat
           /\ Dash!SumOf([c \in Categories |-> Dash!CategoryRevenue(c, period)])
                = Dash!SumOf([c \in Categories |-> Dash!TourRevenue(c, period)])
                    + Dash!SumOf([c \in Categories |-> Dash!RentalRevenue(c, period)])
<1>1. ASSUME NEW c \in Categories
      PROVE  Dash!TourRevenue(c, period) \in Nat
  <2> DEFINE S == {b \in Dash!Approved(period) : sales[b].tour = c}
             w == [b \in S |-> sales[b].tourPrice]
  <2>1. IsFiniteSet(S) /\ w \in [S -> Int] /\ \A b \in S : w[b] \in Nat
    BY ApprovedAre, FS_Subset
  <2>2. Dash!TourRevenue(c, period) = Dash!SumOf(w)
    BY DEF Dash!TourRevenue
  <2> HIDE DEF S, w
  <2> QED
    BY <2>1, <2>2, SumIsInt
<1>2. ASSUME NEW c \in Categories
      PROVE  Dash!RentalRevenue(c, period) \in Nat
  <2> DEFINE S == {b \in Dash!Approved(period) : category[sales[b].vehicle] = c}
             w == [b \in S |-> sales[b].price]
  <2>1. IsFiniteSet(S) /\ w \in [S -> Int] /\ \A b \in S : w[b] \in Nat
    BY ApprovedAre, FS_Subset
  <2>2. Dash!RentalRevenue(c, period) = Dash!SumOf(w)
    BY DEF Dash!RentalRevenue
  <2> HIDE DEF S, w
  <2> QED
    BY <2>1, <2>2, SumIsInt
<1> DEFINE u == [c \in Categories |-> Dash!TourRevenue(c, period)]
           w == [c \in Categories |-> Dash!RentalRevenue(c, period)]
<1>3. \A c \in Categories : u[c] \in Int /\ w[c] \in Int
  BY <1>1, <1>2
<1>4. [c \in Categories |-> Dash!CategoryRevenue(c, period)] = [c \in Categories |-> u[c] + w[c]]
  BY DEF Dash!CategoryRevenue
<1>5. u = [c \in Categories |-> u[c]] /\ w = [c \in Categories |-> w[c]]
  OBVIOUS
<1>6. IsFiniteSet(Categories)
  BY FleetIsFinite
<1> HIDE DEF u, w
<1>7. Dash!SumOf([c \in Categories |-> u[c] + w[c]])
        = Dash!SumOf([c \in Categories |-> u[c]]) + Dash!SumOf([c \in Categories |-> w[c]])
  BY <1>3, <1>6, SumOfSums
<1>8. Dash!SumOf([c \in Categories |-> Dash!CategoryRevenue(c, period)])
        = Dash!SumOf(u) + Dash!SumOf(w)
  BY <1>4, <1>5, <1>7
<1> QED
  BY <1>1, <1>2, <1>8 DEF u, w

\* The popular vehicles, each a record of its own.
RentedOut(v, period) == {b \in Dash!Approved(period) : sales[b].vehicle = v /\ sales[b].price > 0}

Popular(v, period) ==
    [vehicle |-> v, bookings |-> Cardinality(RentedOut(v, period)),
     revenue |-> Dash!SumOf([b \in RentedOut(v, period) |-> sales[b].price])]

\* A popular vehicle is the record of its vehicle, whose bookings are among the approved.
LEMMA PopularAre ==
    ASSUME Dash!Assumptions, Dash!TypeOK, NEW period
    PROVE  /\ IsFiniteSet(Dash!PopularVehicles(period))
           /\ \A p \in Dash!PopularVehicles(period) :
                /\ p.vehicle \in Vehicles /\ p = Popular(p.vehicle, period)
                /\ p.bookings = Cardinality(RentedOut(p.vehicle, period))
                /\ p.revenue = Dash!SumOf([b \in RentedOut(p.vehicle, period) |-> sales[b].price])
           /\ \A b \in Dash!Approved(period) : sales[b].price > 0 =>
                Popular(sales[b].vehicle, period) \in Dash!PopularVehicles(period)
<1> DEFINE some == {v \in Vehicles : RentedOut(v, period) # {}}
           f == [v \in some |-> Popular(v, period)]
<1>1. Dash!PopularVehicles(period) = {Popular(v, period) : v \in some}
  BY SameCounts DEF Dash!PopularVehicles, Popular, RentedOut
<1>2. IsFiniteSet(some)
  BY FleetIsFinite, FS_Subset
<1>3. IsFiniteSet({f[v] : v \in some})
  <2> HIDE DEF f, some
  <2> QED
    BY <1>2, ImageIsFinite
<1>4. {f[v] : v \in some} = {Popular(v, period) : v \in some}
  OBVIOUS
<1>5. \A p \in Dash!PopularVehicles(period) :
         /\ p.vehicle \in Vehicles /\ p = Popular(p.vehicle, period)
         /\ p.bookings = Cardinality(RentedOut(p.vehicle, period))
         /\ p.revenue = Dash!SumOf([b \in RentedOut(p.vehicle, period) |-> sales[b].price])
  <2> TAKE p \in Dash!PopularVehicles(period)
  <2>1. PICK v \in some : p = Popular(v, period)
    BY <1>1
  <2>2. p.vehicle = v
    BY <2>1 DEF Popular
  <2>3. /\ p.bookings = Cardinality(RentedOut(v, period))
        /\ p.revenue = Dash!SumOf([b \in RentedOut(v, period) |-> sales[b].price])
    BY <2>1 DEF Popular
  <2> QED
    BY <2>1, <2>2, <2>3
<1>6. ASSUME NEW b \in Dash!Approved(period), sales[b].price > 0
      PROVE  sales[b].vehicle \in some
  BY <1>6, ApprovedAre DEF RentedOut
<1> QED
  BY <1>1, <1>3, <1>4, <1>5, <1>6

\* The revenue by vehicle is that by booking: what has no price has no revenue.
LEMMA RentalsByVehicle ==
    ASSUME Dash!Assumptions, Dash!TypeOK, NEW period
    PROVE  Dash!SumOf([p \in Dash!PopularVehicles(period) |-> p.revenue])
             = Dash!SumOf([b \in Dash!Approved(period) |-> sales[b].price])
<1> DEFINE A == Dash!Approved(period)
           S == {b \in A : sales[b].price > 0}
           C == Dash!PopularVehicles(period)
           w == [b \in A |-> sales[b].price]
           f == [b \in S |-> Popular(sales[b].vehicle, period)]
           u == [p \in C |-> p.revenue]
<1>1. IsFiniteSet(A) /\ S \in SUBSET A /\ IsFiniteSet(S) /\ \A b \in A : w[b] \in Nat
  BY ApprovedAre, FS_Subset
<1>2. \A b \in S : w[b] \in Int
  BY <1>1
<1>3. \A b \in S : f[b] \in C
  BY PopularAre
<1>4. IsFiniteSet(C)
  BY PopularAre
<1>5. ASSUME NEW p \in C
      PROVE  u[p] = Dash!SumOf([x \in {y \in S : f[y] = p} |-> w[x]])
  <2>1. p.vehicle \in Vehicles /\ p = Popular(p.vehicle, period)
    BY PopularAre
  <2>2. \A v : Popular(v, period) = p <=> v = p.vehicle
    BY <2>1 DEF Popular
  <2>3. {y \in S : f[y] = p} = RentedOut(p.vehicle, period)
    BY <2>2 DEF RentedOut
  <2>4. [x \in {y \in S : f[y] = p} |-> w[x]] = [b \in RentedOut(p.vehicle, period) |-> sales[b].price]
    BY <2>3 DEF RentedOut
  <2>5. u[p] = Dash!SumOf([b \in RentedOut(p.vehicle, period) |-> sales[b].price])
    BY PopularAre
  <2> QED
    BY <2>4, <2>5
<1>6. w = [b \in A |-> w[b]] /\ u = [p \in C |-> u[p]] /\ \A b \in A \ S : w[b] = 0
  BY <1>1
<1> HIDE DEF A, S, C, w, f, u
<1>7. Dash!SumOf([p \in C |-> u[p]]) = Dash!SumOf([b \in S |-> w[b]])
  BY <1>1, <1>2, <1>3, <1>4, <1>5, SumOfGroups
<1>8. Dash!SumOf([b \in S |-> w[b]]) = Dash!SumOf([b \in A |-> w[b]])
  BY <1>1, <1>6, SumOfSome
<1>9. Dash!SumOf(u) = Dash!SumOf(w)
  BY <1>6, <1>7, <1>8
<1> QED
  BY <1>9 DEF A, C, u, w

\* Utilization shows at least the bookings of the popular vehicles.
LEMMA UtilizationCovers ==
    ASSUME Dash!Assumptions, Dash!TypeOK, NEW period, NEW c
    PROVE  Cardinality({b \in Dash!Approved(period) : category[sales[b].vehicle] = c})
             >= Dash!SumOf([p \in {p \in Dash!PopularVehicles(period) : category[p.vehicle] = c} |->
                              p.bookings])
<1> DEFINE A == {b \in Dash!Approved(period) : category[sales[b].vehicle] = c}
           S == {b \in A : sales[b].price > 0}
           C == {p \in Dash!PopularVehicles(period) : category[p.vehicle] = c}
           w == [b \in S |-> 1]
           f == [b \in S |-> Popular(sales[b].vehicle, period)]
           u == [p \in C |-> p.bookings]
<1>1. IsFiniteSet(A) /\ IsFiniteSet(S) /\ S \in SUBSET A
  BY ApprovedAre, FS_Subset
<1>2. \A b \in S : w[b] \in Int
  OBVIOUS
<1>3. \A b \in S : f[b] \in C
  <2>1. \A b \in S : f[b].vehicle = sales[b].vehicle
    BY DEF Popular
  <2> QED
    BY <2>1, PopularAre
<1>4. IsFiniteSet(C)
  BY PopularAre, FS_Subset
<1>5. ASSUME NEW p \in C
      PROVE  u[p] = Dash!SumOf([x \in {y \in S : f[y] = p} |-> w[x]])
  <2>1. p.vehicle \in Vehicles /\ p = Popular(p.vehicle, period) /\ category[p.vehicle] = c
    BY PopularAre
  <2>2. \A v : Popular(v, period) = p <=> v = p.vehicle
    BY <2>1 DEF Popular
  <2>3. {y \in S : f[y] = p} = RentedOut(p.vehicle, period)
    BY <2>1, <2>2 DEF RentedOut
  <2>4. [x \in {y \in S : f[y] = p} |-> w[x]] = [b \in RentedOut(p.vehicle, period) |-> 1]
    BY <2>3
  <2>5. u[p] = Cardinality(RentedOut(p.vehicle, period))
    BY PopularAre
  <2>6. IsFiniteSet(RentedOut(p.vehicle, period))
    BY ApprovedAre, FS_Subset DEF RentedOut
  <2> QED
    BY <2>4, <2>5, <2>6, CardinalityIsSum
<1>6. w = [b \in S |-> w[b]] /\ u = [p \in C |-> u[p]]
  OBVIOUS
<1>7. Cardinality(S) = Dash!SumOf(w)
  BY <1>1, CardinalityIsSum
<1>8. Cardinality(S) <= Cardinality(A)
  BY <1>1, FS_Subset
<1>9. Cardinality(S) \in Nat /\ Cardinality(A) \in Nat
  BY <1>1, FS_CardinalityType
<1> HIDE DEF A, S, C, w, f, u
<1>10. Dash!SumOf([p \in C |-> u[p]]) = Dash!SumOf([b \in S |-> w[b]])
  <2>1. IsFiniteSet(S)
    BY <1>1
  <2> QED
    BY <2>1, <1>2, <1>3, <1>4, <1>5, SumOfGroups
<1>11. Cardinality(A) >= Dash!SumOf(u)
  BY <1>6, <1>7, <1>8, <1>9, <1>10
<1> QED
  BY <1>11 DEF A, C, u

\* So the three groupings lose no booking and double none.
LEMMA VehicleWidgetsAgreeAlways ==
    ASSUME Dash!Assumptions, Dash!TypeOK
    PROVE  Dash!VehicleWidgetsAgree
<1> SUFFICES ASSUME NEW period
             PROVE  LET popular == Dash!PopularVehicles(period)
                        tours   == Dash!SumOf([b \in {b \in Dash!Approved(period) :
                                                        sales[b].tour # Dash!None} |->
                                                 sales[b].tourPrice])
                    IN  /\ Dash!SumOf([c \in Categories |-> Dash!CategoryRevenue(c, period)])
                             = Dash!SumOf([p \in popular |-> p.revenue]) + tours
                        /\ \A u \in Dash!Utilization(period) :
                             u.bookings >= Dash!SumOf([p \in {p \in popular :
                                                                category[p.vehicle] = u.category} |->
                                                         p.bookings])
  BY DEF Dash!VehicleWidgetsAgree
<1>1. Dash!SumOf([c \in Categories |-> Dash!CategoryRevenue(c, period)])
        = Dash!SumOf([c \in Categories |-> Dash!TourRevenue(c, period)])
            + Dash!SumOf([c \in Categories |-> Dash!RentalRevenue(c, period)])
  BY RevenueByCategory
<1>2. /\ Dash!SumOf([c \in Categories |-> Dash!TourRevenue(c, period)]) \in Nat
      /\ Dash!SumOf([c \in Categories |-> Dash!RentalRevenue(c, period)]) \in Nat
  <2> DEFINE u == [c \in Categories |-> Dash!TourRevenue(c, period)]
             w == [c \in Categories |-> Dash!RentalRevenue(c, period)]
  <2>0. \A c \in Categories :
           Dash!TourRevenue(c, period) \in Nat /\ Dash!RentalRevenue(c, period) \in Nat
    BY RevenueByCategory
  <2>1. /\ u \in [Categories -> Int] /\ \A c \in Categories : u[c] \in Nat
        /\ w \in [Categories -> Int] /\ \A c \in Categories : w[c] \in Nat
        /\ IsFiniteSet(Categories)
    BY <2>0, FleetIsFinite
  <2> HIDE DEF u, w
  <2>2. Dash!SumOf(u) \in Nat /\ Dash!SumOf(w) \in Nat
    BY <2>1, SumIsInt
  <2> QED
    BY <2>2 DEF u, w
<1>3. ASSUME NEW u \in Dash!Utilization(period)
      PROVE  u.bookings >= Dash!SumOf([p \in {p \in Dash!PopularVehicles(period) :
                                            category[p.vehicle] = u.category} |-> p.bookings])
  <2>1. u.bookings = Cardinality({b \in Dash!Approved(period) :
                                    category[sales[b].vehicle] = u.category})
    <3>1. PICK c : u = [category |-> c,
                        bookings |-> Cardinality({b \in Dash!Approved(period) :
                                                    category[sales[b].vehicle] = c}),
                        vehicles |-> Cardinality({v \in active : category[v] = c})]
      BY SameCounts DEF Dash!Utilization
    <3>2. u.category = c
      BY <3>1
    <3>3. u.bookings = Cardinality({b \in Dash!Approved(period) : category[sales[b].vehicle] = c})
      BY <3>1
    <3> QED
      BY <3>2, <3>3
  <2> QED
    BY <2>1, UtilizationCovers
<1>4. Dash!SumOf([p \in Dash!PopularVehicles(period) |-> p.revenue])
        = Dash!SumOf([c \in Categories |-> Dash!RentalRevenue(c, period)])
  BY RentalsByCategory, RentalsByVehicle
<1>5. Dash!SumOf([c \in Categories |-> Dash!TourRevenue(c, period)])
        = Dash!SumOf([b \in {b \in Dash!Approved(period) : sales[b].tour # Dash!None} |->
                        sales[b].tourPrice])
  BY ToursByCategory
<1> QED
  BY <1>1, <1>2, <1>3, <1>4, <1>5

\* Bookings that count and hold money.
Paying(period) == {b \in Dash!MadeIn({"PENDIENTE", "APROBADO"}, period) : sales[b].totalPaid > 0}

Found(c, period) ==
    {b \in Dash!MadeIn({"PENDIENTE", "APROBADO"}, period) : sales[b].totalPaid > 0 /\ Dash!Holds(b, c)}

\* What a filter finds is a part of the whole, and each of it is in the filtered income.
LEMMA FoundAre ==
    ASSUME Dash!TypeOK, NEW period, NEW c
    PROVE  /\ IsFiniteSet(Dash!MadeIn({"PENDIENTE", "APROBADO"}, period))
           /\ \A b \in Dash!MadeIn({"PENDIENTE", "APROBADO"}, period) : Dash!Worth(b) \in Nat
           /\ \A b \in Found(c, period) :
                Dash!Worth(b) <= Dash!FilteredIncome(c, period)
           /\ Dash!FilteredIncome(c, period) \in Nat
           /\ Dash!FilteredIncome(c, period) <= Dash!TotalIncome(period)
<1> DEFINE S == Dash!MadeIn({"PENDIENTE", "APROBADO"}, period)
           w == [b \in S |-> Dash!Worth(b)]
           A == Found(c, period)
<1>1. IsFiniteSet(S) /\ A \in SUBSET S
  BY SalesAreFinite DEF Found
<1>2. \A b \in S : w[b] = Dash!Worth(b) /\ w[b] \in Nat
  BY SalesAreFinite, WorthIsNatural
<1>3. [b \in A |-> w[b]] = [b \in A |-> Dash!Worth(b)] /\ w = [b \in S |-> w[b]]
  BY <1>1
<1>4. /\ Dash!FilteredIncome(c, period) = Dash!SumOf([b \in A |-> Dash!Worth(b)])
      /\ Dash!TotalIncome(period) = Dash!SumOf(w)
  BY DEF Dash!FilteredIncome, Dash!TotalIncome, Found
<1> HIDE DEF w, A, S
<1>5. /\ Dash!SumOf([b \in A |-> w[b]]) \in Nat
      /\ Dash!SumOf([b \in A |-> w[b]]) <= Dash!SumOf([b \in S |-> w[b]])
      /\ \A b \in A : w[b] <= Dash!SumOf([y \in A |-> w[y]])
  BY <1>1, <1>2, SumOfSome
<1>6. /\ Dash!FilteredIncome(c, period) \in Nat
      /\ Dash!FilteredIncome(c, period) <= Dash!TotalIncome(period)
      /\ \A b \in A : w[b] <= Dash!FilteredIncome(c, period)
  BY <1>3, <1>4, <1>5
<1>7. \A b \in A : Dash!Worth(b) <= Dash!FilteredIncome(c, period)
  BY <1>1, <1>2, <1>6
<1> QED
  BY <1>1, <1>2, <1>6, <1>7 DEF S, A

\* What a category earned is in bookings that its filter finds.
LEMMA EarnedIsFound ==
    ASSUME Dash!Assumptions, Dash!TypeOK, NEW period, NEW c \in Categories,
           Dash!CategoryRevenue(c, period) > 0,
           \A b \in Dash!Approved(period) : sales[b].totalPaid # 0
    PROVE  Dash!FilteredIncome(c, period) > 0
<1>1. Dash!TourRevenue(c, period) \in Nat /\ Dash!RentalRevenue(c, period) \in Nat
  BY RevenueByCategory
<1>2. Dash!TourRevenue(c, period) # 0 \/ Dash!RentalRevenue(c, period) # 0
  BY <1>1 DEF Dash!CategoryRevenue
<1>3. \E b \in Dash!Approved(period) : sales[b].tour = c \/ category[sales[b].vehicle] = c
  <2> SUFFICES ASSUME \A b \in Dash!Approved(period) : /\ sales[b].tour # c
                                                  /\ category[sales[b].vehicle] # c
               PROVE  FALSE
    OBVIOUS
  <2> DEFINE T == {b \in Dash!Approved(period) : sales[b].tour = c}
             R == {b \in Dash!Approved(period) : category[sales[b].vehicle] = c}
             u == [b \in T |-> sales[b].tourPrice]
             w == [b \in R |-> sales[b].price]
  <2>1. T = {} /\ R = {}
    OBVIOUS
  <2>2. Dash!TourRevenue(c, period) = Dash!SumOf(u) /\ Dash!RentalRevenue(c, period) = Dash!SumOf(w)
    BY DEF Dash!TourRevenue, Dash!RentalRevenue
  <2>3. u \in [{} -> Int] /\ w \in [{} -> Int]
    BY <2>1
  <2> HIDE DEF T, R, u, w
  <2>4. Dash!SumOf(u) = 0 /\ Dash!SumOf(w) = 0
    <3>1. IsFiniteSet({}) /\ (\A x \in {} : u[x] = 0) /\ (\A x \in {} : w[x] = 0)
      BY FS_EmptySet
    <3> QED
      BY <2>3, <3>1, SumIsInt
  <2> QED
    BY <1>2, <2>2, <2>4
<1>4. PICK b \in Dash!Approved(period) : sales[b].tour = c \/ category[sales[b].vehicle] = c
  BY <1>3
<1>5. sales[b].totalPaid \in Nat /\ sales[b].totalPaid > 0
  BY ApprovedAre
<1>6. b \in Found(c, period)
  BY <1>4, <1>5 DEF Found, Dash!Holds, Dash!Approved, Dash!MadeIn
<1>7. Dash!Worth(b) = sales[b].totalPaid
  BY <1>5 DEF Dash!Worth
<1> QED
  BY <1>5, <1>6, <1>7, FoundAre

\* Each booking with money is found under the category of its vehicle at least.
LEMMA FiltersCoverPaying ==
    ASSUME Dash!Assumptions, Dash!TypeOK, NEW period
    PROVE  Dash!SumOf([c \in Categories |-> Dash!FilteredIncome(c, period)])
             >= Dash!SumOf([b \in Paying(period) |-> Dash!Worth(b)])
<1> DEFINE S == Paying(period)
           w == [b \in S |-> Dash!Worth(b)]
           f == [b \in S |-> category[sales[b].vehicle]]
           u == [c \in Categories |-> Dash!SumOf([x \in {y \in S : f[y] = c} |-> w[x]])]
           v == [c \in Categories |-> Dash!FilteredIncome(c, period)]
<1>1. S \in SUBSET DOMAIN sales /\ IsFiniteSet(S) /\ \A b \in S : w[b] \in Nat /\ w[b] = Dash!Worth(b)
  BY SalesAreFinite, FS_Subset, WorthIsNatural DEF Paying
<1>2. \A b \in S : f[b] \in Categories
  <2>1. \A b \in S : sales[b].vehicle \in Vehicles
    BY <1>1, SaleIs
  <2> QED
    BY <2>1 DEF Dash!TypeOK
<1>3. IsFiniteSet(Categories)
  BY FleetIsFinite
<1>4. ASSUME NEW c \in Categories
      PROVE  u[c] \in Nat /\ v[c] \in Nat /\ u[c] <= v[c]
  <2> DEFINE B == Found(c, period)
             A == {y \in S : f[y] = c}
             z == [b \in B |-> Dash!Worth(b)]
  <2>1. A \in SUBSET B
    BY DEF Paying, Found, Dash!Holds
  <2>2. IsFiniteSet(B) /\ \A b \in B : z[b] \in Nat
    BY FoundAre, FS_Subset DEF Found
  <2>3. /\ u[c] = Dash!SumOf([x \in A |-> z[x]])
        /\ v[c] = Dash!SumOf([x \in B |-> z[x]])
    <3>1. [x \in A |-> w[x]] = [x \in A |-> z[x]]
      BY <2>1
    <3>2. u[c] = Dash!SumOf([x \in A |-> w[x]])
      OBVIOUS
    <3>3. [x \in B |-> z[x]] = [b \in B |-> Dash!Worth(b)]
      OBVIOUS
    <3>4. v[c] = Dash!SumOf([b \in B |-> Dash!Worth(b)])
      BY DEF Dash!FilteredIncome, Found
    <3> QED
      BY <3>1, <3>2, <3>3, <3>4
  <2>4. v[c] \in Nat
    BY FoundAre
  <2> HIDE DEF A, B, z, u, v
  <2>5. /\ Dash!SumOf([x \in A |-> z[x]]) \in Nat
        /\ Dash!SumOf([x \in A |-> z[x]]) <= Dash!SumOf([x \in B |-> z[x]])
    BY <2>1, <2>2, SumOfSome
  <2> QED
    BY <2>3, <2>4, <2>5
<1>5. \A c \in Categories : u[c] = Dash!SumOf([x \in {y \in S : f[y] = c} |-> w[x]])
  OBVIOUS
<1>6. u = [c \in Categories |-> u[c]] /\ v = [c \in Categories |-> v[c]] /\ w = [b \in S |-> w[b]]
  OBVIOUS
<1>7. \A b \in S : w[b] \in Int
  BY <1>1
<1> HIDE DEF S, w, f, u, v
<1>8. \A c \in Categories : u[c] \in Int /\ v[c] \in Int /\ u[c] <= v[c]
  BY <1>4
<1>9. Dash!SumOf([c \in Categories |-> u[c]]) = Dash!SumOf([x \in S |-> w[x]])
  <2>1. IsFiniteSet(S)
    BY <1>1
  <2> QED
    BY <2>1, <1>2, <1>3, <1>5, <1>7, SumOfGroups
<1>10. Dash!SumOf([c \in Categories |-> u[c]]) <= Dash!SumOf([c \in Categories |-> v[c]])
  <2> DEFINE C == Categories
  <2>2. IsFiniteSet(C) /\ \A c \in C : u[c] \in Int /\ v[c] \in Int /\ u[c] <= v[c]
    BY <1>3, <1>8
  <2> HIDE DEF C
  <2>3. Dash!SumOf([c \in C |-> u[c]]) <= Dash!SumOf([c \in C |-> v[c]])
    BY <2>2, SumIsLess
  <2> QED
    BY <2>3 DEF C
<1>11. /\ Dash!SumOf([c \in Categories |-> u[c]]) \in Int
       /\ Dash!SumOf([c \in Categories |-> v[c]]) \in Int
  <2>1. /\ [c \in Categories |-> u[c]] \in [Categories -> Int]
        /\ [c \in Categories |-> v[c]] \in [Categories -> Int]
    BY <1>8
  <2> QED
    BY <1>3, <2>1, SumIsInt
<1>12. Dash!SumOf(v) >= Dash!SumOf(w)
  BY <1>6, <1>9, <1>10, <1>11
<1> QED
  BY <1>12 DEF v, w, S

\* So filters show no more than the whole, and together no less.
LEMMA FiltersCoverAlways ==
    ASSUME Dash!Assumptions, Dash!TypeOK
    PROVE  Dash!FiltersCoverIncome
<1>1. ASSUME NEW period
      PROVE  Dash!SumOf([c \in Categories |-> Dash!FilteredIncome(c, period)])
               >= Dash!SumOf([b \in {b \in Dash!MadeIn({"PENDIENTE", "APROBADO"}, period) :
                                  sales[b].totalPaid > 0} |-> Dash!Worth(b)])
  BY FiltersCoverPaying DEF Paying
<1>2. ASSUME NEW period, NEW c \in Categories
      PROVE  /\ Dash!FilteredIncome(c, period) <= Dash!TotalIncome(period)
             /\ Dash!CategoryRevenue(c, period) > 0 =>
                  \/ Dash!FilteredIncome(c, period) > 0
                  \/ \E b \in Dash!Approved(period) : sales[b].totalPaid = 0
  BY FoundAre, EarnedIsFound
<1> QED
  BY <1>1, <1>2 DEF Dash!FiltersCoverIncome

\* MetricsRepository: the widgets of the dashboard show the same money, for any bookings,
\* payments, vehicles and categories, however long weeks, months and years are.
THEOREM OfficeWidgetsAgree == OfficeSpec => []WidgetsAgree
<1>1. Dash!Spec => []Dash!TypeOK
  BY PartsAssumption, DashInvariance
<1>2. Dash!TypeOK => /\ Dash!WidgetsAgree
                 /\ Dash!TrendsCompareAdjacent
                 /\ Dash!VehicleWidgetsAgree
                 /\ Dash!FiltersCoverIncome
  BY PartsAssumption, WidgetsAgreeAlways, TrendsCompareAlways, VehicleWidgetsAgreeAlways,
     FiltersCoverAlways
<1>3. part = "dashboard" /\ OfficeInit => Dash!Init
  BY DEF OfficeInit
<1>4. part = "dashboard" /\ [OfficeNext]_vars => [Dash!Next]_(Dash!vars)
  BY DEF OfficeNext, vars, Dash!vars
<1>5. part = "dashboard" /\ [OfficeNext]_vars => (part = "dashboard")'
  BY PartStays
<1>6. ~(part = "dashboard") /\ [OfficeNext]_vars => (~(part = "dashboard"))'
  BY PartStays
<1>7. part = "dashboard" /\ OfficeSpec => Dash!Spec
  BY <1>3, <1>4, <1>5, PTL DEF OfficeSpec, Dash!Spec
<1>8. ~(part = "dashboard") /\ OfficeSpec => [](~(part = "dashboard"))
  BY <1>6, PTL DEF OfficeSpec
<1> QED
  BY <1>1, <1>2, <1>7, <1>8, PTL DEF WidgetsAgree
=============================================================================
