---------------------- MODULE PromotionalPrices_proofs ----------------------
(***************************************************************************)
(* Two active promotions of a model overlap only if their requests raced   *)
(* or one of them was last changed with a single date, and the list of a   *)
(* vehicle and the search of a day tell the same of them: for any models   *)
(* and dates, and any number of promotions, requests and updates.          *)
(*                                                                         *)
(* PromotionsDisjoint is not inductive, for it says nothing of requests    *)
(* that have looked and not yet written. CheckedIsClear does: what such a  *)
(* request will write overlaps only with what was written since it         *)
(* looked.                                                                 *)
(***************************************************************************)
EXTENDS PromotionalPrices, WellFoundedInduction, TLAPS

Promotion ==
    [model : Models, start : Int, end : Int, active : BOOLEAN, deleted : BOOLEAN]

Request ==
    [id : Nat, model : Models, start : Int, end : Int, active : BOOLEAN, unseen : SUBSET Nat]

TypeOK ==
    /\ promos \in Seq(Promotion)
    /\ requests \in SUBSET Request

BothDates(r) == r.start # -1 /\ r.end # -1

\* A request for a new promotion gives both dates; others are about one that there is.
RequestsAreAbout ==
    \A r \in requests : IF r.id = None THEN BothDates(r) ELSE r.id \in DOMAIN promos

CheckedIsClear ==
    \A r \in requests : BothDates(r) =>
        \A p \in Active(r.model) :
            p # r.id /\ p \notin r.unseen => ~Overlaps(r.start, r.end, p)

IInv ==
    /\ TypeOK
    /\ RequestsAreAbout
    /\ CheckedIsClear
    /\ PromotionsDisjoint

-----------------------------------------------------------------------------
\* Periods of which neither starts before the other has ended are disjoint.
LEMMA ApartOrOverlapping ==
    ASSUME promos \in Seq(Promotion), NEW p \in DOMAIN promos, NEW start \in Int, NEW end \in Int,
           ~Overlaps(start, end, p)
    PROVE  end <= promos[p].start \/ promos[p].end <= start
<1>1. promos[p] \in Promotion
  OBVIOUS
<1>2. promos[p].start \in Int /\ promos[p].end \in Int
  BY <1>1 DEF Promotion
<1> QED
  BY <1>2 DEF Overlaps

LEMMA ActiveIsThere ==
    \A model : \A p \in Active(model) :
        /\ p \in DOMAIN promos
        /\ ~promos[p].deleted /\ promos[p].active /\ promos[p].model = model
  BY DEF Active, Live

\* A request that has looked is added, and nothing else happens.
LEMMA LookingKeeps ==
    ASSUME IInv, UNCHANGED <<promos, raced, loose>>,
           NEW r \in Request, requests' = requests \cup {r}, r.unseen = {},
           IF r.id = None THEN BothDates(r) ELSE r.id \in DOMAIN promos,
           BothDates(r) => ~Clashes(r.id, r.model, r.start, r.end)
    PROVE  IInv'
<1>1. \A model : Active(model)' = Active(model)
  BY DEF Active, Live
<1>2. \A start, end, p : Overlaps(start, end, p)' <=> Overlaps(start, end, p)
  BY DEF Overlaps
<1>3. TypeOK' /\ RequestsAreAbout'
  BY DEF IInv, TypeOK, RequestsAreAbout, BothDates
<1>4. CheckedIsClear'
  <2> SUFFICES ASSUME NEW o \in requests', BothDates(o), NEW p \in Active(o.model),
                      p # o.id, p \notin o.unseen
               PROVE  ~Overlaps(o.start, o.end, p)
    BY <1>1, <1>2 DEF CheckedIsClear, BothDates
  <2>1. CASE o \in requests
    BY <2>1 DEF IInv, CheckedIsClear
  <2>2. CASE o = r
    BY <2>2 DEF Clashes
  <2> QED
    BY <2>1, <2>2
<1>5. PromotionsDisjoint'
  BY <1>1 DEF IInv, PromotionsDisjoint
<1> QED
  BY <1>3, <1>4, <1>5 DEF IInv

\* Promotion id is written as request r says, other promotions stay.  It is clear of what r
\* has seen; with what r has not seen it is a pair of raced, and the requests that looked
\* before have not seen it.
LEMMA WritingKeeps ==
    ASSUME IInv, NEW r \in requests, NEW id \in Nat, Written(r, id),
           promos' \in Seq(Promotion),
           DOMAIN promos \subseteq DOMAIN promos', id \in DOMAIN promos',
           \A p \in DOMAIN promos' : p # id => p \in DOMAIN promos /\ promos'[p] = promos[p],
           r.id = id \/ (r.id = None /\ id \notin DOMAIN promos),
           promos'[id].model = r.model,
           BothDates(r) => promos'[id].start = r.start /\ promos'[id].end = r.end
    PROVE  IInv'
<1> USE DEF IInv
<1>1. requests \in SUBSET Request /\ r \in Request
  BY DEF TypeOK
<1>2. \A o \in requests' :
        \E q \in requests :
            /\ o.unseen = q.unseen \cup {id}
            /\ o.id = q.id /\ o.model = q.model /\ o.start = q.start /\ o.end = q.end
            /\ o \in Request
  <2> SUFFICES ASSUME NEW o \in requests'
               PROVE  \E q \in requests :
                        /\ o.unseen = q.unseen \cup {id}
                        /\ o.id = q.id /\ o.model = q.model
                        /\ o.start = q.start /\ o.end = q.end
                        /\ o \in Request
    OBVIOUS
  <2>1. PICK q \in requests : o = [q EXCEPT !.unseen = @ \cup {id}]
    BY DEF Written
  <2>2. q \in Request
    BY <1>1
  <2>3. o = [id |-> q.id, model |-> q.model, start |-> q.start, end |-> q.end,
             active |-> q.active, unseen |-> q.unseen \cup {id}]
    BY <2>1, <2>2 DEF Request
  <2> QED
    BY <2>2, <2>3 DEF Request
<1>3. TypeOK'
  BY <1>2 DEF TypeOK
<1>4. RequestsAreAbout'
  BY <1>2 DEF RequestsAreAbout, BothDates
<1>5. \A model : \A p \in Active(model)' :
        p # id => p \in Active(model) /\ promos'[p] = promos[p]
  BY DEF Active, Live
<1>6. CheckedIsClear'
  <2> SUFFICES ASSUME NEW o \in requests', BothDates(o), NEW p \in Active(o.model)',
                      p # o.id, p \notin o.unseen
               PROVE  ~Overlaps(o.start, o.end, p)'
    BY DEF CheckedIsClear, BothDates
  <2>1. PICK q \in requests :
            /\ o.unseen = q.unseen \cup {id}
            /\ o.id = q.id /\ o.model = q.model /\ o.start = q.start /\ o.end = q.end
    BY <1>2
  <2>2. p # id /\ p \notin q.unseen /\ p # q.id /\ BothDates(q)
    BY <2>1 DEF BothDates
  <2>3. p \in Active(q.model) /\ promos'[p] = promos[p]
    BY <1>5, <2>1, <2>2
  <2>4. ~Overlaps(q.start, q.end, p)
    BY <2>2, <2>3 DEF CheckedIsClear
  <2> QED
    BY <2>1, <2>3, <2>4 DEF Overlaps
<1>7. PromotionsDisjoint'
  <2> SUFFICES ASSUME NEW model \in Models, NEW p \in Active(model)', NEW q \in Active(model)',
                      p # q, {p, q} \notin raced', loose' \cap {p, q} = {}
               PROVE  promos'[p].end <= promos'[q].start \/ promos'[q].end <= promos'[p].start
    BY DEF PromotionsDisjoint
  <2>1. CASE p # id /\ q # id
    <3>1. {p, q} \notin raced /\ loose \cap {p, q} = {}
      BY <2>1 DEF Written
    <3>2. p \in Active(model) /\ q \in Active(model)
          /\ promos'[p] = promos[p] /\ promos'[q] = promos[q]
      BY <1>5, <2>1
    <3> QED
      BY <3>1, <3>2 DEF PromotionsDisjoint
  <2>2. ASSUME NEW other \in Active(model)', other # id, id \in Active(model)',
               {id, other} \notin raced', id \notin loose'
        PROVE  \/ promos'[id].end <= promos'[other].start
               \/ promos'[other].end <= promos'[id].start
    <3>1. other \notin r.unseen /\ BothDates(r)
      BY <2>2 DEF Written, BothDates
    <3>2. other \in Active(model) /\ promos'[other] = promos[other] /\ other \in DOMAIN promos
      BY <1>5, <2>2, ActiveIsThere
    <3>3. model = r.model
      BY <2>2 DEF Active, Live
    <3>4. other # r.id
      BY <2>2, <3>2 DEF None, TypeOK
    <3>5. ~Overlaps(r.start, r.end, other)
      BY <3>1, <3>2, <3>3, <3>4 DEF CheckedIsClear
    <3>6. r.start \in Int /\ r.end \in Int
      BY <1>1 DEF Request
    <3>7. r.end <= promos[other].start \/ promos[other].end <= r.start
      BY <3>2, <3>5, <3>6, ApartOrOverlapping DEF TypeOK
    <3> QED
      BY <3>1, <3>2, <3>7
  <2>3. CASE p = id
    BY <2>2, <2>3
  <2>4. CASE q = id
    <3>1. {id, p} = {p, q}
      BY <2>4
    <3> QED
      BY <2>2, <2>4, <3>1
  <2> QED
    BY <2>1, <2>3, <2>4
<1> QED
  BY <1>3, <1>4, <1>6, <1>7

\* Fewer promotions, or fewer requests: nothing new can overlap.
LEMMA RemovingKeeps ==
    ASSUME IInv, UNCHANGED <<raced, loose>>, requests' \subseteq requests,
           promos' \in Seq(Promotion), DOMAIN promos' = DOMAIN promos,
           \A p \in DOMAIN promos : promos'[p] = promos[p] \/ promos'[p].deleted
    PROVE  IInv'
<1> USE DEF IInv
<1>1. \A model : \A p \in Active(model)' : p \in Active(model) /\ promos'[p] = promos[p]
  BY DEF Active, Live
<1>2. TypeOK' /\ RequestsAreAbout'
  BY DEF TypeOK, RequestsAreAbout, BothDates
<1>3. CheckedIsClear'
  BY <1>1 DEF CheckedIsClear, Overlaps, BothDates
<1>4. PromotionsDisjoint'
  BY <1>1 DEF PromotionsDisjoint
<1> QED
  BY <1>2, <1>3, <1>4

\* IInv is inductive.
THEOREM IInvariance ==
    ASSUME LastDay \in Nat
    PROVE  Spec => []IInv
<1>1. Init => IInv
  BY DEF Init, IInv, TypeOK, RequestsAreAbout, CheckedIsClear, PromotionsDisjoint, Active, Live
<1>2. IInv /\ [Next]_vars => IInv'
  <2> SUFFICES ASSUME IInv, [Next]_vars
               PROVE  IInv'
    OBVIOUS
  <2>1. ASSUME NEW model \in Models, NEW start \in Dates, NEW end \in Dates,
               CheckCreate(model, start, end)
        PROVE  IInv'
    <3> DEFINE r == [id |-> None, model |-> model, start |-> start, end |-> end,
                     active |-> TRUE, unseen |-> {}]
    <3>1. start \in Nat /\ end \in Nat
      BY DEF Dates
    <3>2. r \in Request /\ BothDates(r)
      BY <3>1 DEF Request, BothDates, None
    <3>3. requests' = requests \cup {r} /\ UNCHANGED <<promos, raced, loose>>
          /\ ~Clashes(r.id, r.model, r.start, r.end)
      BY <2>1 DEF CheckCreate, Running
    <3> QED
      BY <3>2, <3>3, LookingKeeps
  <2>2. ASSUME NEW id \in DOMAIN promos, NEW model \in Models, NEW start \in Dates \cup {-1},
               NEW end \in Dates \cup {-1}, NEW active \in BOOLEAN,
               CheckUpdate(id, model, start, end, active)
        PROVE  IInv'
    <3> DEFINE r == [id |-> id, model |-> model, start |-> start, end |-> end,
                     active |-> active, unseen |-> {}]
    <3>1. start \in Int /\ end \in Int /\ id \in Nat /\ id # None
      BY DEF Dates, IInv, TypeOK, None
    <3>2. r \in Request
      BY <3>1 DEF Request
    <3>3. requests' = requests \cup {r} /\ UNCHANGED <<promos, raced, loose>>
          /\ (BothDates(r) => ~Clashes(r.id, r.model, r.start, r.end))
      BY <2>2 DEF CheckUpdate, Running, BothDates
    <3> QED
      BY <3>1, <3>2, <3>3, LookingKeeps
  <2>3. ASSUME NEW r \in requests, WriteNew(r)
        PROVE  IInv'
    <3> DEFINE new == Promo(r.model, r.start, r.end)
    <3>1. r \in Request /\ r.id = None /\ BothDates(r)
      BY <2>3 DEF IInv, TypeOK, WriteNew, RequestsAreAbout
    <3>2. new \in Promotion /\ new.model = r.model /\ new.start = r.start /\ new.end = r.end
      BY <3>1 DEF Promo, Promotion, Request
    <3>3. promos \in Seq(Promotion) /\ promos' = Append(promos, new)
      BY <2>3 DEF IInv, TypeOK, WriteNew
    <3>4. /\ promos' \in Seq(Promotion)
          /\ Len(promos') = Len(promos) + 1 /\ Len(promos) \in Nat
          /\ DOMAIN promos' = 1 .. Len(promos') /\ DOMAIN promos = 1 .. Len(promos)
          /\ promos'[Len(promos')] = new
          /\ \A p \in 1 .. Len(promos) : promos'[p] = promos[p]
      <4> HIDE DEF new
      <4> QED
        BY <3>2, <3>3
    <3>5. Written(r, Len(promos'))
      BY <2>3 DEF WriteNew
    <3> HIDE DEF new
    <3> QED
      BY <3>1, <3>2, <3>4, <3>5, WritingKeeps
  <2>4. ASSUME NEW r \in requests, WriteUpdate(r)
        PROVE  IInv'
    <3>1. r \in Request /\ promos \in Seq(Promotion) /\ requests \in SUBSET Request
      BY DEF IInv, TypeOK
    <3>2. CASE r.id \in Live
      <4> DEFINE changed == Changed(r)
      <4>1. r.id \in DOMAIN promos /\ promos[r.id] \in Promotion /\ r.id \in Nat
        BY <3>1, <3>2 DEF Live
      <4>2. /\ changed \in Promotion /\ changed.model = r.model
            /\ BothDates(r) => changed.start = r.start /\ changed.end = r.end
        BY <3>1, <4>1 DEF Changed, Promotion, Request, BothDates
      <4>3. promos' = [promos EXCEPT ![r.id] = changed] /\ Written(r, r.id)
        BY <2>4, <3>2 DEF WriteUpdate
      <4> HIDE DEF changed
      <4>4. /\ promos' \in Seq(Promotion) /\ DOMAIN promos' = DOMAIN promos
            /\ promos'[r.id] = changed
            /\ \A p \in DOMAIN promos : p # r.id => promos'[p] = promos[p]
        BY <3>1, <4>1, <4>2, <4>3
      <4> QED
        BY <4>1, <4>2, <4>3, <4>4, WritingKeeps
    <3>3. CASE r.id \notin Live
      BY <2>4, <3>1, <3>3, RemovingKeeps DEF WriteUpdate
    <3> QED
      BY <3>2, <3>3
  <2>5. ASSUME NEW id \in DOMAIN promos, Delete(id)
        PROVE  IInv'
    <3>1. promos \in Seq(Promotion)
      BY DEF IInv, TypeOK
    <3>2. promos' = [promos EXCEPT ![id].deleted = TRUE] /\ UNCHANGED <<requests, raced, loose>>
      BY <2>5 DEF Delete
    <3> DEFINE gone == [promos[id] EXCEPT !.deleted = TRUE]
    <3>3. promos[id] \in Promotion
      BY <3>1
    <3>4. gone \in Promotion /\ gone.deleted
      BY <3>3 DEF Promotion
    <3>5. promos' = [promos EXCEPT ![id] = gone]
      BY <3>2
    <3> HIDE DEF gone
    <3>6. promos' \in Seq(Promotion) /\ DOMAIN promos' = DOMAIN promos
      BY <3>1, <3>4, <3>5
    <3>7. \A p \in DOMAIN promos : promos'[p] = IF p = id THEN gone ELSE promos[p]
      BY <3>1, <3>5
    <3> QED
      BY <3>2, <3>4, <3>6, <3>7, RemovingKeeps
  <2>6. CASE UNCHANGED vars
    <3>1. promos \in Seq(Promotion)
      BY DEF IInv, TypeOK
    <3> QED
      BY <2>6, <3>1, RemovingKeeps DEF vars
  <2> QED
    BY <2>1, <2>2, <2>3, <2>4, <2>5, <2>6 DEF Next
<1> QED
  BY <1>1, <1>2, PTL DEF Spec

\* PromotionalPriceService.create and update: active promotions of a model overlap only after
\* requests that ran at the same time, or an update with one date.
THEOREM NeverOverlapping ==
    ASSUME LastDay \in Nat
    PROVE  Spec => []PromotionsDisjoint
<1>1. IInv => PromotionsDisjoint
  BY DEF IInv
<1> QED
  BY <1>1, IInvariance, PTL

-----------------------------------------------------------------------------
\* Some places of a sequence have a last one.
LEMMA LastPlace ==
    ASSUME NEW S \in SUBSET Nat, S # {}, NEW n \in Nat, \A p \in S : p <= n
    PROVE  \E p \in S : \A q \in S : q <= p
<1> DEFINE T == {n - p : p \in S}
<1>1. \A p \in S : n - p \in Nat
  OBVIOUS
<1>2. T \in SUBSET Nat /\ T # {}
  BY <1>1
<1> HIDE DEF T
<1>3. PICK t \in T : \A u \in T : ~(<<u, t>> \in OpToRel(<, Nat))
  BY <1>2, NatLessThanWellFounded, WFMin, Zenon
<1>4. PICK p \in S : t = n - p
  BY DEF T
<1>5. \A u \in T : ~(u < t)
  BY <1>2, <1>3 DEF OpToRel
<1>6. \A q \in S : q <= p
  <2> TAKE q \in S
  <2>1. n - q \in T
    BY DEF T
  <2>2. ~(n - q < n - p)
    BY <2>1, <1>4, <1>5
  <2> QED
    BY <2>2
<1> QED
  BY <1>6

\* findByModelAndDate finds one of those that cover the day, if there are any, and else nothing.
LEMMA FoundCovers ==
    ASSUME promos \in Seq(Promotion), NEW model, NEW day
    PROVE  IF Covering(model, day) = {} THEN Found(model, day) = None
           ELSE Found(model, day) \in Covering(model, day) /\ Found(model, day) # None
<1> DEFINE S == Covering(model, day)
<1>1. S \subseteq DOMAIN promos
  BY DEF Covering, Active, Live
<1>2. S \in SUBSET Nat /\ Len(promos) \in Nat /\ (\A p \in S : p <= Len(promos)) /\ 0 \notin S
  BY <1>1
<1>3. ASSUME S # {}
      PROVE  Found(model, day) \in S
  <2> HIDE DEF S
  <2>1. \E p \in S : \A q \in S : q <= p
    BY <1>2, <1>3, LastPlace
  <2>2. Found(model, day) = CHOOSE p \in S : \A q \in S : q <= p
    BY <1>3 DEF Found, S
  <2> QED
    BY <2>1, <2>2
<1>4. S = {} => Found(model, day) = None
  BY DEF Found
<1> HIDE DEF S
<1>5. S # {} => Found(model, day) \in S /\ Found(model, day) # None
  BY <1>2, <1>3 DEF None
<1> QED
  BY <1>4, <1>5 DEF S

\* findByModelAndDate and enrichVehiclesWithPromotions agree, on any promotions.
LEMMA SearchAgrees ==
    ASSUME promos \in Seq(Promotion)
    PROVE  SearchAgreesWithList
<1> SUFFICES ASSUME NEW model \in Models, NEW day \in Dates
             PROVE  LET shown == {i \in Intervals(model) : i.start <= day /\ day <= i.end}
                        found == Found(model, day)
                    IN  IF found = None THEN shown = {}
                        ELSE [start |-> promos[found].start, end |-> promos[found].end] \in shown
  BY DEF SearchAgreesWithList
<1> DEFINE shown == {i \in Intervals(model) : i.start <= day /\ day <= i.end}
           found == Found(model, day)
<1>1. CASE Covering(model, day) = {}
  <2>1. found = None
    BY <1>1, FoundCovers
  <2>2. ASSUME NEW p \in Active(model)
        PROVE  ~(promos[p].start <= day /\ day <= promos[p].end)
    BY <1>1 DEF Covering
  <2>3. shown = {}
    BY <2>2 DEF Intervals
  <2> QED
    BY <2>1, <2>3
<1>2. CASE Covering(model, day) # {}
  <2>1. found \in Covering(model, day) /\ found # None
    BY <1>2, FoundCovers
  <2> HIDE DEF found
  <2>2. found \in Active(model) /\ promos[found].start <= day /\ day <= promos[found].end
    BY <2>1 DEF Covering
  <2>3. [start |-> promos[found].start, end |-> promos[found].end] \in shown
    BY <2>2 DEF Intervals
  <2> QED
    BY <2>1, <2>3 DEF found
<1> QED
  BY <1>1, <1>2

\* Whoever asks for the promotion of a vehicle on a day, in its list or by the date, is told of
\* one of the promotions of its model, and active promotions do not overlap unless requests raced.
THEOREM PromotionsAlwaysAgree ==
    ASSUME LastDay \in Nat
    PROVE  Spec => []PromotionsAgree
<1>1. IInv => PromotionsAgree
  BY SearchAgrees DEF IInv, TypeOK, PromotionsAgree
<1> QED
  BY <1>1, IInvariance, PTL
=============================================================================
