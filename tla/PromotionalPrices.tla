-------------------------- MODULE PromotionalPrices --------------------------
(***************************************************************************)
(* Promotional prices of the vehicles of a model.  A request that makes or *)
(* changes one looks for overlapping ones and then writes, in two steps    *)
(* between which other requests run; a request that gives only one of the  *)
(* two dates does not look.                                                *)
(***************************************************************************)
EXTENDS Integers, Sequences, FiniteSets

CONSTANTS
    Models,
    LastDay,        \* the dates are 0..LastDay
    MaxPromos,      \* bound: promotions that are made
    MaxRequests,    \* bound: requests that run at a time
    MaxUpdates      \* bound: updates

VARIABLES
    promos,         \* a sequence of Promo, in the order of their creation
    requests,       \* those that have looked and not yet written
    updates,        \* (bounded by MaxUpdates)
    raced,          \* pairs of which one was checked before the other was written
    loose           \* those whose last change gave one date only

vars == <<promos, requests, updates, raced, loose>>

Dates == 0..LastDay

Promo(model, start, end) ==
    [model |-> model, start |-> start, end |-> end, active |-> TRUE, deleted |-> FALSE]

Ids == 1..MaxPromos

None == 0

Init ==
    /\ promos = <<>>
    /\ requests = {}
    /\ updates = 0
    /\ raced = {}
    /\ loose = {}

-----------------------------------------------------------------------------
\* The schema's hooks hide those that are deleted.
Live == {p \in DOMAIN promos : ~promos[p].deleted}

\* findAll({model, isActive: true})
Active(model) == {p \in Live : promos[p].active /\ promos[p].model = model}

MutantOverlaps(start, end, p) == promos[p].start <= start /\ start < promos[p].end

\* Intervals that only touch do not overlap.
Overlaps(start, end, p) == start < promos[p].end /\ end > promos[p].start

Clashes(id, model, start, end) ==
    \E p \in Active(model) \ {id} : Overlaps(start, end, p)

Running(request) ==
    /\ Cardinality(requests) < MaxRequests
    /\ requests' = requests \cup {request}

\* create, until the existing ones have been read
CheckCreate(model, start, end) ==
    /\ start < end
    /\ ~Clashes(None, model, start, end)
    /\ Running([id |-> None, model |-> model, start |-> start, end |-> end,
                active |-> TRUE, unseen |-> {}])
    /\ UNCHANGED <<promos, updates, raced, loose>>

\* update, until the existing ones have been read; None: a date that is not given.  Both are
\* checked together or not at all.  (An update without a model is refused by the database.)
CheckUpdate(id, model, start, end, active) ==
    /\ id \in Live /\ updates < MaxUpdates
    /\ updates' = updates + 1
    /\ start # -1 /\ end # -1 => start < end /\ ~Clashes(id, model, start, end)
    /\ Running([id |-> id, model |-> model, start |-> start, end |-> end,
                active |-> active, unseen |-> {}])
    /\ UNCHANGED <<promos, raced, loose>>

\* What is written now was not seen by the others that have looked already.
Written(r, id) ==
    /\ requests' = {[o EXCEPT !.unseen = @ \cup {id}] : o \in requests \ {r}}
    /\ raced' = {pair \in raced : id \notin pair} \cup {{id, p} : p \in r.unseen}
    /\ loose' = IF r.start # -1 /\ r.end # -1 THEN loose \ {id} ELSE loose \cup {id}

WriteNew(r) ==
    /\ r.id = None /\ Len(promos) < MaxPromos
    /\ promos' = Append(promos, Promo(r.model, r.start, r.end))
    /\ Written(r, Len(promos'))
    /\ UNCHANGED updates

\* Dates that are not given stay; an update that does not say so makes it active again.
Changed(r) ==
    [promos[r.id] EXCEPT !.model = r.model, !.active = r.active,
                         !.start = IF r.start = -1 THEN @ ELSE r.start,
                         !.end = IF r.end = -1 THEN @ ELSE r.end]

WriteUpdate(r) ==
    /\ r.id # None
    /\ IF r.id \in Live
       THEN promos' = [promos EXCEPT ![r.id] = Changed(r)] /\ Written(r, r.id)
       ELSE requests' = requests \ {r} /\ UNCHANGED <<promos, raced, loose>>
    /\ UNCHANGED updates

Delete(id) ==
    /\ id \in Live
    /\ promos' = [promos EXCEPT ![id].deleted = TRUE]
    /\ UNCHANGED <<requests, updates, raced, loose>>

-----------------------------------------------------------------------------
(***************************************************************************)
(* Readers.                                                                *)
(***************************************************************************)

Covering(model, day) ==
    {p \in Active(model) : promos[p].start <= day /\ day <= promos[p].end}

\* findByModelAndDate: the one that was made last, or None.
Found(model, day) ==
    LET S == Covering(model, day)
    IN  IF S = {} THEN None ELSE CHOOSE p \in S : \A q \in S : q <= p

MutantIntervals(model) ==
    {[start |-> promos[p].start, end |-> promos[p].end] : p \in {q \in Live : promos[q].model = model}}

\* enrichVehiclesWithPromotions: the intervals that are shown with each vehicle of the model.
Intervals(model) == {[start |-> promos[p].start, end |-> promos[p].end] : p \in Active(model)}

Next ==
    \/ \E model \in Models, start, end \in Dates : CheckCreate(model, start, end)
    \/ \E id \in DOMAIN promos, model \in Models, start, end \in Dates \cup {-1}, active \in BOOLEAN :
          CheckUpdate(id, model, start, end, active)
    \/ \E r \in requests : WriteNew(r) \/ WriteUpdate(r)
    \/ \E id \in DOMAIN promos : Delete(id)

Spec == Init /\ [][Next]_vars

-----------------------------------------------------------------------------
(***************************************************************************)
(* Properties.                                                             *)
(***************************************************************************)

\* "Date range overlaps with an existing promotional price for this model": whatever is made,
\* moved, given to another model, deactivated, reactivated and deleted, two active promotions
\* of a model overlap only if the requests that wrote them ran at the same time, or one was
\* last changed with a single date.
PromotionsDisjoint ==
    \A model \in Models : \A p, q \in Active(model) :
        p # q /\ {p, q} \notin raced /\ loose \cap {p, q} = {} =>
            promos[p].end <= promos[q].start \/ promos[q].end <= promos[p].start

\* A vehicle's list of promotional intervals and the search by date agree, for every day:
\* a day is found exactly if it is shown, and what is found is one of the intervals shown.
SearchAgreesWithList ==
    \A model \in Models, day \in Dates :
        LET shown == {i \in Intervals(model) : i.start <= day /\ day <= i.end}
            found == Found(model, day)
        IN  IF found = None THEN shown = {}
            ELSE [start |-> promos[found].start, end |-> promos[found].end] \in shown

\* Both: a vehicle and a day have one promotion, the same for everybody who asks.
PromotionsAgree ==
    /\ PromotionsDisjoint
    /\ SearchAgreesWithList
=============================================================================
