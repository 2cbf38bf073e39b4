----------------------------- MODULE VehicleCache -----------------------------
(***************************************************************************)
(* vehicleCache of MetricsRepository: what a process knows of vehicles and *)
(* their categories.  A widget of the dashboard takes what the cache has   *)
(* and awaits the rest; the answer fills the cache, perhaps over what      *)
(* another widget put there meanwhile, and every entry has a timer that    *)
(* empties it.                                                             *)
(***************************************************************************)
EXTENDS Integers, FiniteSets

CONSTANTS
    Vehicles, Categories,
    Widgets,        \* widgets that may be computed at the same time
    TTL,            \* how long the cache keeps a vehicle
    Wait,           \* how long the database may take
    MaxTime,        \* bound: the time that passes
    MaxMoves        \* bound: how often a vehicle gets another category

VARIABLES
    now,
    category,       \* the category of each vehicle
    left,           \* when each vehicle last left a category
    cache,          \* what is known of each vehicle, or Unknown
    timers,         \* the timeouts that will empty it: [vehicle, due]
    widget,         \* what each widget knows, and the vehicles it waits for
    moves           \* how often a category was changed (bounded by MaxMoves)

\* What the constants may be.
Assumptions == Categories # {} /\ TTL \in Nat \ {0} /\ Wait \in Nat

vars == <<now, category, left, cache, timers, widget, moves>>

Unknown == "unknown"

Idle == [known |-> [v \in Vehicles |-> Unknown], since |-> 0, waiting |-> {}]

Init ==
    /\ now = 0
    /\ category = [v \in Vehicles |-> CHOOSE c \in Categories : TRUE]
    /\ left = [v \in Vehicles |-> 0]
    /\ cache = [v \in Vehicles |-> Unknown]
    /\ timers = {}
    /\ widget = [w \in Widgets |-> Idle]
    /\ moves = 0

\* Time passes; timers that are due fire.
Tick ==
    /\ now < MaxTime
    /\ \A w \in Widgets : widget[w].waiting # {} => now < widget[w].since + Wait
    /\ now' = now + 1
    /\ cache' = [v \in Vehicles |->
                   IF \E t \in timers : t.vehicle = v /\ t.due <= now' THEN Unknown ELSE cache[v]]
    /\ timers' = {t \in timers : t.due > now'}
    /\ UNCHANGED <<category, left, widget, moves>>

\* Staff moves a vehicle to another category; no cache is told.
Recategorise(v, c) ==
    /\ moves < MaxMoves /\ category[v] # c
    /\ category' = [category EXCEPT ![v] = c]
    /\ left' = [left EXCEPT ![v] = now]
    /\ moves' = moves + 1
    /\ UNCHANGED <<now, cache, timers, widget>>

\* The vehicles that have to be read.
Missing(wanted) == {v \in wanted : cache[v] = Unknown}

MutantAfterHit(vehicles) ==
    {IF t.vehicle \in vehicles THEN [t EXCEPT !.due = now + TTL] ELSE t : t \in timers}

\* A vehicle that is found does not live longer for it.
AfterHit(vehicles) == timers

\* getVehiclesBatch up to its await: missing vehicles are read as they are then.
Start(w, wanted) ==
    /\ widget[w].waiting = {}
    /\ widget' = [widget EXCEPT ![w] =
          [known   |-> [v \in Vehicles |-> IF v \in Missing(wanted) THEN category[v]
                                          ELSE IF v \in wanted THEN cache[v] ELSE Unknown],
           since   |-> now,
           waiting |-> Missing(wanted)]]
    /\ timers' = AfterHit(wanted \ Missing(wanted))
    /\ UNCHANGED <<now, category, left, cache, moves>>

MutantTimersFor(vehicles) ==
    {[vehicle |-> v, due |-> now + TTL] : v \in IF timers = {} THEN vehicles ELSE {}}

\* Each vehicle that is put into the cache gets a timer, whether it has one or not.
TimersFor(vehicles) == {[vehicle |-> v, due |-> now + TTL] : v \in vehicles}

\* And from the await on.
Fill(w) ==
    /\ widget[w].waiting # {}
    /\ cache' = [v \in Vehicles |->
                   IF v \in widget[w].waiting THEN widget[w].known[v] ELSE cache[v]]
    /\ timers' = timers \cup TimersFor(widget[w].waiting)
    /\ widget' = [widget EXCEPT ![w].waiting = {}]
    /\ UNCHANGED <<now, category, left, moves>>

Next ==
    \/ Tick
    \/ \E v \in Vehicles, c \in Categories : Recategorise(v, c)
    \/ \E w \in Widgets :
         \/ \E wanted \in (SUBSET Vehicles) \ {{}} : Start(w, wanted)
         \/ Fill(w)

Spec == Init /\ [][Next]_vars

-----------------------------------------------------------------------------
\* What is true of every state (for the proofs of the properties).
Known == Categories \cup {Unknown}

TypeOK ==
    /\ now \in Nat
    /\ category \in [Vehicles -> Categories]
    /\ left \in [Vehicles -> Nat]
    /\ cache \in [Vehicles -> Known]
    /\ timers \in SUBSET [vehicle : Vehicles, due : Int]
    /\ widget \in [Widgets -> [known : [Vehicles -> Known], since : Nat, waiting : SUBSET Vehicles]]

\* The vehicle's cache entry is not its category.
Stale(v) == cache[v] \notin {Unknown, category[v]}

\* A stale entry has a timer that is due in time, counted from when the vehicle was moved.
StaleHasTimer ==
    \A v \in Vehicles : Stale(v) =>
        \E t \in timers : t.vehicle = v /\ t.due > now /\ t.due <= left[v] + Wait + TTL

\* A widget does not wait longer than the database takes, and holds another category than the
\* vehicle's only if that was moved after it was read.
WaitingIsRecent ==
    \A w \in Widgets : \A v \in widget[w].waiting :
        /\ widget[w].since <= now /\ now <= widget[w].since + Wait
        /\ widget[w].known[v] # category[v] => widget[w].since <= left[v]

-----------------------------------------------------------------------------
\* CACHE_TTL, "5 minutos": a category that is not the vehicle's any more is known to the
\* process for no longer than the cache keeps it and the database takes, whatever widgets
\* that fill it overwrite.
StaleForTTL ==
    \A v \in Vehicles :
        cache[v] \notin {Unknown, category[v]} => now - left[v] < TTL + Wait + 1

\* Every entry of the cache will be emptied: it has a timer that is due in time.
EntriesExpire ==
    \A v \in Vehicles :
        cache[v] # Unknown =>
            \E t \in timers : t.vehicle = v /\ t.due > now /\ t.due <= now + TTL

\* Both: what the cache has goes in time.
CacheExpires ==
    /\ StaleForTTL
    /\ EntriesExpire
=============================================================================
