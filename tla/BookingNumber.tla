---------------------------- MODULE BookingNumber ----------------------------
(***************************************************************************)
(* How a booking gets its number: the pre-save hook of the booking schema  *)
(* reads the greatest number in the collection and takes the next one, and *)
(* the unique index on bookingNumber decides at the insert.  Reading and   *)
(* inserting are two round trips to MongoDB, and the serverless instances  *)
(* of the backend run them concurrently.                                   *)
(***************************************************************************)
EXTENDS Integers, FiniteSetsExt

CONSTANTS
    Saves,     \* the calls of schema.save() on a new booking
    Existing   \* the numbers the collection holds when the model starts

\* The number of the first booking of the numbered series.
FirstNumber == 7300

\* What findOne().sort({bookingNumber: -1}) relies on: a set of numbers that is
\* not empty has a greatest one.
HasGreatest(numbers) ==
    numbers = {} \/ \E m \in numbers : \A n \in numbers : n <= m

(***************************************************************************)
(* Numbers below the series are possible (bookings of before the series);  *)
(* those of the series were handed out by this very code, so they start    *)
(* the series without a gap.                                               *)
(***************************************************************************)
ASSUME ExistingAssumption ==
    /\ Existing \subseteq Nat
    /\ HasGreatest(Existing)
    /\ \A n \in Existing : \A k \in FirstNumber .. n : k \in Existing

VARIABLES
    taken,    \* the bookingNumbers in the collection
    number,   \* the number each save has put on its document
    phase     \* where each save is

numberVars == <<taken, number, phase>>

NoNumber == -1

\* Mutant of NextNumber: the maximum counts only when above 7300, so the second
\* booking of the series is given the number of the first, for ever.
MutantNextNumberStrict(numbers) ==
    IF \E n \in numbers : n > FirstNumber
      THEN Max(numbers) + 1
      ELSE FirstNumber

\* Mutant of NextNumber: numbers are drawn two apart.
MutantNextNumberSkips(numbers) ==
    IF \E n \in numbers : n >= FirstNumber
      THEN Max(numbers) + 2
      ELSE FirstNumber

(***************************************************************************)
(* The number the hook computes from the collection it has read.           *)
(***************************************************************************)
NextNumber(numbers) ==
    IF \E n \in numbers : n >= FirstNumber
      THEN Max(numbers) + 1
      ELSE FirstNumber

NumberInit ==
    /\ taken = Existing
    /\ number = [s \in Saves |-> NoNumber]
    /\ phase = [s \in Saves |-> "new"]

\* Mutant of AssignNumber: the document leaves the hook without its number.
MutantAssignNothing(s) ==
    /\ phase[s] = "new"
    /\ phase' = [phase EXCEPT ![s] = "numbered"]
    /\ UNCHANGED <<taken, number>>

\* The pre-save hook: findOne().sort({bookingNumber: -1}), then the assignment.
AssignNumber(s) ==
    /\ phase[s] = "new"
    /\ number' = [number EXCEPT ![s] = NextNumber(taken)]
    /\ phase' = [phase EXCEPT ![s] = "numbered"]
    /\ UNCHANGED taken

\* Mutant of Insert: no unique index.
MutantInsertNoIndex(s) ==
    /\ phase[s] = "numbered"
    /\ taken' = taken \cup {number[s]}
    /\ phase' = [phase EXCEPT ![s] = "saved"]
    /\ UNCHANGED number

\* The insert, when the unique index accepts the number.
Insert(s) ==
    /\ phase[s] = "numbered"
    /\ number[s] \notin taken
    /\ taken' = taken \cup {number[s]}
    /\ phase' = [phase EXCEPT ![s] = "saved"]
    /\ UNCHANGED number

\* The insert, when another save took the number first: a duplicate-key error
\* that the repository does not catch, so the request fails.
DuplicateKey(s) ==
    /\ phase[s] = "numbered"
    /\ number[s] \in taken
    /\ phase' = [phase EXCEPT ![s] = "failed"]
    /\ UNCHANGED <<taken, number>>

\* The client repeats a failed request: a new document, without a number.
Resubmit(s) ==
    /\ phase[s] = "failed"
    /\ number' = [number EXCEPT ![s] = NoNumber]
    /\ phase' = [phase EXCEPT ![s] = "new"]
    /\ UNCHANGED taken

NumberNext ==
    \E s \in Saves : AssignNumber(s) \/ Insert(s) \/ DuplicateKey(s) \/ Resubmit(s)

NumberSpec == NumberInit /\ [][NumberNext]_numberVars

\* The server goes on with a save it has started; nobody has to repeat a failed one.
Fairness ==
    \A s \in Saves : WF_numberVars(AssignNumber(s) \/ Insert(s) \/ DuplicateKey(s))

FairNumberSpec == NumberSpec /\ Fairness

-----------------------------------------------------------------------------
\* Types, and the relation between a save's phase and its number.
NumberTypeOK ==
    /\ taken \subseteq Nat
    /\ number \in [Saves -> Nat \cup {NoNumber}]
    /\ phase \in [Saves -> {"new", "numbered", "saved", "failed"}]
    /\ \A s \in Saves : phase[s] # "new" => number[s] \in Nat

\* Two bookings that were both saved carry different numbers, whatever the saves
\* read of each other.
DistinctNumbers ==
    \A s, t \in Saves :
        s # t /\ phase[s] = "saved" /\ phase[t] = "saved" => number[s] # number[t]

\* The series has no gap: a save that read an old maximum either takes the next
\* number after the present one or is refused, never a number further on.
NoGap ==
    \A n \in taken : \A k \in FirstNumber .. n : k \in taken

\* A save is refused only because another one was inserted since it read the
\* maximum: contention never makes every concurrent booking fail.
FailureMeansProgress ==
    [][\A s \in Saves : DuplicateKey(s) =>
          \E t \in Saves \ {s} : phase[t] = "saved" /\ number[t] = number[s]]_numberVars

\* However the saves interleave, one of them gets its booking into the collection,
\* with no client repeating anything.
SomeSaveSucceeds == <>(\E s \in Saves : phase[s] = "saved")
=============================================================================
