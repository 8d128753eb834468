-------------------------------- MODULE Pace --------------------------------
(***************************************************************************)
(* The clock every paced native loop follows (driver/src/native/pace.rs):  *)
(* the loop does a tic's work, asks the clock how long to rest, sleeps     *)
(* that long, and lets the tic go.                                         *)
(***************************************************************************)
EXTENDS Naturals

CONSTANTS
    Period,      \* TIC
    Work,        \* how long a tic's own work may take
    Overshoot,   \* how much longer than asked a sleep may take
    StartTimes,  \* what the clock may read when the loop starts it
    MaxTics      \* bound: tics a run makes

ASSUME PaceConstants ==
    /\ Period \in Nat \ {0} /\ MaxTics \in Nat
    /\ Work \subseteq Nat /\ Overshoot \subseteq Nat /\ StartTimes \subseteq Nat

VARIABLES
    now,         \* the caller's clock; between two tics, when the last was let go
    deadline,    \* Pace.deadline
    late,        \* Pace.late
    slow,        \* tics whose own work took longer than a period
    tics,
    called, called2,  \* the last two calls of wait_for_next, Pace::start before them
    last2, last3      \* when the two tics before the last were let go

vars == <<now, deadline, late, slow, tics, called, called2, last2, last3>>

Larger(a, b) == IF a > b THEN a ELSE b

\* Duration::saturating_sub.
Rest(at) == IF deadline > at THEN deadline - at ELSE 0

\* A deadline that owes the periods an overrun used up.
OwedDeadline(at) == deadline + Period

\* The deadline moves on one period and is never left in the past.
NextDeadline(at) == Larger(deadline + Period, at)

\* Pace::start: the first tic is due one period from now.
Init ==
    /\ now \in StartTimes
    /\ deadline = now + Period
    /\ late = 0 /\ slow = 0 /\ tics = 0
    /\ called = now /\ called2 = now /\ last2 = now /\ last3 = now

\* One turn of the loop: the work, wait_for_next, the sleep.
Tic ==
    /\ tics < MaxTics
    /\ \E w \in Work, o \in Overshoot :
          /\ called' = now + w
          /\ now' = now + w + Rest(now + w) + o
          /\ deadline' = NextDeadline(now + w)
          /\ late' = IF now + w > deadline THEN late + 1 ELSE late
          /\ slow' = IF w > Period THEN slow + 1 ELSE slow
    /\ tics' = tics + 1
    /\ called2' = called /\ last2' = now /\ last3' = last2

Next == Tic

Spec == Init /\ [][Next]_vars

-----------------------------------------------------------------------------
\* Instants and counts of wait_for_next are natural numbers.
TypeOK ==
    /\ now \in Nat /\ deadline \in Nat /\ late \in Nat /\ slow \in Nat /\ tics \in Nat
    /\ called \in Nat /\ called2 \in Nat /\ last2 \in Nat /\ last3 \in Nat

\* The deadline wait_for_next leaves is not behind the moment it was called,
\* however late the call, and is a whole period after the call before it:
\* no overrun is carried over as periods owed (pace.rs:45).
DeadlineAhead == deadline >= called /\ deadline >= called2 + Period

\* pace.rs: "there is never a catch-up burst".  However far a tic overran and
\* however long the sleeps overshot, any four tics in a row take a period.
NoCatchUpBurst == [][now' >= last3 + Period]_vars

\* pace.rs: "a slow one costs its own lateness and nothing more".  No more
\* tics are counted late than took longer than a period.
SlowTicCostsItself == late <= slow

=============================================================================
