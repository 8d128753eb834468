---------------------------- MODULE PaceProofs ------------------------------
(***************************************************************************)
(* The tic clock never lets a burst through, for every period, every work  *)
(* time and every oversleep.                                               *)
(***************************************************************************)
EXTENDS Pace, TLAPS

\* A tic's call comes after the tic before it was let go.
CallsFollowReleases == called >= last2 /\ called2 >= last3

\* The deadline Pace keeps, its type, and the order of calls and releases: the
\* invariant the other results stand on.
Inv == TypeOK /\ DeadlineAhead /\ CallsFollowReleases

\* Resting until the deadline and then some lets a tic go no earlier than
\* the deadline (wait_for_next's saturating_sub).
LEMMA RestReachesDeadline ==
    ASSUME NEW c \in Nat, deadline \in Nat
    PROVE  /\ Rest(c) \in Nat
           /\ c + Rest(c) >= deadline
BY DEF Rest

\* wait_for_next leaves a deadline that is not in the past and is a period on.
LEMMA NextDeadlineMoves ==
    ASSUME NEW c \in Nat, deadline \in Nat
    PROVE  /\ NextDeadline(c) \in Nat
           /\ NextDeadline(c) >= c
           /\ NextDeadline(c) >= deadline + Period
BY PaceConstants DEF NextDeadline, Larger

\* Pace::start establishes the deadline invariant.
LEMMA InitInv == Init => Inv
BY PaceConstants DEF Init, Inv, TypeOK, DeadlineAhead, CallsFollowReleases

\* One turn of a paced loop keeps it, and lets its tic go a period after the
\* tic three before it.
LEMMA TicStep ==
    ASSUME Inv, Tic
    PROVE  Inv' /\ now' >= last3 + Period
<1>1. PICK w \in Work, o \in Overshoot :
          /\ called' = now + w
          /\ now' = now + w + Rest(now + w) + o
          /\ deadline' = NextDeadline(now + w)
          /\ late' = IF now + w > deadline THEN late + 1 ELSE late
          /\ slow' = IF w > Period THEN slow + 1 ELSE slow
  BY DEF Tic
<1>2. w \in Nat /\ o \in Nat /\ now + w \in Nat
  BY PaceConstants DEF Inv, TypeOK
<1>3. /\ Rest(now + w) \in Nat
      /\ now + w + Rest(now + w) >= deadline
  BY <1>2, RestReachesDeadline DEF Inv, TypeOK
<1>4. /\ NextDeadline(now + w) \in Nat
      /\ NextDeadline(now + w) >= now + w
      /\ NextDeadline(now + w) >= deadline + Period
  BY <1>2, NextDeadlineMoves DEF Inv, TypeOK
<1>5. called2' = called /\ last2' = now /\ last3' = last2 /\ tics' = tics + 1
  BY DEF Tic
<1>6. TypeOK'
  BY <1>1, <1>2, <1>3, <1>4, <1>5 DEF Inv, TypeOK
<1>7. DeadlineAhead'
  BY <1>1, <1>2, <1>4, <1>5, PaceConstants DEF Inv, TypeOK, DeadlineAhead
<1>8. CallsFollowReleases'
  BY <1>1, <1>2, <1>5 DEF Inv, TypeOK, CallsFollowReleases
<1>9. now' >= last3 + Period
  BY <1>1, <1>2, <1>3, PaceConstants DEF Inv, TypeOK, DeadlineAhead, CallsFollowReleases
<1> QED
  BY <1>6, <1>7, <1>8, <1>9 DEF Inv

\* Inv holds throughout every paced run.
LEMMA AlwaysInv == Spec => []Inv
<1>1. Inv /\ [Next]_vars => Inv'
  <2>1. ASSUME Inv, Tic PROVE Inv'
    BY <2>1, TicStep
  <2>2. ASSUME Inv, UNCHANGED vars PROVE Inv'
    BY <2>2 DEF Inv, TypeOK, DeadlineAhead, CallsFollowReleases, vars
  <2> QED
    BY <2>1, <2>2 DEF Next
<1> QED
  BY <1>1, InitInv, PTL DEF Spec

\* After every call of wait_for_next the deadline is at or after that call,
\* and a period after the call before it.
THEOREM DeadlineStaysAhead == Spec => []DeadlineAhead
<1>1. Inv => DeadlineAhead
  BY DEF Inv
<1> QED
  BY <1>1, AlwaysInv, PTL

\* No paced run ever lets four tics go within one period (pace.rs: "there is
\* never a catch-up burst").
THEOREM PaceNeverBursts == Spec => NoCatchUpBurst
<1>1. Inv /\ [Next]_vars => [now' >= last3 + Period]_vars
  BY TicStep DEF Next
<1> QED
  BY <1>1, AlwaysInv, PTL DEF Spec, NoCatchUpBurst

=============================================================================
