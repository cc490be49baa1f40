---------------------------- MODULE FreshestQueue ----------------------------
(***************************************************************************)
(* What the buffer of a broker worker promises, without saying how: a      *)
(* bounded first-in-first-out queue whose oldest entry gives way to a new  *)
(* one.  Entries are numbered as they arrive, so that the waiting ones are *)
(* an interval.  Letting an entry in, replacing the oldest and taking one  *)
(* out are single steps.                                                   *)
(*                                                                         *)
(* Connector implements this specification (ImplementsQueue).              *)
(***************************************************************************)
EXTENDS Integers

CONSTANTS
  Worker,  \* one queue for each
  Size     \* how many entries may wait

VARIABLES
  arrived, \* how many entries came
  let,     \* how many of them were let in
  taken,   \* how many were taken out
  lost,    \* how many had to give way
  last,    \* the number of the one taken last, 0 at first
  pressed  \* the newest one came to a full queue

queueVars == <<arrived, let, taken, lost, last, pressed>>

\* The first ones are gone, the others that were let in wait.
Gone(w) == taken[w] + lost[w]
Waiting(w) == (Gone(w) + 1)..let[w]

Init ==
  /\ arrived = [w \in Worker |-> 0] /\ let = [w \in Worker |-> 0]
  /\ taken = [w \in Worker |-> 0] /\ lost = [w \in Worker |-> 0]
  /\ last = [w \in Worker |-> 0]
  /\ pressed = [w \in Worker |-> FALSE]

AtDoor(w) == let[w] < arrived[w]

Arrive(w) ==
  /\ ~AtDoor(w)
  /\ arrived' = [arrived EXCEPT ![w] = @ + 1]
  /\ UNCHANGED <<let, taken, lost, last, pressed>>

FindFull(w) ==
  /\ AtDoor(w) /\ let[w] - Gone(w) = Size[w]
  /\ pressed' = [pressed EXCEPT ![w] = TRUE]
  /\ UNCHANGED <<arrived, let, taken, lost, last>>

Enter(w) ==
  /\ let' = [let EXCEPT ![w] = @ + 1]
  /\ pressed' = [pressed EXCEPT ![w] = FALSE]

LetIn(w) ==
  /\ AtDoor(w) /\ let[w] - Gone(w) < Size[w]
  /\ Enter(w)
  /\ UNCHANGED <<arrived, taken, lost, last>>

\* Only a full queue loses an entry, and only its oldest, to the newest; it may
\* have room again by then.
Replace(w) ==
  /\ AtDoor(w) /\ pressed[w] /\ Waiting(w) # {}
  /\ lost' = [lost EXCEPT ![w] = @ + 1]
  /\ Enter(w)
  /\ UNCHANGED <<arrived, taken, last>>

Take(w) ==
  /\ Waiting(w) # {}
  /\ last' = [last EXCEPT ![w] = Gone(w) + 1]
  /\ taken' = [taken EXCEPT ![w] = @ + 1]
  /\ UNCHANGED <<arrived, let, lost, pressed>>

Next == \E w \in Worker : Arrive(w) \/ FindFull(w) \/ LetIn(w) \/ Replace(w) \/ Take(w)

Spec == Init /\ [][Next]_queueVars
=============================================================================
