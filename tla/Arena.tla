-------------------------------- MODULE Arena --------------------------------
(***************************************************************************)
(* What an allocator of a row of cells promises to the program: the blocks *)
(* it hands out lie in the row and never overlap, a block stays held until *)
(* it is given back, and a request is refused only when no gap between the *)
(* held blocks is large enough.                                            *)
(***************************************************************************)
EXTENDS Integers

CONSTANTS
  First, Last,   \* the cells are First .. Last
  Lengths        \* lengths the program asks for

VARIABLES
  held,    \* [at |-> first cell, len |-> cells] of the blocks in use
  refused  \* the length of the request just refused, or 0

vars == <<held, refused>>

Cells(b) == b.at .. b.at + b.len - 1

\* Can a block of n cells be placed somewhere?
Fits(n) ==
  \E a \in First .. Last - n + 1 :
    \A b \in held : Cells(b) \cap (a .. a + n - 1) = {}

Init == held = {} /\ refused = 0

Grant(n) ==
  /\ refused' = 0
  /\ \E a \in First .. Last - n + 1 :
       /\ \A b \in held : Cells(b) \cap (a .. a + n - 1) = {}
       /\ held' = held \cup {[at |-> a, len |-> n]}

Refuse(n) == ~Fits(n) /\ refused' = n /\ UNCHANGED held

GiveBack(b) == held' = held \ {b} /\ refused' = 0

\* A release of something that is not held changes nothing.
Ignore == refused' = 0 /\ UNCHANGED held

\* Everything is given back at once.
Clear == held' = {} /\ refused' = 0

Next ==
  \/ \E n \in Lengths : Grant(n) \/ Refuse(n)
  \/ \E b \in held : GiveBack(b)
  \/ Ignore
  \/ Clear

Spec == Init /\ [][Next]_vars
=============================================================================
