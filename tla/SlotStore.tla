------------------------------ MODULE SlotStore ------------------------------
(***************************************************************************)
(* What the flash save manager promises to the program: a store with one   *)
(* file per slot that survives power cuts, and calls that take effect      *)
(* completely or not at all, and completely when they report success.      *)
(***************************************************************************)
CONSTANTS
  Slots,   \* the save slots
  Files,   \* contents a slot can be given
  NoFile   \* a slot without data

VARIABLES
  store,   \* [Slots -> Files \cup {NoFile}], what a restart would find
  up,      \* is the module initialised?
  op       \* the call under way

vars == <<store, up, op>>

NoOp == [kind |-> "none"]
Ops == [kind : {"save"}, slot : Slots, file : Files]
         \cup [kind : {"delete"}, slot : Slots]
         \cup {[kind |-> "clear"]}

Init ==
  /\ store = [s \in Slots |-> NoFile]
  /\ up = FALSE
  /\ op = NoOp

\* The effect of a call on the store.
Apply(o, st) ==
  CASE o.kind = "save" -> [st EXCEPT ![o.slot] = o.file]
    [] o.kind = "delete" -> [st EXCEPT ![o.slot] = NoFile]
    [] o.kind = "clear" -> [s \in Slots |-> NoFile]

Call == up /\ op = NoOp /\ op' \in Ops /\ UNCHANGED <<store, up>>

\* The one point where a call takes effect.
Commit == op # NoOp /\ store' = Apply(op, store) /\ UNCHANGED <<up, op>>

\* A call returns success only when it has taken effect.
Return ==
  /\ op # NoOp /\ store = Apply(op, store)
  /\ op' = NoOp
  /\ UNCHANGED <<store, up>>

\* A power cut, a reported error and sm_deinit end the call, done or not, and
\* take nothing from the store.
Interrupt == up' = FALSE /\ op' = NoOp /\ UNCHANGED store

Start == op = NoOp /\ up' = TRUE /\ UNCHANGED <<store, op>>

Next == Call \/ Commit \/ Return \/ Interrupt \/ Start

Spec == Init /\ [][Next]_vars
=============================================================================
