------------------------------ MODULE BoardView ------------------------------
(***************************************************************************)
(* What an attached browser promises about the board it shows: nothing, or *)
(* a state the board it was asked for really had, never an earlier one     *)
(* than it has shown since it last showed nothing.  Sockets, sequence      *)
(* numbers and reconnects are CoordinatorBridge's business.                *)
(***************************************************************************)
EXTENDS Naturals, Sequences

CONSTANTS
  Boards,    \* a board is a coordinator and a name
  Runtimes,  \* the runtimes of a board whose state is shown
  None

VARIABLES
  view,      \* the board the browser was asked to open
  changes,   \* changes[b]: the runtime each change of board b was made to
  shown      \* what the browser shows: None or [board, state]

vars == <<view, changes, shown>>

\* The state of a runtime is the number of the last change made to it.
Latest(S) == IF S = {} THEN 0 ELSE CHOOSE n \in S : \A m \in S : m <= n
StateOf(history) ==
  [r \in Runtimes |-> Latest({n \in DOMAIN history : history[n] = r})]
Upto(history, n) == SubSeq(history, 1, n)
Age(state) == Latest({state[r] : r \in Runtimes})

Init ==
  /\ view = None
  /\ changes = [b \in Boards |-> << >>]
  /\ shown = None

Change(b, r) ==
  /\ changes' = [changes EXCEPT ![b] = Append(@, r)]
  /\ UNCHANGED <<view, shown>>

Switch(b) ==
  /\ view' = b
  /\ shown' = None
  /\ UNCHANGED changes

Forget ==
  /\ shown' = None
  /\ UNCHANGED <<view, changes>>

Show(n) ==
  /\ view # None
  /\ n <= Len(changes[view])
  /\ shown # None => Age(shown.state) <= n
  /\ shown' = [board |-> view, state |-> StateOf(Upto(changes[view], n))]
  /\ UNCHANGED <<view, changes>>

Next ==
  \/ \E b \in Boards : \E r \in Runtimes : Change(b, r)
  \/ \E b \in Boards \cup {None} : Switch(b)
  \/ Forget
  \/ view # None /\ \E n \in 0..Len(changes[view]) : Show(n)

Spec == Init /\ [][Next]_vars
=============================================================================
