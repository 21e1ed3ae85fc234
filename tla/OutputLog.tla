------------------------------ MODULE OutputLog ------------------------------
(***************************************************************************)
(* What the user of a workspace is promised of the output of a tool: at    *)
(* any time the status shows the beginning of what each stream holds, more *)
(* and more of it; and when it is over, all of it, for good, unless the    *)
(* context ended or the last update failed.  OutputStream implements this. *)
(***************************************************************************)
EXTENDS Naturals

CONSTANTS
  Streams,
  Amounts    \* how much each stream may hold: functions on Streams

VARIABLES
  written,   \* what the tool has written to each stream
  shown,     \* what the status shows of it
  broken,    \* whether the context has ended or the last update failed
  over       \* whether the handler has gone on

vars == <<written, shown, broken, over>>

Nothing == [s \in Streams |-> 0]

Init == written = Nothing /\ shown = Nothing /\ ~broken /\ ~over

Write(s) ==
  /\ ~over
  /\ written' = [written EXCEPT ![s] = @ + 1]
  /\ UNCHANGED <<shown, broken, over>>

Show(a) ==
  /\ ~over
  /\ \A s \in Streams : shown[s] <= a[s] /\ a[s] <= written[s]
  /\ shown' = a /\ broken' \in {broken, FALSE}
  /\ UNCHANGED <<written, over>>

Break ==
  /\ broken'
  /\ UNCHANGED <<written, shown, over>>

Finish ==
  /\ broken \/ shown = written
  /\ over'
  /\ UNCHANGED <<written, shown, broken>>

Next ==
  \/ \E s \in Streams : Write(s)
  \/ \E a \in Amounts : Show(a)
  \/ Break \/ Finish

Spec == Init /\ [][Next]_vars

=============================================================================
