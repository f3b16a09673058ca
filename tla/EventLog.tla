------------------------------ MODULE EventLog ------------------------------
(***************************************************************************)
(* What the runtime event ledger promises (the module comment of           *)
(* core/runtime_events.py: a chained, immutable ledger): for every task a  *)
(* history to which events are added one at a time and from which nothing  *)
(* is ever taken.                                                          *)
(***************************************************************************)
EXTENDS Naturals, Sequences

CONSTANT LogTasks
VARIABLE history

LogInit == history = [k \in LogTasks |-> << >>]

\* an event that no history holds yet is added to the history of its task
AddEvent(k) ==
    /\ Len(history'[k]) = Len(history[k]) + 1
    /\ LET e == history'[k][Len(history[k]) + 1]
       IN /\ e \in Nat
          /\ \A j \in LogTasks : \A i \in DOMAIN history[j] : history[j][i] # e
          /\ history' = [history EXCEPT ![k] = Append(@, e)]

LogNext == \E k \in LogTasks : AddEvent(k)
LogSpec == LogInit /\ [][LogNext]_history
=============================================================================
