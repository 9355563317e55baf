------------------------------- MODULE Channel -------------------------------
(***************************************************************************)
(* What a queue of outgoing work promises whoever posts an item: it is     *)
(* attempted, handed over any number of times, and reported done only      *)
(* when it was handed over.  A final queue never takes its report back;    *)
(* the other queues may reopen a reported item.  Delivery implements this. *)
(***************************************************************************)
EXTENDS Naturals

CONSTANT Item

VARIABLES
  final,    \* whether the item's queue keeps its reports
  status,   \* what the queue reports of the item
  got       \* copies handed over

vars == <<final, status, got>>

Init ==
  /\ final \in [Item -> BOOLEAN]
  /\ status = [i \in Item |-> "absent"] /\ got = [i \in Item |-> 0]

Post(i) ==
  /\ status[i] = "absent"
  /\ status' = [status EXCEPT ![i] = "open"]
  /\ UNCHANGED <<final, got>>

\* A copy reaches the other side; a late copy may follow a report.
HandOver(i) ==
  /\ status[i] # "absent"
  /\ got' = [got EXCEPT ![i] = @ + 1]
  /\ UNCHANGED <<final, status>>

\* The report follows a copy, or is committed together with one.
Report(i) ==
  /\ status[i] = "open" \/ (status[i] = "dead" /\ ~final[i])
  /\ status' = [status EXCEPT ![i] = "done"]
  /\ got' = got \/ got' = [got EXCEPT ![i] = @ + 1]
  /\ got'[i] > 0
  /\ UNCHANGED final

GiveUp(i) ==
  /\ status[i] = "open" \/ (status[i] = "done" /\ ~final[i])
  /\ status' = [status EXCEPT ![i] = "dead"]
  /\ UNCHANGED <<final, got>>

Reopen(i) ==
  /\ status[i] \in {"done", "dead"} /\ ~final[i]
  /\ status' = [status EXCEPT ![i] = "open"]
  /\ UNCHANGED <<final, got>>

Next == \E i \in Item : Post(i) \/ HandOver(i) \/ Report(i) \/ GiveUp(i) \/ Reopen(i)

Spec == Init /\ [][Next]_vars
=============================================================================
