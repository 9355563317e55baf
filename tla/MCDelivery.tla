----------------------------- MODULE MCDelivery -----------------------------
(***************************************************************************)
(* Delivery and Requests in one run.  The queues and the requests share no *)
(* rows, so `focus' chooses which of the two moves and their state spaces  *)
(* add up instead of multiplying.                                          *)
(***************************************************************************)
EXTENDS Delivery

CONSTANTS Key, Body, Event, MaxExpiries, MaxStops

\* Null is not a row.
ASSUME RequestsConstants == None \notin [hash : Body, effect : Nat, expired : BOOLEAN]

VARIABLES focus, mode, keys, serving, effects, answers, inbox, handled, expiries, stops

R == INSTANCE Requests WITH Worker <- Server, MaxCrashes <- MaxStops, crashes <- stops

requestVars == <<mode, keys, serving, effects, answers, inbox, handled, expiries, stops>>
MCvars == <<vars, focus, requestVars>>

MCInit ==
  /\ focus \in {"queues", "requests"}
  /\ Init /\ R!Init
  /\ focus = "requests" => kind = [i \in Item |-> "outbox"]
  /\ focus = "queues" => mode = [k \in Key |-> "joined"]

MCNext ==
  \/ focus = "queues" /\ Next /\ UNCHANGED <<focus, requestVars>>
  \/ focus = "requests" /\ R!Next /\ UNCHANGED <<focus, vars>>

MCSpec == MCInit /\ [][MCNext]_MCvars /\ Fairness

\* Repeating a request or an event does not repeat what it does (Requests).
OnceEach == R!OnceEach
=============================================================================
