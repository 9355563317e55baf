------------------------------ MODULE Requests ------------------------------
(***************************************************************************)
(* Work that arrives more than once: API requests with an idempotency key  *)
(* (withIdempotency) and events from a connector's inbox (durable-events). *)
(* The caller repeats a request whenever its answer was lost, and may      *)
(* reuse a key for another body.                                           *)
(*                                                                         *)
(* A joined key's operation runs in the key's own transaction (trade and   *)
(* core cases); a detached one commits through its own connection before   *)
(* the key's transaction does (parts and transport orders).  A request     *)
(* without a key is simply carried out and has no state here.              *)
(***************************************************************************)
EXTENDS Naturals, Sequences

CONSTANTS
  Key,          \* idempotency keys, already scoped to principal and operation
  Body,         \* request bodies
  Event,        \* connector events, named by connector and external id
  Worker,       \* requests being served
  MaxCrashes,   \* bound on requests that stop or fail half way
  MaxExpiries,  \* bound on keys that pass their 24 hours
  None          \* SQL null

VARIABLES
  mode,      \* how the operation behind a key commits
  keys,      \* idempotency_keys: hash, response and expiry, or None
  serving,   \* the request a worker has open
  effects,   \* bodies whose operation committed under a key, in order
  answers,   \* answers given to callers
  inbox,     \* core_connector_inbox.status
  handled,   \* committed runs of an event's handler
  expiries, crashes

keyVars   == <<mode, keys, effects, answers, expiries>>
inboxVars == <<inbox, handled>>
vars      == <<keyVars, inboxVars, serving, crashes>>

Idle == [step |-> "idle", key |-> None, body |-> None]
InTransaction(k) == \E w \in Worker : serving[w].step \in {"begun", "done"} /\ serving[w].key = k

TypeOK ==
  /\ mode \in [Key -> {"joined", "detached"}]
  /\ keys \in [Key -> {None} \cup [hash : Body, effect : Nat, expired : BOOLEAN]]
  /\ serving \in [Worker -> [step : {"idle", "begun", "done", "handling", "failing"},
                             key : Key \cup Event \cup {None}, body : Body \cup {None}]]
  /\ effects \in [Key -> Seq(Body)]
  /\ answers \subseteq [key : Key, body : Body, effect : Nat]
  /\ inbox \in [Event -> {"absent", "received", "processed", "failed"}] /\ handled \in [Event -> Nat]
  /\ expiries \in 0 .. MaxExpiries /\ crashes \in 0 .. MaxCrashes

Init ==
  /\ mode \in [Key -> {"joined", "detached"}]
  /\ keys = [k \in Key |-> None] /\ serving = [w \in Worker |-> Idle]
  /\ effects = [k \in Key |-> <<>>] /\ answers = {}
  /\ inbox = [e \in Event |-> "absent"] /\ handled = [e \in Event |-> 0]
  /\ expiries = 0 /\ crashes = 0

-----------------------------------------------------------------------------
(* Keyed requests *)

\* The key is known, its 24 hours are not over and it was used for this body.
Answered(k, b) == keys[k] # None /\ ~keys[k].expired /\ keys[k].hash = b

Reused(k, b) == keys[k] # None /\ ~keys[k].expired /\ keys[k].hash # b

Answer(k, b, n) == answers' = answers \cup {[key |-> k, body |-> b, effect |-> n]}

\* Inserting or locking the key waits for any other request that holds it.  A repeated request is
\* answered from the key, a reused key is refused, and the others go on to the operation.
withIdempotency(w, k, b) ==
  /\ serving[w] = Idle /\ ~InTransaction(k)
  /\ \/ /\ Answered(k, b)
        /\ Answer(k, b, keys[k].effect)
        /\ UNCHANGED <<serving, mode, keys, effects, expiries>>
     \/ /\ ~Answered(k, b) /\ ~Reused(k, b)
        /\ serving' = [serving EXCEPT ![w] = [step |-> "begun", key |-> k, body |-> b]]
        /\ UNCHANGED keyVars
  /\ UNCHANGED <<inboxVars, crashes>>

\* A detached operation commits on its own.
CommitDetached(w) ==
  /\ serving[w].step = "begun" /\ mode[serving[w].key] = "detached"
  /\ effects' = [effects EXCEPT ![serving[w].key] = Append(@, serving[w].body)]
  /\ serving' = [serving EXCEPT ![w].step = "done"]
  /\ UNCHANGED <<mode, keys, answers, expiries, inboxVars, crashes>>

\* Seeded fault: the answer is not stored with the key.
StoreKeyBroken(k, b, n) == UNCHANGED keys

StoreKey(k, b, n) == keys' = [keys EXCEPT ![k] = [hash |-> b, effect |-> n, expired |-> FALSE]]

\* The key's transaction: the answer, and a joined operation with it.
CommitKey(w) ==
  LET k == serving[w].key
      b == serving[w].body
  IN /\ \/ serving[w].step = "done" /\ UNCHANGED effects
        \/ /\ serving[w].step = "begun" /\ mode[k] = "joined"
           /\ effects' = [effects EXCEPT ![k] = Append(@, b)]
     /\ StoreKey(k, b, Len(effects'[k])) /\ Answer(k, b, Len(effects'[k]))
     /\ serving' = [serving EXCEPT ![w] = Idle]
     /\ UNCHANGED <<mode, expiries, inboxVars, crashes>>

ExpireKey(k) ==
  /\ keys[k] # None /\ ~keys[k].expired /\ ~InTransaction(k) /\ expiries < MaxExpiries
  /\ keys' = [keys EXCEPT ![k].expired = TRUE]
  /\ expiries' = expiries + 1
  /\ UNCHANGED <<mode, effects, answers, inboxVars, serving, crashes>>

-----------------------------------------------------------------------------
(* The connector inbox *)

\* A second delivery finds the first one's row.
receiveConnectorEvent(e) ==
  /\ inbox[e] = "absent"
  /\ inbox' = [inbox EXCEPT ![e] = "received"]
  /\ UNCHANGED <<keyVars, handled, serving, crashes>>

\* The row is locked; an event that was processed is left alone.
processInboxEvent(w, e) ==
  /\ serving[w] = Idle /\ inbox[e] \in {"received", "failed"}
  /\ ~\E v \in Worker : serving[v].step = "handling" /\ serving[v].key = e
  /\ serving' = [serving EXCEPT ![w] = [step |-> "handling", key |-> e, body |-> None]]
  /\ UNCHANGED <<keyVars, inboxVars, crashes>>

\* The handler's work and the mark commit together.
CommitEvent(w) ==
  /\ serving[w].step = "handling"
  /\ inbox' = [inbox EXCEPT ![serving[w].key] = "processed"]
  /\ handled' = [handled EXCEPT ![serving[w].key] = @ + 1]
  /\ serving' = [serving EXCEPT ![w] = Idle]
  /\ UNCHANGED <<keyVars, crashes>>

\* The handler fails: its work is rolled back, and the lock with it.
RollBackEvent(w) ==
  /\ serving[w].step = "handling" /\ crashes < MaxCrashes
  /\ serving' = [serving EXCEPT ![w].step = "failing"]
  /\ crashes' = crashes + 1
  /\ UNCHANGED <<keyVars, inboxVars>>

\* A statement of its own: by now another worker may have processed the event.
MarkFailed(e) == inbox' = [inbox EXCEPT ![e] = IF @ = "processed" THEN @ ELSE "failed"]

RecordFailure(w) ==
  /\ serving[w].step = "failing"
  /\ MarkFailed(serving[w].key)
  /\ serving' = [serving EXCEPT ![w] = Idle]
  /\ UNCHANGED <<keyVars, handled, crashes>>

\* The process stops or the operation throws: what did not commit is rolled back.
Stop(w) ==
  /\ serving[w] # Idle /\ crashes < MaxCrashes
  /\ serving' = [serving EXCEPT ![w] = Idle]
  /\ crashes' = crashes + 1
  /\ UNCHANGED <<keyVars, inboxVars>>

-----------------------------------------------------------------------------
Next ==
  \/ \E k \in Key : ExpireKey(k) \/ \E w \in Worker, b \in Body : withIdempotency(w, k, b)
  \/ \E e \in Event : receiveConnectorEvent(e) \/ \E w \in Worker : processInboxEvent(w, e)
  \/ \E w \in Worker : \/ CommitDetached(w) \/ CommitKey(w) \/ CommitEvent(w)
                       \/ RollBackEvent(w) \/ RecordFailure(w) \/ Stop(w)

Spec == Init /\ [][Next]_vars

-----------------------------------------------------------------------------
(* Properties *)

\* Repeating a request or an event does not repeat what it does: one effect per key and 24 hours for a
\* joined operation (a detached one may also repeat after each request that stopped half way), and one
\* handling per connector event, marked processed exactly when it was.  Every answer, first or replayed, is
\* that of a committed run of the caller's own body.
OnceEach ==
  /\ \A k \in Key : Len(effects[k]) <= 1 + expiries + (IF mode[k] = "detached" THEN crashes ELSE 0)
  /\ \A a \in answers : a.effect \in DOMAIN effects[a.key] /\ effects[a.key][a.effect] = a.body
  /\ \A e \in Event : handled[e] = IF inbox[e] = "processed" THEN 1 ELSE 0
=============================================================================
