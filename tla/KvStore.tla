------------------------------ MODULE KvStore ------------------------------
(***************************************************************************)
(* What one connection to a key-value server promises to the caller of     *)
(* kv_set and kv_get (the interface in Ex4/kv_client.c): calls are made    *)
(* one at a time, each takes effect at one moment between its call and its *)
(* return, and a get answers with what the last set of its key stored.     *)
(* The answer for a key that was never set is left open.  The connection   *)
(* may break, at any moment and for good; nothing is promised after that.  *)
(***************************************************************************)
CONSTANTS Keys, Values, NULL, Answers

VARIABLES store, call, phase, answer, up

storeVars == <<store, call, phase, answer, up>>

Calls == [name : {"set"}, key : Keys, value : Values]
         \cup [name : {"get"}, key : Keys]
         \cup [name : {"close"}]

Init ==
  /\ store = [k \in Keys |-> NULL]
  /\ call = NULL
  /\ phase = "idle"
  /\ answer = NULL
  /\ up = TRUE

Begin(c) ==
  /\ up /\ phase = "idle"
  /\ call' = c
  /\ phase' = "called"
  /\ UNCHANGED <<store, answer, up>>

ApplySet ==
  /\ up /\ phase = "called" /\ call.name = "set"
  /\ store' = [store EXCEPT ![call.key] = call.value]
  /\ phase' = "done"
  /\ UNCHANGED <<call, answer, up>>

ApplyGet ==
  /\ up /\ phase = "called" /\ call.name = "get"
  /\ IF store[call.key] # NULL THEN answer' = store[call.key]
                               ELSE answer' \in Answers
  /\ phase' = "done"
  /\ UNCHANGED <<store, call, up>>

Return ==
  /\ up /\ phase = "done"
  /\ call' = NULL
  /\ phase' = "idle"
  /\ answer' = NULL
  /\ UNCHANGED <<store, up>>

\* The connection is closed, or it fails.
Break ==
  /\ up /\ up' = FALSE
  /\ store' = [k \in Keys |-> NULL]
  /\ call' = NULL
  /\ phase' = "idle"
  /\ answer' = NULL

Next ==
  \/ \E c \in Calls : Begin(c)
  \/ ApplySet
  \/ ApplyGet
  \/ Return
  \/ Break

Spec == Init /\ [][Next]_storeVars
=============================================================================
