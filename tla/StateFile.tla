----------------------------- MODULE StateFile -----------------------------
(***************************************************************************)
(* What session-state.json promises to those who read it: for every        *)
(* session the file is absent, or it holds one complete state.  A session  *)
(* is born attached, and its state moves only along the transition table,  *)
(* one indivisible step at a time; nothing, a crash included, takes a      *)
(* state away.                                                             *)
(***************************************************************************)
EXTENDS SessionStates

CONSTANT Names     \* sessions
VARIABLE value     \* per session: "none" or its state

Init == value = [n \in Names |-> "none"]

Create(n) == /\ value[n] = "none"
             /\ value' = [value EXCEPT ![n] = "DEVICE_ATTACHED"]

Transition(n) == /\ value[n] # "none"
                 /\ \E target \in ALLOWED_TRANSITIONS[value[n]] :
                      value' = [value EXCEPT ![n] = target]

Next == \E n \in Names : Create(n) \/ Transition(n)

Spec == Init /\ [][Next]_value
=============================================================================
