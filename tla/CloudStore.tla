----------------------------- MODULE CloudStore -----------------------------
(***************************************************************************)
(* What the rest of the program is promised of one object in the cloud: a  *)
(* call is applied to it atomically, once, several times or not at all,    *)
(* between its invocation and its return; a result is the outcome of the   *)
(* last application, and anything else is an exception.                    *)
(***************************************************************************)
CONSTANTS
  Caller,   \* threads that call the cloud
  Value,    \* contents of the object
  Missing   \* the object is not there

VARIABLES
  stored,   \* the object
  call,     \* call[c]: the operation a caller has invoked, or "none"
  value,    \* value[c]: what a put wants to store
  outcome,  \* outcome[c]: of the last application of the current call
  result    \* result[c]: what the last call returned

vars == <<stored, call, value, outcome, result>>

Ops == {"put", "remove", "exists", "get"}

Invoke(c, op, v) ==
  /\ call[c] = "none"
  /\ call' = [call EXCEPT ![c] = op]
  /\ value' = [value EXCEPT ![c] = v]
  /\ outcome' = [outcome EXCEPT ![c] = "none"]
  /\ result' = [result EXCEPT ![c] = "none"]
  /\ UNCHANGED stored

After(c) == CASE call[c] = "put"    -> value[c]
              [] call[c] = "remove" -> Missing
              [] OTHER              -> stored

OutcomeOf(c) == CASE call[c] = "put" -> "ok"
                  [] call[c] = "get" -> stored
                  [] OTHER           -> IF stored = Missing THEN "false" ELSE "true"

Apply(c) ==
  /\ call[c] # "none"
  /\ stored' = After(c)
  /\ outcome' = [outcome EXCEPT ![c] = OutcomeOf(c)]
  /\ UNCHANGED <<call, value, result>>

Return(c, r) ==
  /\ call[c] # "none"
  /\ r = "throw" \/ (r # "none" /\ r # Missing /\ r = outcome[c])
  /\ result' = [result EXCEPT ![c] = r]
  /\ call' = [call EXCEPT ![c] = "none"]
  /\ UNCHANGED <<stored, value, outcome>>

Init ==
  /\ stored = Missing
  /\ call = [c \in Caller |-> "none"]
  /\ value = [c \in Caller |-> Missing]
  /\ outcome = [c \in Caller |-> "none"]
  /\ result = [c \in Caller |-> "none"]

Next ==
  \E c \in Caller :
    \/ \E op \in Ops, v \in Value : Invoke(c, op, v)
    \/ Apply(c)
    \/ \E r \in Value \cup {"ok", "true", "false", "throw"} : Return(c, r)

Spec == Init /\ [][Next]_vars
=============================================================================
