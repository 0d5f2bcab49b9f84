----------------------------- MODULE CloudCall ------------------------------
(***************************************************************************)
(* One call of DropboxStorage, request by request, on one object that      *)
(* several threads and processes use.                                      *)
(*                                                                         *)
(* The HTTP client writes a request; the service handles it at some time   *)
(* and answers; the answer arrives, or the connection breaks before or     *)
(* after the service has handled it.  When the peer has closed the TLS     *)
(* connection, the client sends the request once more, without a look at   *)
(* what the first one did.  put repeats itself on HTTP 429, with a wait    *)
(* read from a field of the answer that may not be there.                  *)
(***************************************************************************)
EXTENDS Integers

CONSTANTS
  Caller,       \* threads that call the cloud
  Value,        \* contents of the object
  Missing,      \* the object is not there
  MaxAttempts,  \* max_attempts of put
  RetryAfter,   \* the integers the service may answer as retry_after
  Leftover,     \* what the uninitialised retry may hold
  MaxCalls      \* bound: calls

ASSUME CallAssumption ==
  /\ MaxAttempts \in Nat \ {0}
  /\ RetryAfter \subseteq Int /\ Leftover \subseteq Int
  /\ MaxCalls \in Nat
  /\ Missing \notin Value
  /\ Value \cap {"none", "ok", "true", "false", "throw"} = {}
  /\ Missing \notin {"none", "ok", "true", "false", "throw"}

VARIABLES
  stored,   \* the object, in the cloud
  op,       \* op[c]: the operation of the call, or "none"
  value,    \* value[c]: what put stores
  pc,       \* where the call is
  attempt,  \* put's counter
  resent,   \* the client has already sent this request again
  answer,   \* the status the service answered with
  outcome,  \* ghost: what the service did when it last handled a request of this call
  retry,    \* the wait put has computed
  waited,   \* ghost: seconds put has slept
  result,
  calls

vars == <<stored, op, value, pc, attempt, resent, answer, outcome, retry, waited, result,
          calls>>

Ops == {"put", "remove", "exists", "get"}

At(c, label) == pc[c] = label
Go(c, label) == pc' = [pc EXCEPT ![c] = label]

(* The call returns r, or throws *)
Return(c, r) ==
  /\ Go(c, "idle")
  /\ op' = [op EXCEPT ![c] = "none"]
  /\ result' = [result EXCEPT ![c] = r]
Throw(c) == Return(c, "throw")

Invoke(c, o, v) ==
  /\ At(c, "idle")
  /\ calls < MaxCalls
  /\ calls' = calls + 1
  /\ op' = [op EXCEPT ![c] = o]
  /\ value' = [value EXCEPT ![c] = v]
  /\ result' = [result EXCEPT ![c] = "none"]
  /\ outcome' = [outcome EXCEPT ![c] = "none"]
  /\ attempt' = [attempt EXCEPT ![c] = 1]
  /\ waited' = [waited EXCEPT ![c] = 0]
  /\ resent' = [resent EXCEPT ![c] = FALSE]
  /\ Go(c, "send")
  /\ UNCHANGED <<stored, answer, retry>>

----------------------------------------------------------------------------
(* The HTTP client: no response is a null result, which every operation turns into a throw *)

Send(c) ==
  /\ At(c, "send")
  /\ Go(c, "sent")
  /\ UNCHANGED <<stored, op, value, attempt, resent, answer, outcome, retry, waited, result, calls>>

(* Mutant: the client sends the request again as long as the peer closes the connection *)
PeerClosedAgain(c) ==
  /\ pc[c] \in {"sent", "handled"}
  /\ resent' = [resent EXCEPT ![c] = TRUE]
  /\ Go(c, "send")
  /\ UNCHANGED <<stored, op, value, attempt, answer, outcome, retry, waited, result, calls>>

(* The peer closed the connection after the request was written: once more *)
PeerClosed(c) ==
  /\ pc[c] \in {"sent", "handled"}
  /\ ~resent[c]
  /\ resent' = [resent EXCEPT ![c] = TRUE]
  /\ Go(c, "send")
  /\ UNCHANGED <<stored, op, value, attempt, answer, outcome, retry, waited, result, calls>>

(* No connection, a read that fails or times out, a peer that closed twice *)
NoResponse(c) ==
  /\ pc[c] \in {"send", "sent", "handled"}
  /\ Throw(c)
  /\ UNCHANGED <<stored, value, attempt, resent, answer, outcome, retry, waited, calls>>

----------------------------------------------------------------------------
(* The service *)

After(c) == CASE op[c] = "put"    -> value[c]
              [] op[c] = "remove" -> Missing
              [] OTHER            -> stored

OutcomeOf(c) == CASE op[c] = "put" -> "ok"
                  [] op[c] = "get" -> stored
                  [] OTHER         -> IF stored = Missing THEN "false" ELSE "true"

Handle(c) ==
  /\ At(c, "sent")
  /\ stored' = After(c)
  /\ outcome' = [outcome EXCEPT ![c] = OutcomeOf(c)]
  /\ answer' = [answer EXCEPT ![c] = IF op[c] # "put" /\ stored = Missing THEN 409 ELSE 200]
  /\ Go(c, "handled")
  /\ UNCHANGED <<op, value, attempt, resent, retry, waited, result, calls>>

(* Too many requests, or any other error: nothing is changed *)
Refuse(c) ==
  /\ At(c, "sent")
  /\ \E status \in {429, 500} : answer' = [answer EXCEPT ![c] = status]
  /\ Go(c, "handled")
  /\ UNCHANGED <<stored, op, value, attempt, resent, outcome, retry, waited, result, calls>>

----------------------------------------------------------------------------
(* What the operations make of an answer *)

(* Mutant: only a missing object is looked for *)
SuccessUnlessMissing(c) ==
  /\ At(c, "handled")
  /\ answer[c] # 409
  /\ Return(c, IF op[c] = "put" THEN "ok" ELSE outcome[c])
  /\ UNCHANGED <<stored, value, attempt, resent, answer, outcome, retry, waited, calls>>

(* 200 is success; get takes the contents from the body of the answer *)
Success(c) ==
  /\ At(c, "handled")
  /\ answer[c] = 200
  /\ Return(c, IF op[c] = "put" THEN "ok" ELSE outcome[c])
  /\ UNCHANGED <<stored, value, attempt, resent, answer, outcome, retry, waited, calls>>

(* remove and exists answer 409 with false *)
NotFound(c) ==
  /\ At(c, "handled")
  /\ answer[c] = 409
  /\ Return(c, IF op[c] = "get" THEN "throw" ELSE "false")
  /\ UNCHANGED <<stored, value, attempt, resent, answer, outcome, retry, waited, calls>>

(* An error that is not handled; for put also a 429 whose body is not the JSON it expects *)
OtherError(c) ==
  /\ At(c, "handled")
  /\ answer[c] \in {429, 500}
  /\ Throw(c)
  /\ UNCHANGED <<stored, value, attempt, resent, answer, outcome, retry, waited, calls>>

AtLeast(a, b) == IF a < b THEN b ELSE a

(* Mutant: the wait is what the answer says *)
RateLimitedTrusting(c) ==
  /\ At(c, "handled")
  /\ answer[c] = 429
  /\ op[c] = "put"
  /\ \E r \in {1} \cup RetryAfter \cup Leftover :
       retry' = [retry EXCEPT ![c] = AtLeast(r, 1)]
  /\ IF attempt[c] >= MaxAttempts THEN Throw(c) ELSE Go(c, "sleep") /\ UNCHANGED <<op, result>>
  /\ UNCHANGED <<stored, value, attempt, resent, answer, outcome, waited, calls>>

(* Mutant: one attempt too many *)
RateLimitedOnceMore(c) ==
  /\ At(c, "handled")
  /\ answer[c] = 429
  /\ op[c] = "put"
  /\ \E r \in {1} \cup RetryAfter \cup Leftover :
       retry' = [retry EXCEPT ![c] = AtLeast(AtLeast(r, 1), attempt[c])]
  /\ IF attempt[c] > MaxAttempts THEN Throw(c) ELSE Go(c, "sleep") /\ UNCHANGED <<op, result>>
  /\ UNCHANGED <<stored, value, attempt, resent, answer, outcome, waited, calls>>

(* 429 in put.  retry is 1 if the body has no error object, what the object says if it
   says it, and uninitialised if it does not; then it is made positive and at least the
   number of the attempt. *)
RateLimited(c) ==
  /\ At(c, "handled")
  /\ answer[c] = 429
  /\ op[c] = "put"
  /\ \E r \in {1} \cup RetryAfter \cup Leftover :
       retry' = [retry EXCEPT ![c] = AtLeast(AtLeast(r, 1), attempt[c])]
  /\ IF attempt[c] >= MaxAttempts THEN Throw(c) ELSE Go(c, "sleep") /\ UNCHANGED <<op, result>>
  /\ UNCHANGED <<stored, value, attempt, resent, answer, outcome, waited, calls>>

(* The next attempt is a new request *)
Sleep(c) ==
  /\ At(c, "sleep")
  /\ waited' = [waited EXCEPT ![c] = @ + retry[c]]
  /\ attempt' = [attempt EXCEPT ![c] = @ + 1]
  /\ resent' = [resent EXCEPT ![c] = FALSE]
  /\ Go(c, "send")
  /\ UNCHANGED <<stored, op, value, answer, outcome, retry, result, calls>>

----------------------------------------------------------------------------
Init ==
  /\ stored = Missing
  /\ op = [c \in Caller |-> "none"]
  /\ value = [c \in Caller |-> Missing]
  /\ pc = [c \in Caller |-> "idle"]
  /\ attempt = [c \in Caller |-> 0]
  /\ resent = [c \in Caller |-> FALSE]
  /\ answer = [c \in Caller |-> 0]
  /\ outcome = [c \in Caller |-> "none"]
  /\ retry = [c \in Caller |-> 0]
  /\ waited = [c \in Caller |-> 0]
  /\ result = [c \in Caller |-> "none"]
  /\ calls = 0

Client(c)  == Send(c) \/ PeerClosed(c) \/ NoResponse(c)
Service(c) == Handle(c) \/ Refuse(c)
Reply(c)   == Success(c) \/ NotFound(c) \/ OtherError(c) \/ RateLimited(c) \/ Sleep(c)
Step(c)    == Client(c) \/ Service(c) \/ Reply(c)

Next == \E c \in Caller : (\E o \in Ops, v \in Value : Invoke(c, o, v)) \/ Step(c)

Spec == Init /\ [][Next]_vars

(* A request is answered or times out, a sleep ends *)
Fairness == \A c \in Caller : WF_vars(Step(c))
FairSpec == Spec /\ Fairness

----------------------------------------------------------------------------
(* Properties *)

Statuses == {0, 200, 409, 429, 500}
Results  == Value \cup {"none", "ok", "true", "false", "throw"}
Labels   == {"idle", "send", "sent", "handled", "sleep"}

(* The types of the variables; put never starts more attempts than it may. *)
TypeOK ==
  /\ stored \in Value \cup {Missing}
  /\ op \in [Caller -> Ops \cup {"none"}]
  /\ value \in [Caller -> Value \cup {Missing}]
  /\ pc \in [Caller -> Labels]
  /\ attempt \in [Caller -> 0..MaxAttempts]
  /\ resent \in [Caller -> BOOLEAN]
  /\ answer \in [Caller -> Statuses]
  /\ outcome \in [Caller -> Results \cup {Missing}]
  /\ retry \in [Caller -> Nat]
  /\ waited \in [Caller -> Nat]
  /\ result \in [Caller -> Results]
  /\ calls \in Nat

(* However the service words its refusals, the n-th request of a put comes after waits
   of 1 + 2 + ... + (n - 1) seconds at least: the retries never become a burst. *)
BackedOff == \A c \in Caller : attempt[c] * (attempt[c] - 1) <= 2 * waited[c]

(* Every call comes to an end: it succeeds, or gives up. *)
CallReturns == \A c \in Caller : (op[c] # "none") ~> (op[c] = "none")

(* With the lost replies, the repeated requests and the retries, a call is what the rest of
   the program takes it for: applied atomically between its invocation and its return,
   with the outcome of its last application as its result. *)
Abstract == INSTANCE CloudStore WITH call <- op
ImplementsCloudStore == Abstract!Spec
=============================================================================
