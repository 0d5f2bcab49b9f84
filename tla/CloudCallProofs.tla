-------------------------- MODULE CloudCallProofs ---------------------------
(* Theorems about CloudCall: types, the waits, and the refinement of CloudStore. *)
EXTENDS CloudCall, TLAPS

USE DEF At, Go, Return, Throw, Ops, Statuses, Results, Labels

(* What the service has answered is what it did, until the answer is read; a call is under
   way exactly while its operation is set. *)
AnswerInv ==
  \A c \in Caller :
    /\ pc[c] = "idle" <=> op[c] = "none"
    /\ pc[c] # "idle" => attempt[c] >= 1
    /\ pc[c] = "sleep" => retry[c] >= attempt[c] /\ attempt[c] < MaxAttempts
    /\ pc[c] = "handled" /\ answer[c] = 200 =>
         /\ outcome[c] \notin {"none", Missing}
         /\ op[c] = "put" => outcome[c] = "ok"
    /\ pc[c] = "handled" /\ answer[c] = 409 =>
         /\ op[c] # "put"
         /\ op[c] # "get" => outcome[c] = "false"

CallInv == TypeOK /\ AnswerInv /\ BackedOff

(* The waits of one more attempt *)
LEMMA OneMoreWait ==
  ASSUME NEW a \in Nat, NEW w \in Nat, NEW r \in Nat, a * (a - 1) <= 2 * w, r >= a
  PROVE  (a + 1) * ((a + 1) - 1) <= 2 * (w + r)
<1>1. (a + 1) * ((a + 1) - 1) = a * (a - 1) + 2 * a
  OBVIOUS
<1>2. 2 * (w + r) = 2 * w + 2 * r
  OBVIOUS
<1>3. QED BY <1>1, <1>2

LEMMA InitHolds == Init => CallInv
BY CallAssumption DEF Init, CallInv, TypeOK, AnswerInv, BackedOff

LEMMA TypePreserved == TypeOK /\ AnswerInv /\ [Next]_vars => TypeOK'
<1> SUFFICES ASSUME TypeOK, AnswerInv, [Next]_vars PROVE TypeOK'
  OBVIOUS
<1> USE CallAssumption DEF TypeOK
<1>1. ASSUME NEW c \in Caller, NEW o \in Ops, NEW v \in Value, Invoke(c, o, v) PROVE TypeOK'
  BY <1>1 DEF Invoke
<1>2. ASSUME NEW c \in Caller, Client(c) PROVE TypeOK'
  <2>1. CASE Send(c)
    BY <2>1 DEF Send
  <2>2. CASE PeerClosed(c)
    BY <2>2 DEF PeerClosed
  <2>3. CASE NoResponse(c)
    BY <2>3 DEF NoResponse
  <2>4. QED BY <1>2, <2>1, <2>2, <2>3 DEF Client
<1>3. ASSUME NEW c \in Caller, Service(c) PROVE TypeOK'
  <2>1. CASE Handle(c)
    BY <2>1 DEF Handle, After, OutcomeOf
  <2>2. CASE Refuse(c)
    BY <2>2 DEF Refuse
  <2>3. QED BY <1>3, <2>1, <2>2 DEF Service
<1>4. ASSUME NEW c \in Caller, Reply(c) PROVE TypeOK'
  <2>1. CASE Success(c)
    BY <2>1 DEF Success, AnswerInv
  <2>2. CASE NotFound(c)
    BY <2>2 DEF NotFound
  <2>3. CASE OtherError(c)
    BY <2>3 DEF OtherError
  <2>4. CASE RateLimited(c)
    BY <2>4 DEF RateLimited, AtLeast
  <2>5. CASE Sleep(c)
    BY <2>5 DEF Sleep, AnswerInv
  <2>6. QED BY <1>4, <2>1, <2>2, <2>3, <2>4, <2>5 DEF Reply
<1>5. CASE UNCHANGED vars
  BY <1>5 DEF vars
<1>6. QED BY <1>1, <1>2, <1>3, <1>4, <1>5 DEF Next, Step

LEMMA AnswerPreserved == TypeOK /\ AnswerInv /\ [Next]_vars => AnswerInv'
<1> SUFFICES ASSUME TypeOK, AnswerInv, [Next]_vars PROVE AnswerInv'
  OBVIOUS
<1> USE CallAssumption DEF TypeOK, AnswerInv
<1>1. ASSUME NEW c \in Caller, NEW o \in Ops, NEW v \in Value, Invoke(c, o, v) PROVE AnswerInv'
  BY <1>1 DEF Invoke
<1>2. ASSUME NEW c \in Caller, Client(c) PROVE AnswerInv'
  BY <1>2 DEF Client, Send, PeerClosed, NoResponse
<1>3. ASSUME NEW c \in Caller, Service(c) PROVE AnswerInv'
  <2>1. CASE Handle(c)
    BY <2>1 DEF Handle, After, OutcomeOf
  <2>2. CASE Refuse(c)
    BY <2>2 DEF Refuse
  <2>3. QED BY <1>3, <2>1, <2>2 DEF Service
<1>4. ASSUME NEW c \in Caller, Reply(c) PROVE AnswerInv'
  <2>1. CASE Success(c)
    BY <2>1 DEF Success
  <2>2. CASE NotFound(c)
    BY <2>2 DEF NotFound
  <2>3. CASE OtherError(c)
    BY <2>3 DEF OtherError
  <2>4. CASE RateLimited(c)
    BY <2>4 DEF RateLimited, AtLeast
  <2>5. CASE Sleep(c)
    BY <2>5 DEF Sleep
  <2>6. QED BY <1>4, <2>1, <2>2, <2>3, <2>4, <2>5 DEF Reply
<1>5. CASE UNCHANGED vars
  BY <1>5 DEF vars
<1>6. QED BY <1>1, <1>2, <1>3, <1>4, <1>5 DEF Next, Step

LEMMA BackoffPreserved == CallInv /\ [Next]_vars => BackedOff'
<1> SUFFICES ASSUME CallInv, [Next]_vars PROVE BackedOff'
  OBVIOUS
<1> USE DEF CallInv
<1>1. ASSUME NEW c \in Caller, NEW o \in Ops, NEW v \in Value, Invoke(c, o, v) PROVE BackedOff'
  BY <1>1 DEF Invoke, TypeOK, BackedOff
<1>2. ASSUME UNCHANGED <<attempt, waited>> PROVE BackedOff'
  BY <1>2 DEF BackedOff
<1>3. ASSUME NEW c \in Caller, Sleep(c) PROVE BackedOff'
  <2> SUFFICES ASSUME NEW d \in Caller
               PROVE  attempt'[d] * (attempt'[d] - 1) <= 2 * waited'[d]
    BY DEF BackedOff
  <2>1. CASE d # c
    BY <1>3, <2>1 DEF Sleep, TypeOK, BackedOff
  <2>2. CASE d = c
    <3>1. attempt[c] \in Nat /\ waited[c] \in Nat /\ retry[c] \in Nat
      BY DEF TypeOK
    <3>2. attempt[c] * (attempt[c] - 1) <= 2 * waited[c] /\ retry[c] >= attempt[c]
      BY <1>3 DEF Sleep, AnswerInv, BackedOff
    <3>3. attempt'[c] = attempt[c] + 1 /\ waited'[c] = waited[c] + retry[c]
      BY <1>3 DEF Sleep, TypeOK
    <3>4. QED BY <2>2, <3>1, <3>2, <3>3, OneMoreWait
  <2>3. QED BY <2>1, <2>2
<1>4. ASSUME NEW c \in Caller, Step(c), ~Sleep(c) PROVE BackedOff'
  BY <1>2, <1>4 DEF Step, Client, Service, Reply, Send, PeerClosed, NoResponse, Handle, Refuse,
                    Success, NotFound, OtherError, RateLimited
<1>5. CASE UNCHANGED vars
  BY <1>2, <1>5 DEF vars
<1>6. QED BY <1>1, <1>3, <1>4, <1>5 DEF Next

THEOREM CallInvariance == Spec => []CallInv
<1>1. CallInv /\ [Next]_vars => CallInv'
  BY TypePreserved, AnswerPreserved, BackoffPreserved DEF CallInv
<1>2. QED BY InitHolds, <1>1, PTL DEF Spec

(* For any callers, contents and retry limit, and whatever the service asks for: the types
   of put's loop, in particular that it never exceeds its attempts. *)
THEOREM CallTypes == Spec => []TypeOK
<1>1. CallInv => TypeOK
  BY DEF CallInv
<1>2. QED BY CallInvariance, <1>1, PTL

(* ... and that its waits add up (dropbox_storage.cpp:264-286). *)
THEOREM NoBurst == Spec => []BackedOff
<1>1. CallInv => BackedOff
  BY DEF CallInv
<1>2. QED BY CallInvariance, <1>1, PTL

----------------------------------------------------------------------------
(* Every step of a call is a step of CloudStore or leaves it alone *)

LEMMA StepSimulated == CallInv /\ [Next]_vars => [Abstract!Next]_Abstract!vars
<1> SUFFICES ASSUME CallInv, [Next]_vars PROVE [Abstract!Next]_Abstract!vars
  OBVIOUS
<1> USE CallAssumption DEF CallInv
<1>1. ASSUME NEW c \in Caller, NEW o \in Ops, NEW v \in Value, Invoke(c, o, v)
      PROVE  Abstract!Next
  <2>1. Abstract!Invoke(c, o, v)
    BY <1>1 DEF Invoke, Abstract!Invoke, AnswerInv
  <2>2. QED BY <2>1 DEF Abstract!Next, Abstract!Ops
<1>2. ASSUME NEW c \in Caller, NEW r \in Value \cup {"ok", "true", "false", "throw"},
             pc[c] # "idle", Return(c, r), r = "throw" \/ r = outcome[c],
             UNCHANGED <<stored, value, outcome>>
      PROVE  Abstract!Next
  <2>1. Abstract!Return(c, r)
    BY <1>2 DEF Abstract!Return, AnswerInv
  <2>2. QED BY <2>1 DEF Abstract!Next
<1>3. ASSUME UNCHANGED <<stored, op, value, outcome, result>> PROVE UNCHANGED Abstract!vars
  BY <1>3 DEF Abstract!vars
<1>4. ASSUME NEW c \in Caller, Client(c) PROVE [Abstract!Next]_Abstract!vars
  <2>1. CASE Send(c) \/ PeerClosed(c)
    BY <1>3, <2>1 DEF Send, PeerClosed
  <2>2. CASE NoResponse(c)
    BY <1>2, <2>2 DEF NoResponse
  <2>3. QED BY <1>4, <2>1, <2>2 DEF Client
<1>5. ASSUME NEW c \in Caller, Handle(c) PROVE Abstract!Next
  <2>1. Abstract!Apply(c)
    BY <1>5 DEF Handle, Abstract!Apply, After, OutcomeOf, Abstract!After, Abstract!OutcomeOf,
                AnswerInv
  <2>2. QED BY <2>1 DEF Abstract!Next
<1>6. ASSUME NEW c \in Caller, Refuse(c) PROVE UNCHANGED Abstract!vars
  BY <1>3, <1>6 DEF Refuse
<1>7. ASSUME NEW c \in Caller, Reply(c) PROVE [Abstract!Next]_Abstract!vars
  <2>0. ASSUME Return(c, "throw"), pc[c] # "idle", UNCHANGED <<stored, value, outcome>>
        PROVE  Abstract!Next
    BY <1>2, <2>0
  <2>1. CASE Success(c)
    <3>1. outcome[c] \in Value \cup {"ok", "true", "false", "throw"}
      BY <2>1 DEF Success, AnswerInv, TypeOK
    <3>2. op[c] = "put" => outcome[c] = "ok"
      BY <2>1 DEF Success, AnswerInv
    <3>3. Return(c, outcome[c]) /\ pc[c] # "idle" /\ UNCHANGED <<stored, value, outcome>>
      <4>1. (IF op[c] = "put" THEN "ok" ELSE outcome[c]) = outcome[c]
        BY <3>2
      <4>2. QED BY <2>1, <4>1 DEF Success
    <3>4. QED BY <1>2, <3>1, <3>3
  <2>2. CASE NotFound(c)
    <3>1. CASE op[c] = "get"
      <4>1. Return(c, "throw") /\ pc[c] # "idle" /\ UNCHANGED <<stored, value, outcome>>
        BY <2>2, <3>1 DEF NotFound
      <4>2. QED BY <2>0, <4>1
    <3>2. CASE op[c] # "get"
      <4>1. Return(c, "false") /\ pc[c] # "idle" /\ UNCHANGED <<stored, value, outcome>>
        BY <2>2, <3>2 DEF NotFound
      <4>2. outcome[c] = "false"
        BY <2>2, <3>2 DEF NotFound, AnswerInv
      <4>3. QED BY <1>2, <4>1, <4>2
    <3>3. QED BY <3>1, <3>2
  <2>3. CASE OtherError(c)
    <3>1. Return(c, "throw") /\ pc[c] # "idle" /\ UNCHANGED <<stored, value, outcome>>
      BY <2>3 DEF OtherError
    <3>2. QED BY <2>0, <3>1
  <2>4. CASE RateLimited(c)
    BY <1>2, <1>3, <2>4 DEF RateLimited
  <2>5. CASE Sleep(c)
    BY <1>3, <2>5 DEF Sleep
  <2>6. QED BY <1>7, <2>1, <2>2, <2>3, <2>4, <2>5 DEF Reply
<1>8. CASE UNCHANGED vars
  BY <1>3, <1>8 DEF vars
<1>9. QED BY <1>1, <1>4, <1>5, <1>6, <1>7, <1>8 DEF Next, Step, Service

(* A call with its lost answers, its repeated request and its retries implements the
   atomic calls the other modules are built on. *)
THEOREM CallsAreAtomic == Spec => ImplementsCloudStore
<1>1. Init => Abstract!Init
  BY DEF Init, Abstract!Init
<1>2. QED BY CallInvariance, StepSimulated, <1>1, PTL
     DEF Spec, ImplementsCloudStore, Abstract!Spec
=============================================================================
