-------------------------- MODULE OAuthLoginProofs --------------------------
(***************************************************************************)
(* For any number of processes, any ports and any garbage: the server of a *)
(* login is gone before the exchange, and a token in the file was granted  *)
(* to a login for its own code.                                            *)
(***************************************************************************)
EXTENDS OAuthLogin, TLAPS

(* Where the main thread is, and what there is of the server *)
Sockets ==
  \A p \in Process :
    /\ pc[p] \in {"idle", "bind", "serve"} => thread[p] = "none"
    /\ pc[p] \in {"idle", "bind", "join", "exchange", "save", "ended"} => sock[p] = None
    /\ pc[p] \in {"exchange", "save", "ended"} => thread[p] # "running"

(* A handler runs on a thread of the server *)
Handlers ==
  \A p, c \in Process : request[p][c] \in {"assigning", "assigned"} => thread[p] = "running"

(* A token that is about to be saved, or has been *)
Granted(p) == p \in redeemed /\ authCode[p] = p

Codes ==
  /\ \A p \in Process : pc[p] = "save" => Granted(p)
  /\ token \in Process => pc[token] = "ended" /\ Granted(token)

Inv == TypeOK /\ Sockets /\ Handlers /\ Codes

LEMMA InitInv == Init => Inv
<1> USE LoginAssumption DEF LoginAssumption, Init
<1> SUFFICES ASSUME Init PROVE Inv
  OBVIOUS
<1>1. TypeOK
  <2>1. port \in [Process -> Int]
    OBVIOUS
  <2>2. try \in [Process -> First..Last]
    OBVIOUS
  <2> QED
    BY <2>1, <2>2 DEF TypeOK, Labels
<1>2. Sockets /\ Handlers /\ Codes
  BY DEF Sockets, Handlers, Codes
<1> QED
  BY <1>1, <1>2 DEF Inv

LEMMA NextInv == Inv /\ [Next]_vars => Inv'
<1> USE LoginAssumption DEF LoginAssumption, Inv, Labels, Granted, At, Go, End, server, codes, remote
<1> SUFFICES ASSUME Inv, [Next]_vars PROVE Inv'
  OBVIOUS
<1>1. ASSUME NEW p \in Process, Login(p) PROVE Inv'
  BY <1>1 DEF Login, TypeOK, Sockets, Handlers, Codes
<1>2. ASSUME NEW p \in Process, Logout(p) PROVE Inv'
  <2>1. TypeOK'
    BY <1>2 DEF Logout, TypeOK
  <2>2. Sockets' /\ Handlers'
    BY <1>2 DEF Logout, TypeOK, Sockets, Handlers
  <2>3. Codes'
    BY <1>2 DEF Logout, TypeOK, Codes
  <2> QED
    BY <2>1, <2>2, <2>3
<1>3. ASSUME NEW p \in Process, Use(p) PROVE Inv'
  <2>1. result' \in {[result EXCEPT ![p] = "ok"], [result EXCEPT ![p] = "throw"]}
    BY <1>3 DEF Use
  <2>2. pc' = [pc EXCEPT ![p] = "ended"]
    BY <1>3 DEF Use
  <2> QED
    BY <1>3, <2>1, <2>2 DEF Use, TypeOK, Sockets, Handlers, Codes
<1>4. ASSUME NEW p \in Process, Bind(p) PROVE Inv'
  BY <1>4 DEF Bind, Free, TypeOK, Sockets, Handlers, Codes
<1>5. ASSUME NEW p \in Process, BindFails(p) PROVE Inv'
  BY <1>5 DEF BindFails, Free, TypeOK, Sockets, Handlers, Codes
<1>6. ASSUME NEW p \in Process, NoPort(p) PROVE Inv'
  BY <1>6 DEF NoPort, TypeOK, Sockets, Handlers, Codes
<1>7. ASSUME NEW p \in Process, Serve(p) PROVE Inv'
  BY <1>7 DEF Serve, TypeOK, Sockets, Handlers, Codes
<1>8. ASSUME NEW p \in Process, Poll(p) PROVE Inv'
  BY <1>8 DEF Poll, Visible, Assigning, TypeOK, Sockets, Handlers, Codes
<1>9. ASSUME NEW p \in Process, Stop(p) PROVE Inv'
  BY <1>9 DEF Stop, TypeOK, Sockets, Handlers, Codes
<1>10. ASSUME NEW p \in Process, Join(p) PROVE Inv'
  BY <1>10 DEF Join, TypeOK, Sockets, Handlers, Codes
<1>11. ASSUME NEW p \in Process, Exchange(p) PROVE Inv'
  BY <1>11 DEF Exchange, TypeOK, Sockets, Handlers, Codes
<1>12. ASSUME NEW p \in Process, ExchangeFails(p) PROVE Inv'
  BY <1>12 DEF ExchangeFails, TypeOK, Sockets, Handlers, Codes
<1>13. ASSUME NEW p \in Process, Save(p) PROVE Inv'
  BY <1>13 DEF Save, TypeOK, Sockets, Handlers, Codes
<1>14. ASSUME NEW p \in Process, SaveThrows(p) PROVE Inv'
  BY <1>14 DEF SaveThrows, TypeOK, Sockets, Handlers, Codes
<1>15. ASSUME NEW p \in Process, ServerEnds(p) PROVE Inv'
  BY <1>15 DEF ServerEnds, TypeOK, Sockets, Handlers, Codes
<1>16. ASSUME NEW q \in Process, NEW c \in Process, Handle(q, c) PROVE Inv'
  BY <1>16 DEF Handle, TypeOK, Sockets, Handlers, Codes
<1>17. ASSUME NEW q \in Process, NEW c \in Process, Assigned(q, c) PROVE Inv'
  BY <1>17 DEF Assigned, Outcomes, TypeOK, Sockets, Handlers, Codes
<1>18. ASSUME NEW q \in Process, NEW c \in Process, Answer(q, c) PROVE Inv'
  BY <1>18 DEF Answer, TypeOK, Sockets, Handlers, Codes
<1>19. ASSUME NEW p \in Process, Authorise(p) PROVE Inv'
  <2>1. CASE UNCHANGED request
    BY <1>19, <2>1 DEF Authorise, TypeOK, Sockets, Handlers, Codes
  <2>2. ASSUME NEW q \in Process, request' = [request EXCEPT ![q][p] = "queued"] PROVE Inv'
    BY <1>19, <2>2 DEF Authorise, TypeOK, Sockets, Handlers, Codes
  <2> QED
    BY <1>19, <2>1, <2>2 DEF Authorise
<1>20. ASSUME NEW p \in Process, Deny(p) PROVE Inv'
  BY <1>20 DEF Deny, TypeOK, Sockets, Handlers, Codes
<1>21. ASSUME NEW q \in Process, NEW p \in Process, Reload(q, p) PROVE Inv'
  BY <1>21 DEF Reload, TypeOK, Sockets, Handlers, Codes
<1>22. CASE Revoke
  BY <1>22 DEF Revoke, TypeOK, Sockets, Handlers, Codes
<1>23. CASE UNCHANGED vars
  BY <1>23 DEF vars, TypeOK, Sockets, Handlers, Codes
<1> QED
  BY <1>1, <1>2, <1>3, <1>4, <1>5, <1>6, <1>7, <1>8, <1>9, <1>10, <1>11, <1>12, <1>13, <1>14,
     <1>15, <1>16, <1>17, <1>18, <1>19, <1>20, <1>21, <1>22, <1>23
  DEF Next, Command, Start, Finish, Main, Http, User

(* The inductive invariant. *)
THEOREM LoginInvariance == Spec => []Inv
<1>1. Init => Inv
  BY InitInv
<1>2. Inv /\ [Next]_vars => Inv'
  BY NextInv
<1> QED
  BY <1>1, <1>2, PTL DEF Spec

(* When a login exchanges its code, its server is gone: no handler can still assign
   auth_code, and no browser was cut off while its code was taken. *)
THEOREM ServerStopped == Spec => []ServerGone
<1>1. Inv => ServerGone
  BY DEF Inv, Sockets, Handlers, ServerGone
<1> QED
  BY <1>1, LoginInvariance, PTL

(* Whatever the racing read of auth_code returned, and whichever of the servers at one
   port got a callback: a token in the file was granted to a login for its own code. *)
THEOREM TokensGranted == Spec => []TokenGranted
<1>1. Inv => TokenGranted
  BY DEF Inv, Codes, Granted, TokenGranted
<1> QED
  BY <1>1, LoginInvariance, PTL
=============================================================================
