----------------------------- MODULE OAuthLogin -----------------------------
(***************************************************************************)
(* login, logout, and what any other command does with the refresh token.  *)
(*                                                                         *)
(* login searches a port, starts an HTTP server in a thread of its own,    *)
(* shows the user a URL that names the port and polls auth_code, which a   *)
(* handler on an HTTP thread assigns with no synchronisation; it stops and *)
(* joins the server, exchanges the code for a token and writes it to a     *)
(* file.  Several processes of one user may run.  The code Dropbox issues  *)
(* for a process is named by the process: it fits no other code verifier.  *)
(***************************************************************************)
EXTENDS Integers

CONSTANTS
  Process,      \* runs of the program, one command each
  First, Last,  \* the ports: First <= port < Last
  Taken,        \* the sets of ports other programs may use
  Garbage,      \* what the uninitialised member port may hold
  None,         \* no socket, no token, no code
  Torn          \* a code read while it is assigned, a token cut short

ASSUME LoginAssumption ==
  /\ First \in Nat \ {0} /\ Last \in Nat /\ First <= Last
  /\ Taken \subseteq SUBSET Int /\ Garbage \subseteq Int
  /\ None \notin Process \cup Int /\ Torn \notin Process \cup {None}

VARIABLES
  pc, result,
  foreign,    \* the ports other programs use
  try,        \* the loop variable of start
  port,       \* the member
  sock,       \* svr_sock_: the port it listens on
  decommissioned,
  thread,     \* of the server: "none", "running", "done"
  request,    \* request[p][c]: the callback with code c at the server of p
  auth_code,  \* written by the handlers
  authCode,   \* what waitForAuthorizationCode returned
  user,       \* what the user of a login has been asked and has done
  redeemed,   \* codes Dropbox has taken, each for a refresh token
  revoked,    \* refresh tokens Dropbox no longer accepts
  token       \* the token file

server == <<foreign, try, port, sock, decommissioned, thread>>
codes  == <<request, auth_code, authCode>>
remote == <<redeemed, revoked>>
vars   == <<pc, result, server, codes, user, remote, token>>

At(p, label) == pc[p] = label
Go(p, label) == pc' = [pc EXCEPT ![p] = label]
End(p, r)    == Go(p, "ended") /\ result' = [result EXCEPT ![p] = r]

----------------------------------------------------------------------------
(* The commands *)

Login(p) ==
  /\ At(p, "idle")
  /\ IF token # None THEN End(p, "refused") ELSE Go(p, "bind") /\ UNCHANGED result
  /\ UNCHANGED <<server, codes, user, remote, token>>

(* The file, if there is one, is removed; an empty one is no token to the other commands *)
Logout(p) ==
  /\ At(p, "idle")
  /\ \/ End(p, "ok") /\ token' = None
     \/ End(p, "throw") /\ UNCHANGED token
  /\ UNCHANGED <<server, codes, user, remote>>

(* Any other command starts with an access token for the refresh token in the file; the
   request may fail *)
Accepted(t) == t \in redeemed \ revoked

Use(p) ==
  /\ At(p, "idle")
  /\ \/ Accepted(token) /\ End(p, "ok")
     \/ End(p, "throw")
  /\ UNCHANGED <<server, codes, user, remote, token>>

----------------------------------------------------------------------------
(* OAuthCallbackServer *)

(* bind_to_port: a port is shared with the servers of other logins (SO_REUSEPORT) *)
Free(n) == n \notin foreign

Bind(p) ==
  /\ At(p, "bind") /\ try[p] < Last
  /\ Free(try[p]) /\ ~decommissioned[p]
  /\ port' = [port EXCEPT ![p] = try[p]]
  /\ sock' = [sock EXCEPT ![p] = try[p]]
  /\ Go(p, "serve")
  /\ UNCHANGED <<result, foreign, try, decommissioned, thread, codes, user, remote, token>>

(* Mutant: the server stays decommissioned *)
BindFailsForGood(p) ==
  /\ At(p, "bind") /\ try[p] < Last
  /\ ~Free(try[p]) \/ decommissioned[p]
  /\ decommissioned' = [decommissioned EXCEPT ![p] = TRUE]
  /\ try' = [try EXCEPT ![p] = @ + 1]
  /\ UNCHANGED <<pc, result, foreign, port, sock, thread, codes, user, remote, token>>

(* bind_to_port decommissions the server, stop takes that back *)
BindFails(p) ==
  /\ At(p, "bind") /\ try[p] < Last
  /\ ~Free(try[p]) \/ decommissioned[p]
  /\ decommissioned' = [decommissioned EXCEPT ![p] = FALSE]
  /\ try' = [try EXCEPT ![p] = @ + 1]
  /\ UNCHANGED <<pc, result, foreign, port, sock, thread, codes, user, remote, token>>

(* All ports tried: the member still holds what it was constructed with *)
NoPort(p) ==
  /\ At(p, "bind") /\ try[p] >= Last
  /\ IF port[p] <= 0 THEN End(p, "throw") ELSE Go(p, "serve") /\ UNCHANGED result
  /\ UNCHANGED <<server, codes, user, remote, token>>

(* The thread listens, if there is a socket; the user is shown the URL *)
Serve(p) ==
  /\ At(p, "serve")
  /\ thread' = [thread EXCEPT ![p] = IF sock[p] = None THEN "done" ELSE "running"]
  /\ user' = [user EXCEPT ![p] = "asked"]
  /\ Go(p, "wait")
  /\ UNCHANGED <<result, foreign, try, port, sock, decommissioned, codes, remote, token>>

(* The handler of /callback: auth_code = ... is not atomic for the other threads; the
   answer is sent when the handler has returned *)
Handle(q, c) ==
  /\ thread[q] = "running" /\ sock[q] # None
  /\ request[q][c] = "queued"
  /\ request' = [request EXCEPT ![q][c] = "assigning"]
  /\ UNCHANGED <<pc, result, server, auth_code, authCode, user, remote, token>>

Assigning(q) == {c \in Process : request[q][c] = "assigning"}

(* Two assignments at the same time: what they leave may be neither code *)
Outcomes(q, c) ==
  IF Assigning(q) # {c} THEN {Torn} ELSE IF auth_code[q] = Torn THEN {c, Torn} ELSE {c}

Assigned(q, c) ==
  /\ request[q][c] = "assigning"
  /\ \E code \in Outcomes(q, c) : auth_code' = [auth_code EXCEPT ![q] = code]
  /\ request' = [request EXCEPT ![q][c] = "assigned"]
  /\ UNCHANGED <<pc, result, server, authCode, user, remote, token>>

Answer(q, c) ==
  /\ request[q][c] = "assigned"
  /\ request' = [request EXCEPT ![q][c] = "answered"]
  /\ UNCHANGED <<pc, result, server, auth_code, authCode, user, remote, token>>

(* What a racing read may see: the old value, the new one, a mixture *)
Visible(p) ==
  {auth_code[p]} \cup (IF Assigning(p) = {} THEN {} ELSE Assigning(p) \cup {Torn})

Poll(p) ==
  /\ At(p, "wait")
  /\ \E c \in Visible(p) \ {None} : authCode' = [authCode EXCEPT ![p] = c]
  /\ Go(p, "stop")
  /\ UNCHANGED <<result, server, request, auth_code, user, remote, token>>

(* Mutant: the socket stays open *)
StopOnly(p) ==
  /\ At(p, "stop")
  /\ decommissioned' = [decommissioned EXCEPT ![p] = FALSE]
  /\ Go(p, "join")
  /\ UNCHANGED <<result, foreign, try, port, sock, thread, codes, user, remote, token>>

Stop(p) ==
  /\ At(p, "stop")
  /\ sock' = [sock EXCEPT ![p] = None]
  /\ decommissioned' = [decommissioned EXCEPT ![p] = FALSE]
  /\ Go(p, "join")
  /\ UNCHANGED <<result, foreign, try, port, thread, codes, user, remote, token>>

(* Mutant: the server leaves the requests it has accepted *)
ServerEndsAtOnce(p) ==
  /\ thread[p] = "running" /\ sock[p] = None
  /\ thread' = [thread EXCEPT ![p] = "done"]
  /\ UNCHANGED <<pc, result, foreign, try, port, sock, decommissioned, codes, user, remote, token>>

(* listen_internal leaves its loop and finishes the requests it has accepted *)
ServerEnds(p) ==
  /\ thread[p] = "running" /\ sock[p] = None
  /\ \A c \in Process : request[p][c] \notin {"assigning", "assigned"}
  /\ thread' = [thread EXCEPT ![p] = "done"]
  /\ UNCHANGED <<pc, result, foreign, try, port, sock, decommissioned, codes, user, remote, token>>

Join(p) ==
  /\ At(p, "join")
  /\ thread[p] = "done"
  /\ Go(p, "exchange")
  /\ UNCHANGED <<result, server, codes, user, remote, token>>

----------------------------------------------------------------------------
(* Exchange and token file *)

(* Mutant: the status of the answer is not looked at *)
ExchangeUnchecked(p) ==
  /\ At(p, "exchange")
  /\ redeemed' \in {redeemed, redeemed \cup {p}}
  /\ Go(p, "save")
  /\ UNCHANGED <<result, server, codes, user, revoked, token>>

Exchange(p) ==
  /\ At(p, "exchange")
  /\ authCode[p] = p /\ p \notin redeemed
  /\ redeemed' = redeemed \cup {p}
  /\ Go(p, "save")
  /\ UNCHANGED <<result, server, codes, user, revoked, token>>

(* Another code, a code used before, no answer, or one without a token *)
ExchangeFails(p) ==
  /\ At(p, "exchange")
  /\ redeemed' \in {redeemed, redeemed \cup ({p} \cap {authCode[p]})}
  /\ End(p, "throw")
  /\ UNCHANGED <<server, codes, user, revoked, token>>

(* saveRefreshToken reports neither a file it cannot open nor a write that fails *)
Save(p) ==
  /\ At(p, "save")
  /\ token' \in {p, token, None, Torn}
  /\ End(p, "ok")
  /\ UNCHANGED <<server, codes, user, remote>>

SaveThrows(p) ==
  /\ At(p, "save")
  /\ End(p, "throw")
  /\ UNCHANGED <<server, codes, user, remote, token>>

----------------------------------------------------------------------------
(* The user, the browser and Dropbox: the user agrees, and the browser is sent to the port
   of the URL, to one of the servers there *)

Authorise(p) ==
  /\ user[p] = "asked"
  /\ user' = [user EXCEPT ![p] = "agreed"]
  /\ IF \E q \in Process : sock[q] = port[p]
     THEN \E q \in Process : /\ sock[q] = port[p]
                             /\ request' = [request EXCEPT ![q][p] = "queued"]
     ELSE UNCHANGED request
  /\ UNCHANGED <<pc, result, server, auth_code, authCode, remote, token>>

(* The callback carries no code: the handler answers, and that is all *)
Deny(p) ==
  /\ user[p] = "asked"
  /\ user' = [user EXCEPT ![p] = "denied"]
  /\ UNCHANGED <<pc, result, server, codes, remote, token>>

(* The page is loaded again *)
Reload(q, p) ==
  /\ request[q][p] = "answered"
  /\ user[p] = "agreed"
  /\ sock[q] = port[p]
  /\ user' = [user EXCEPT ![p] = "reloaded"]
  /\ request' = [request EXCEPT ![q][p] = "queued"]
  /\ UNCHANGED <<pc, result, server, auth_code, authCode, remote, token>>

Revoke ==
  /\ revoked # redeemed
  /\ revoked' = redeemed
  /\ UNCHANGED <<pc, result, server, codes, user, redeemed, token>>

----------------------------------------------------------------------------
Init ==
  /\ pc = [p \in Process |-> "idle"]
  /\ result = [p \in Process |-> "none"]
  /\ foreign \in Taken
  /\ try = [p \in Process |-> First]
  /\ port \in [Process -> Garbage]
  /\ sock = [p \in Process |-> None]
  /\ decommissioned = [p \in Process |-> FALSE]
  /\ thread = [p \in Process |-> "none"]
  /\ request = [p \in Process |-> [c \in Process |-> "none"]]
  /\ auth_code = [p \in Process |-> None]
  /\ authCode = [p \in Process |-> None]
  /\ user = [p \in Process |-> "none"]
  /\ redeemed = {} /\ revoked = {}
  /\ token = None

Command(p) == Login(p) \/ Logout(p) \/ Use(p)
Start(p)   == Bind(p) \/ BindFails(p) \/ NoPort(p) \/ Serve(p)
Finish(p)  == Poll(p) \/ Stop(p) \/ Join(p) \/ Exchange(p) \/ ExchangeFails(p)
              \/ Save(p) \/ SaveThrows(p)
Main(p)    == Start(p) \/ Finish(p)
Http(p)    == ServerEnds(p) \/ \E c \in Process : Handle(p, c) \/ Assigned(p, c) \/ Answer(p, c)
User(p)    == Authorise(p) \/ Deny(p) \/ \E q \in Process : Reload(q, p)

Next == (\E p \in Process : Command(p) \/ Main(p) \/ Http(p) \/ User(p)) \/ Revoke

Spec == Init /\ [][Next]_vars

(* The threads run, calls return.  Nothing makes the user answer, or a user who agreed
   answer differently. *)
FairSpec == Spec /\ \A p \in Process : WF_vars(Main(p)) /\ WF_vars(Http(p))

----------------------------------------------------------------------------
(* Properties *)

Labels == {"idle", "bind", "serve", "wait", "stop", "join", "exchange", "save", "ended"}

(* The types of the variables. *)
TypeOK ==
  /\ pc \in [Process -> Labels]
  /\ result \in [Process -> {"none", "ok", "refused", "throw"}]
  /\ foreign \in Taken
  /\ try \in [Process -> First..Last] /\ port \in [Process -> Int]
  /\ sock \in [Process -> (First..(Last - 1)) \cup {None}]
  /\ decommissioned \in [Process -> BOOLEAN]
  /\ thread \in [Process -> {"none", "running", "done"}]
  /\ request \in [Process -> [Process -> {"none", "queued", "assigning", "assigned", "answered"}]]
  /\ auth_code \in [Process -> Process \cup {None, Torn}]
  /\ authCode \in [Process -> Process \cup {None, Torn}]
  /\ user \in [Process -> {"none", "asked", "agreed", "denied", "reloaded"}]
  /\ redeemed \subseteq Process /\ revoked \subseteq redeemed
  /\ token \in Process \cup {None, Torn}

(* From the exchange on, the server of a login is gone: no thread that could still assign
   auth_code, no socket, and no browser that was cut off while its code was taken. *)
ServerGone ==
  \A p \in Process : pc[p] \in {"exchange", "save", "ended"} =>
    /\ sock[p] = None /\ thread[p] # "running"
    /\ \A c \in Process : request[p][c] \notin {"assigning", "assigned"}

(* A token in the file was granted to a login that got its own code, read as a whole: a
   racing read of auth_code, or the code of another login at a shared port, ends in an error
   and never in a file. *)
TokenGranted ==
  token \in Process => token \in redeemed /\ authCode[token] = token

(* A login that has got a code ends, whatever became of its browser. *)
CodeEndsLogin == \A p \in Process : (auth_code[p] # None) ~> (pc[p] = "ended")

(* Some port of the range is free for p, and no other server ever shares its port *)
HasPort(p) ==
  /\ \E n \in First..(Last - 1) : n \notin foreign
  /\ [](\A q \in Process \ {p} : sock[q] = None \/ sock[q] # sock[p])

(* A user who agrees brings the login to its end, past the ports that are in use: unless
   none was free, or the callback may reach the server of another login at the same port. *)
AgreedEndsLogin ==
  \A p \in Process : HasPort(p) => ((user[p] = "agreed") ~> (pc[p] = "ended"))
=============================================================================
