------------------------------ MODULE WebSession ------------------------------
(***************************************************************************)
(* The session of the web client in one browser tab: the requests of its   *)
(* pages, the silent refresh that a refused request asks for, and the      *)
(* sign-in with its second factor.  The refresh token rides a cookie and   *)
(* is replaced by every refresh (the old one is dead at once), so requests *)
(* refused together must share one refresh.  Every request goes through    *)
(* the same interceptor, the ones that sign in or out or change the        *)
(* password included.                                                      *)
(***************************************************************************)
EXTENDS Naturals, FiniteSets

CONSTANTS Calls,         \* requests that may be under way together
          TokenCount     \* bound: refresh tokens to tell apart

(* There are more tokens than the browser can hold at once: the server draws *)
(* them at random and never the same one twice.                              *)
ASSUME SessionAssumption ==
  /\ IsFiniteSet(Calls)
  /\ TokenCount \in Nat /\ TokenCount > Cardinality(Calls) + 2

VARIABLES
  liveTokens,   \* server: refresh tokens of its sessions
  cookie,       \* browser: the refresh token, 0 when there is none
  status,       \* session store: "unknown", "authenticated" or "anonymous"
  mfaTicket,    \* session store: the sign-in waits for its second factor
  access,       \* the access token in memory: "none", "valid" or "expired"
  call,         \* per request: its kind, state, what it carries and the refresh it waits for
  flight        \* per caller: the refresh that it started

sessionVars == <<liveTokens, cookie, status, mfaTicket, access, call, flight>>

Tokens == 1..TokenCount
Bootstrap == "bootstrap"
Callers == Calls \cup {Bootstrap}

Kind == {"data", "password", "login", "mfa", "logout"}
SigningIn == {"login", "mfa"}

NoCall == [kind |-> "data", st |-> "none", access |-> "none", retried |-> FALSE, token |-> 0,
           joined |-> Bootstrap]
NoFlight == [st |-> "none", token |-> 0, old |-> FALSE, fault |-> FALSE]

(* The state has its types. *)
SessionTypeOK ==
  /\ liveTokens \subseteq Tokens /\ cookie \in 0..TokenCount
  /\ status \in {"unknown", "authenticated", "anonymous"}
  /\ mfaTicket \in BOOLEAN
  /\ access \in {"none", "valid", "expired"}
  /\ call \in [Calls -> [kind : Kind,
                         st : {"none", "sent", "ok", "factor", "refused", "waiting"},
                         access : {"none", "valid", "expired"}, retried : BOOLEAN,
                         token : 0..TokenCount, joined : Callers]]
  /\ flight \in [Callers -> [st : {"none", "sent", "granted", "rejected"},
                             token : 0..TokenCount, old : BOOLEAN, fault : BOOLEAN]]

-----------------------------------------------------------------------------

(* Tokens that the browser has or is about to be given. *)
Held == {cookie} \cup {flight[f].token : f \in Callers} \cup {call[c].token : c \in Calls}

(* A new token; sessions whose token the browser lost need not be told apart. *)
Fresh == CHOOSE t \in Tokens : t \notin Held
StillHeld == liveTokens \cap Held

SessionInit ==
  /\ cookie \in {0, 1} /\ liveTokens \in SUBSET ({cookie} \ {0})
  /\ status = "unknown" /\ mfaTicket = FALSE /\ access = "none"
  /\ call = [c \in Calls |-> NoCall]
  /\ flight = [f \in Callers |-> IF f = Bootstrap
                                 THEN [NoFlight EXCEPT !.st = "sent", !.token = cookie]
                                 ELSE NoFlight]

(* The store takes a session over: its access token, and no sign-in step. *)
Apply ==
  /\ status' = "authenticated" /\ access' = "valid" /\ mfaTicket' = FALSE

(* The store forgets the session, a half-finished sign-in included. *)
ClearSession ==
  /\ status' = "anonymous" /\ access' = "none" /\ mfaTicket' = FALSE

store == <<status, access, mfaTicket>>

(* Refreshes under way belong to the session before. *)
Aged == [f \in Callers |-> [flight[f] EXCEPT !.old = flight[f].st # "none"]]

(* The user does one thing at a time, a bound for passwords and sign-outs; what *)
(* pages ask for meanwhile is not bound by it.                                  *)
Busy == \E c \in Calls : call[c].kind # "data"

-----------------------------------------------------------------------------
(* The user. *)

(* A page asks for something, or the user signs in or out or changes the password. *)
SendCall(c, kind) ==
  /\ call[c].st = "none"
  /\ kind # "data" => ~Busy
  /\ CASE kind \notin SigningIn -> status = "authenticated"
       [] kind = "login" -> status = "anonymous" /\ ~mfaTicket
       [] kind = "mfa" -> status = "anonymous" /\ mfaTicket
  /\ call' = [call EXCEPT ![c] = [NoCall EXCEPT !.kind = kind, !.st = "sent", !.access = access]]
  /\ UNCHANGED <<liveTokens, cookie, store, flight>>

(* The user goes back from the second factor to the password. *)
CancelMfa ==
  /\ mfaTicket /\ mfaTicket' = FALSE
  /\ UNCHANGED <<liveTokens, cookie, status, access, call, flight>>

(* The user reloads the page: everything but the cookie is gone. *)
Reload ==
  /\ status # "unknown"
  /\ status' = "unknown" /\ access' = "none" /\ mfaTicket' = FALSE
  /\ call' = [c \in Calls |-> NoCall]
  /\ flight' = [f \in Callers |-> IF f = Bootstrap
                                  THEN [NoFlight EXCEPT !.st = "sent", !.token = cookie]
                                  ELSE NoFlight]
  /\ UNCHANGED <<liveTokens, cookie>>

-----------------------------------------------------------------------------
(* The server. *)

(* The answer to request c, with the token that it brings, 0 for none. *)
Answer(c, st, token) ==
  call' = [call EXCEPT ![c].st = st, ![c].token = token, ![c].access = "none"]

(* Signing in starts a session, asks for the second factor or is refused. *)
SignInServed(c) ==
  /\ call[c].kind \in SigningIn
  /\ \/ Answer(c, "ok", Fresh) /\ liveTokens' = StillHeld \cup {Fresh}
     \/ Answer(c, "refused", 0) /\ UNCHANGED liveTokens
     \/ call[c].kind = "login" /\ Answer(c, "factor", 0) /\ UNCHANGED liveTokens

(* A request without a valid access token is refused, and so is one whose    *)
(* user cannot be read or has another role by now, or mistypes his present   *)
(* password.                                                                 *)
Unauthorized(c) ==
  call[c].kind \notin SigningIn /\ Answer(c, "refused", 0) /\ UNCHANGED liveTokens

DataServed(c) == call[c].kind = "data" /\ Answer(c, "ok", 0) /\ UNCHANGED liveTokens

(* A new password ends every session of the user and starts one. *)
PasswordServed(c) ==
  call[c].kind = "password" /\ Answer(c, "ok", Fresh) /\ liveTokens' = {Fresh}

(* Signing out ends every session of the user, unless the store fails. *)
SignOutServed(c) ==
  call[c].kind = "logout" /\ Answer(c, "ok", 0) /\ liveTokens' \in {{}, liveTokens}

CallServed(c) ==
  /\ call[c].st = "sent"
  /\ \/ SignInServed(c) \/ Unauthorized(c)
     \/ /\ call[c].access = "valid"
        /\ DataServed(c) \/ PasswordServed(c) \/ SignOutServed(c)
  /\ UNCHANGED <<cookie, store, flight>>

(* A refresh is served: the token is replaced, or it is of no session.  A    *)
(* store that fails to read the user or to replace the token is answered     *)
(* like a token of no session.  A disabled user has no session left.         *)
RefreshServed(f) ==
  /\ flight[f].st = "sent"
  /\ \/ /\ flight[f].token \in liveTokens
        /\ flight' = [flight EXCEPT ![f].st = "granted", ![f].token = Fresh]
        /\ liveTokens' = (StillHeld \ {flight[f].token}) \cup {Fresh}
     \/ /\ flight[f].token \notin liveTokens
        /\ flight' = [flight EXCEPT ![f].st = "rejected"]
        /\ UNCHANGED liveTokens
     \/ /\ flight[f].token \in liveTokens
        /\ flight' = [flight EXCEPT ![f].st = "rejected", ![f].fault = TRUE]
        /\ UNCHANGED liveTokens
  /\ UNCHANGED <<cookie, store, call>>

(* The access token expires. *)
AccessExpires ==
  /\ access = "valid" /\ access' = "expired"
  /\ UNCHANGED <<liveTokens, cookie, status, mfaTicket, call, flight>>

(* The sessions of the user are ended from elsewhere. *)
SessionsEnd ==
  /\ liveTokens # {} /\ liveTokens' = {}
  /\ UNCHANGED <<cookie, store, call, flight>>

-----------------------------------------------------------------------------
(* The interceptor and the store. *)

(* A request is answered.  The access token that comes with a new password is *)
(* not taken over, the cookie is.                                             *)
CallAnswered(c) ==
  /\ call[c].st \in {"ok", "factor"}
  /\ call' = [call EXCEPT ![c] = NoCall]
  /\ CASE call[c].st = "factor" ->
            mfaTicket' = TRUE /\ UNCHANGED <<cookie, status, access, flight>>
       [] call[c].st = "ok" /\ call[c].kind \in SigningIn ->
            cookie' = call[c].token /\ Apply /\ flight' = Aged
       [] call[c].st = "ok" /\ call[c].kind = "logout" ->
            cookie' = 0 /\ ClearSession /\ flight' = Aged
       [] call[c].st = "ok" /\ call[c].kind = "password" ->
            cookie' = call[c].token /\ flight' = Aged /\ UNCHANGED store
       [] OTHER -> UNCHANGED <<cookie, store, flight>>
  /\ UNCHANGED liveTokens

(* The request fails for its caller; signing out clears the session anyway. *)
Rejects(c) ==
  /\ call' = [call EXCEPT ![c] = NoCall]
  /\ IF call[c].kind = "logout"
     THEN ClearSession /\ flight' = Aged
     ELSE UNCHANGED <<store, flight>>

Flight_Own(c) == c

(* The refresh that a refused request waits for: the one under way, if any. *)
Flight(c) ==
  IF \E f \in Callers : flight[f].st # "none"
  THEN CHOOSE f \in Callers : flight[f].st # "none"
  ELSE c

CallRefused_Again(c) ==
  /\ call[c].st = "refused"
  /\ call' = [call EXCEPT ![c].st = "waiting", ![c].retried = TRUE, ![c].joined = Flight(c)]
  /\ flight' = IF flight[Flight(c)].st # "none" THEN flight
               ELSE [flight EXCEPT ![Flight(c)] = [NoFlight EXCEPT !.st = "sent", !.token = cookie]]
  /\ UNCHANGED store
  /\ UNCHANGED <<liveTokens, cookie>>

(* A refused request asks for a refresh, once, whatever it was refused for. *)
CallRefused(c) ==
  /\ call[c].st = "refused"
  /\ IF call[c].retried
     THEN Rejects(c)
     ELSE /\ call' = [call EXCEPT ![c].st = "waiting", ![c].retried = TRUE, ![c].joined = Flight(c)]
          /\ flight' = IF flight[Flight(c)].st # "none" THEN flight
                       ELSE [flight EXCEPT ![Flight(c)] =
                               [NoFlight EXCEPT !.st = "sent", !.token = cookie]]
          /\ UNCHANGED store
  /\ UNCHANGED <<liveTokens, cookie>>

(* The answer to a request is lost, or the request never arrived. *)
CallLost(c) ==
  /\ call[c].st \in {"sent", "ok", "factor", "refused"}
  /\ Rejects(c)
  /\ UNCHANGED <<liveTokens, cookie>>

(* The requests that wait for refresh f. *)
Waiting(f) == {c \in Calls : call[c].st = "waiting" /\ call[c].joined = f}

(* The refresh succeeded: the waiting requests are sent again. *)
RefreshGranted(f) ==
  /\ flight[f].st = "granted"
  /\ cookie' = flight[f].token /\ Apply
  /\ flight' = [flight EXCEPT ![f] = NoFlight]
  /\ call' = [c \in Calls |-> IF c \in Waiting(f)
                              THEN [call[c] EXCEPT !.st = "sent", !.access = "valid",
                                                      !.joined = Bootstrap]
                              ELSE call[c]]
  /\ UNCHANGED liveTokens

(* The waiting requests fail with the error that they were refused with. *)
WaitersFail(f) ==
  /\ call' = [c \in Calls |-> IF c \in Waiting(f) THEN NoCall ELSE call[c]]
  /\ flight' = [flight EXCEPT ![f] = NoFlight]

(* The refresh was rejected: for the client the session is over. *)
RefreshRejected(f) ==
  /\ flight[f].st = "rejected"
  /\ WaitersFail(f) /\ ClearSession
  /\ UNCHANGED <<liveTokens, cookie>>

(* Any other failure of the refresh keeps the session, but for a sign-out *)
(* that waited for it and a page that has just been loaded.               *)
RefreshLost(f) ==
  /\ flight[f].st # "none"
  /\ WaitersFail(f)
  /\ IF f = Bootstrap \/ \E c \in Waiting(f) : call[c].kind = "logout"
     THEN ClearSession
     ELSE UNCHANGED store
  /\ UNCHANGED <<liveTokens, cookie>>

-----------------------------------------------------------------------------

SessionNext ==
  \/ \E c \in Calls, kind \in Kind : SendCall(c, kind)
  \/ CancelMfa \/ Reload \/ AccessExpires \/ SessionsEnd
  \/ \E c \in Calls : CallServed(c) \/ CallAnswered(c) \/ CallRefused(c) \/ CallLost(c)
  \/ \E f \in Callers : RefreshServed(f) \/ RefreshGranted(f) \/ RefreshRejected(f) \/ RefreshLost(f)

(* What was sent is answered. *)
SessionFairness ==
  /\ \A c \in Calls : WF_sessionVars(CallServed(c) \/ CallAnswered(c) \/ CallRefused(c))
  /\ WF_sessionVars(\E f \in Callers :
                      RefreshServed(f) \/ RefreshGranted(f) \/ RefreshRejected(f))

SessionSpec == SessionInit /\ [][SessionNext]_sessionVars /\ SessionFairness

-----------------------------------------------------------------------------

(* Requests refused together, repeated, or refused again do not use up the   *)
(* session of the browser's cookie: a refresh that signs the user out was of *)
(* a cookie without a session, as after sessions ended elsewhere or an answer *)
(* was lost.  Rotation would reject a second refresh, so they share one      *)
(* (auth.ts:120-141).  Two cases are left out, in which the code does sign   *)
(* out a browser whose cookie is live: the store fails while it serves the   *)
(* refresh (session.go:40-44, 69-72), and a sign-in or a new password        *)
(* replaces the cookie while a refresh of the one before is under way.       *)
NoSpuriousSignOut ==
  [][\A f \in Callers :
       RefreshRejected(f) /\ status = "authenticated" /\ ~flight[f].old /\ ~flight[f].fault
         => cookie \notin liveTokens]_sessionVars

(* Every request comes to an end: a refresh that never lets go of those who *)
(* wait for it, or a request that is refused and repeated for ever, would   *)
(* leave the page busy (axios-instance.ts:67-91).                           *)
EveryCallSettles == \A c \in Calls : []<>(call[c].st = "none")

=============================================================================
