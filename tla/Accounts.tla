------------------------------- MODULE Accounts -------------------------------
(***************************************************************************)
(* One account, its one-time codes in Redis and its refresh tokens:        *)
(* AuthService, OtpService, the registration of a provider, and the admins *)
(* who block and unblock (AdminUsersService).                              *)
(*                                                                         *)
(* A request is a job of a worker, one step per call of the database or of *)
(* Redis that others can get between.  Whether a request brings the right  *)
(* password or code is the client's choice, so is a refusal.               *)
(***************************************************************************)
EXTENDS FiniteSets, Naturals

CONSTANTS
  Clients,     \* requests served at a time
  Codes,       \* the codes generateOtpCode can return
  Seconds,     \* the clock's last second (a bound of the model)
  NoCode,
  MaxCalls     \* requests ever begun (a bound of the model)

ASSUME AccountsAssumption ==
  /\ IsFiniteSet(Clients)
  /\ NoCode \notin Codes
  /\ Seconds \in Nat \ {0} /\ MaxCalls \in Nat

(* signRefreshToken signs who the user is, and jsonwebtoken adds the second *)
(* (iat): for one account the string is the second it was signed in.        *)
Tokens  == 1 .. Seconds
NoToken == 0

VARIABLES
  now,        \* the second it is
  user,       \* the row of User: status, emailVerified, password, or "NONE"
  otp,        \* the code in Redis under the e-mail
  tokens,     \* the rows of RefreshToken
  expired,    \* of them, those past expiresAt
  issued,     \* for each token, how many rows with it were ever created,
  heirs,      \* how many pairs were issued in exchange for it,
  loggedOut,  \* and how many of its rows a logout removed
  call,       \* per client: what its handler remembers
  calls

accountRows == <<now, user, otp, tokens, expired, issued, heirs, loggedOut>>
accountVars == <<accountRows, call, calls>>

UserStatus == {"NONE", "PENDING", "ACTIVE", "SUSPENDED"}
NoUser     == [status |-> "NONE", verified |-> FALSE, password |-> FALSE]
NoCall     == [at |-> "idle", next |-> "idle", token |-> NoToken, signed |-> NoToken]

AccountsInit ==
  /\ now       = 1
  /\ user      = NoUser
  /\ otp       = NoCode
  /\ tokens    = {}
  /\ expired   = {}
  /\ issued    = [t \in Tokens |-> 0]
  /\ heirs     = [t \in Tokens |-> 0]
  /\ loggedOut = [t \in Tokens |-> 0]
  /\ call      = [c \in Clients |-> NoCall]
  /\ calls     = 0

Exists == user.status # "NONE"

(* A handler begins; its next step is "at", and "next" follows it.          *)
Open(c, at, next, t) ==
  /\ call[c] = NoCall
  /\ calls < MaxCalls
  /\ calls' = calls + 1
  /\ call' = [call EXCEPT ![c] = [NoCall EXCEPT !.at = at, !.next = next, !.token = t]]

Step(c, at)   == call' = [call EXCEPT ![c].at = at] /\ calls' = calls
Return(c)     == call' = [call EXCEPT ![c] = NoCall] /\ calls' = calls

(* An error, a crash; also a token that cannot be stored because the table  *)
(* has one that was signed for the account in the same second.              *)
CallFails(c) ==
  /\ call[c] # NoCall
  /\ Return(c)
  /\ UNCHANGED accountRows

-----------------------------------------------------------------------------
(* signup and registerProvider: the row, then a code.  E-mail addresses are *)
(* unique.                                                                  *)
Signup(c) ==
  /\ ~Exists
  /\ user' = [status |-> "PENDING", verified |-> FALSE, password |-> TRUE]
  /\ Open(c, "sendOtp", "idle", NoToken)
  /\ UNCHANGED <<now, otp, tokens, expired, issued, heirs, loggedOut>>

SendOtp(c, code) ==
  /\ call[c].at = "sendOtp"
  /\ otp' = code
  /\ Return(c)
  /\ UNCHANGED <<now, user, tokens, expired, issued, heirs, loggedOut>>

OtpExpires ==
  /\ otp # NoCode
  /\ otp' = NoCode
  /\ UNCHANGED <<now, user, tokens, expired, issued, heirs, loggedOut, call, calls>>

ResendOtp(c) ==
  /\ Exists
  /\ otp' = NoCode
  /\ Open(c, "sendOtp", "idle", NoToken)
  /\ UNCHANGED <<now, user, tokens, expired, issued, heirs, loggedOut>>

RequestReset(c) ==
  /\ Exists
  /\ Open(c, "sendOtp", "idle", NoToken)
  /\ UNCHANGED accountRows

(* OtpService.verifyOtp reads the code, and deletes whatever is there then. *)
ReadOtp(c, purpose) ==
  /\ otp # NoCode
  /\ purpose = "setPassword" => Exists /\ user.password
  /\ Open(c, "deleteOtp", purpose, NoToken)
  /\ UNCHANGED accountRows

DeleteOtp(c) ==
  /\ call[c].at = "deleteOtp"
  /\ otp' = NoCode
  /\ Step(c, call[c].next)
  /\ UNCHANGED <<now, user, tokens, expired, issued, heirs, loggedOut>>

VerifyOtp(c) ==
  /\ call[c].at = "activate"
  /\ Exists
  /\ user' = [user EXCEPT !.verified = TRUE, !.status = "ACTIVE"]
  /\ Step(c, "generateTokens")
  /\ UNCHANGED <<now, otp, tokens, expired, issued, heirs, loggedOut>>

(* confirmReset ends in a session, changePassword does not.                 *)
SetPassword(c) ==
  /\ call[c].at \in {"setPassword", "changePassword"}
  /\ user' = [user EXCEPT !.password = TRUE]
  /\ IF call[c].at = "setPassword" THEN Step(c, "generateTokens") ELSE Return(c)
  /\ UNCHANGED <<now, otp, tokens, expired, issued, heirs, loggedOut>>

ChangePassword(c) ==
  /\ user.password
  /\ Open(c, "changePassword", "idle", NoToken)
  /\ UNCHANGED accountRows

Login(c) ==
  /\ user.password
  /\ user.verified
  /\ user.status # "SUSPENDED"
  /\ Open(c, "generateTokens", "idle", NoToken)
  /\ UNCHANGED accountRows

(* Makes the account if there is none with this e-mail. *)
GoogleLogin(c) ==
  /\ user' = IF Exists THEN user ELSE [status |-> "ACTIVE", verified |-> TRUE, password |-> FALSE]
  /\ Open(c, "generateTokens", "idle", NoToken)
  /\ UNCHANGED <<now, otp, tokens, expired, issued, heirs, loggedOut>>

-----------------------------------------------------------------------------
(* Refresh tokens. *)
SignRefreshToken(c) ==
  /\ call[c].at = "generateTokens"
  /\ call' = [call EXCEPT ![c].at = "storeToken", ![c].signed = now]
  /\ calls' = calls
  /\ UNCHANGED accountRows

(* The column is unique, but a row that is gone does not keep the same      *)
(* string from coming again.                                                *)
GenerateTokens(c) ==
  LET t   == call[c].signed
      old == call[c].token
  IN /\ call[c].at = "storeToken"
     /\ t \notin tokens
     /\ tokens'  = tokens \union {t}
     /\ expired' = expired \ {t}
     /\ issued'  = [issued EXCEPT ![t] = @ + 1]
     /\ heirs'   = IF old = NoToken THEN heirs ELSE [heirs EXCEPT ![old] = @ + 1]
     /\ Return(c)
     /\ UNCHANGED <<now, user, otp, loggedOut>>

RefreshToken(c, t) ==
  /\ t \in tokens
  /\ Open(c, "rotate", IF t \in expired THEN "idle" ELSE "generateTokens", t)
  /\ UNCHANGED accountRows

(* Mutant: a token that is gone already is no error (deleteMany). *)
DeletedAnyway(t) == TRUE

DeletesOne(t) == t \in tokens

(* The old token is deleted by its unique value before a new one is signed; *)
(* of an expired one nothing is made.                                       *)
Rotate(c) ==
  LET t == call[c].token
  IN /\ call[c].at = "rotate"
     /\ DeletesOne(t)
     /\ tokens' = tokens \ {t}
     /\ IF call[c].next = "idle" THEN Return(c) ELSE Step(c, call[c].next)
     /\ UNCHANGED <<now, user, otp, expired, issued, heirs, loggedOut>>

Logout(t) ==
  /\ tokens'    = tokens \ {t}
  /\ loggedOut' = IF t \in tokens THEN [loggedOut EXCEPT ![t] = @ + 1] ELSE loggedOut
  /\ UNCHANGED <<now, user, otp, expired, issued, heirs, call, calls>>

TokenExpires(t) ==
  /\ t \in tokens \ expired
  /\ t < now
  /\ expired' = expired \union {t}
  /\ UNCHANGED <<now, user, otp, tokens, issued, heirs, loggedOut, call, calls>>

Tick ==
  /\ now < Seconds
  /\ now' = now + 1
  /\ UNCHANGED <<user, otp, tokens, expired, issued, heirs, loggedOut, call, calls>>

-----------------------------------------------------------------------------
(* The admins block and unblock a user, and a provider through its user.    *)
(* Whether there is a booking that forbids to block is not modelled here:   *)
(* a refusal is CallFails.                                                  *)
CheckBlock(c) ==
  /\ Exists
  /\ user.status # "SUSPENDED"
  /\ Open(c, "suspend", "idle", NoToken)
  /\ UNCHANGED accountRows

Suspend(c) ==
  /\ call[c].at = "suspend"
  /\ user' = [user EXCEPT !.status = "SUSPENDED"]
  /\ Return(c)
  /\ UNCHANGED <<now, otp, tokens, expired, issued, heirs, loggedOut>>

CheckUnblock(c) ==
  /\ user.status = "SUSPENDED"
  /\ Open(c, "reinstate", "idle", NoToken)
  /\ UNCHANGED accountRows

(* ACTIVE, also if the account was never verified. *)
Reinstate(c) ==
  /\ call[c].at = "reinstate"
  /\ user' = [user EXCEPT !.status = "ACTIVE"]
  /\ Return(c)
  /\ UNCHANGED <<now, otp, tokens, expired, issued, heirs, loggedOut>>

AccountsNext ==
  \/ \E c \in Clients :
       \/ Signup(c) \/ ResendOtp(c) \/ RequestReset(c) \/ DeleteOtp(c) \/ VerifyOtp(c)
       \/ SetPassword(c) \/ ChangePassword(c) \/ Login(c) \/ GoogleLogin(c)
       \/ SignRefreshToken(c) \/ GenerateTokens(c) \/ Rotate(c) \/ CallFails(c)
       \/ CheckBlock(c) \/ Suspend(c) \/ CheckUnblock(c) \/ Reinstate(c)
  \/ \E c \in Clients, code \in Codes : SendOtp(c, code)
  \/ \E c \in Clients, purpose \in {"activate", "setPassword"} : ReadOtp(c, purpose)
  \/ \E c \in Clients, t \in Tokens : RefreshToken(c, t)
  \/ \E t \in Tokens : Logout(t) \/ TokenExpires(t)
  \/ OtpExpires \/ Tick

-----------------------------------------------------------------------------
AccountsTypeOK ==
  /\ now \in Tokens
  /\ user \in [status : UserStatus, verified : BOOLEAN, password : BOOLEAN]
  /\ otp \in Codes \union {NoCode}
  /\ tokens \subseteq {t \in Tokens : issued[t] > 0}
  /\ issued \in [Tokens -> Nat] /\ heirs \in [Tokens -> Nat] /\ loggedOut \in [Tokens -> Nat]
  /\ \A t \in Tokens : issued[t] > 0 => Exists /\ t <= now

(* A stored refresh token is exchanged for one pair at most, also when it   *)
(* is sent twice at once, and for none if a logout came first: a string is  *)
(* good again only if it was issued again, within its second.               *)
RotationIsOnce == \A t \in Tokens : heirs[t] + loggedOut[t] <= issued[t]
=============================================================================
