---------------------------- MODULE BackOfficeProofs ----------------------------
(***************************************************************************)
(* Proofs about BackOffice, for any number of requests at once, seconds,   *)
(* devices, notifications and reviews: a stored refresh token is exchanged *)
(* once, no live device is forgotten by a push, what is closed             *)
(* followed the rules, a rating counts reviews there are, and the rows of  *)
(* all three parts keep their types.  A step of one part leaves the tables *)
(* of the others alone, so each part has invariants of its own, and        *)
(* BackInv is all of them.                                                 *)
(***************************************************************************)
EXTENDS BackOffice, FiniteSetTheorems, TLAPS

-----------------------------------------------------------------------------
(* What happens to a refresh token.  RotationIsOnce is not inductive: that  *)
(* a row in the table, and a request that took one out of it and has not    *)
(* yet issued the new pair, each stand for a row of their own, is what      *)
(* bounds the exchanges.                                                    *)
Nexts == {"idle", "activate", "setPassword", "generateTokens"}
Ats   == Nexts \union {"sendOtp", "deleteOtp", "changePassword", "rotate", "suspend", "reinstate",
                       "storeToken"}
Calls == [at : Ats, next : Nexts, token : Tokens \union {NoToken}, signed : Tokens \union {NoToken}]

Issuing       == {"generateTokens", "storeToken"}
Exchanging(t) == {c \in Clients : call[c].at \in Issuing /\ call[c].token = t}
Stored(t)     == IF t \in tokens THEN 1 ELSE 0

CallOK(j) ==
  /\ j.token # NoToken => j.at \in {"rotate"} \union Issuing
  /\ j.at = "rotate" => j.next \in {"idle", "generateTokens"}
  /\ j.at = "storeToken" => j.signed \in Tokens /\ j.signed <= now

TokensOK ==
  /\ now \in Tokens /\ tokens \subseteq Tokens
  /\ issued \in [Tokens -> Nat] /\ heirs \in [Tokens -> Nat] /\ loggedOut \in [Tokens -> Nat]
  /\ call \in [Clients -> Calls]

Accounted(t) ==
  heirs[t] + loggedOut[t] + Stored(t) + Cardinality(Exchanging(t)) <= issued[t]

TokenInv ==
  /\ TokensOK
  /\ \A c \in Clients : CallOK(call[c])
  /\ \A t \in Tokens : Accounted(t) /\ (issued[t] > 0 => t <= now)

rotationVars == <<now, tokens, issued, heirs, loggedOut>>

LEMMA SecondsFacts ==
  /\ Tokens \subseteq Nat \ {0} /\ 1 \in Tokens /\ NoToken \notin Tokens
  /\ \A t \in Tokens : t + 1 <= Seconds => t + 1 \in Tokens
BY AccountsAssumption DEF Tokens, NoToken

LEMMA IdleCall ==
  NoCall \in Calls /\ NoCall.at = "idle" /\ NoCall.token = NoToken /\ NoCall.next = "idle"
BY DEF NoCall, Calls, Ats, Nexts

LEMMA Counted == \A t : IsFiniteSet(Exchanging(t)) /\ Cardinality(Exchanging(t)) \in Nat
BY AccountsAssumption, FS_Subset, FS_CardinalityType DEF Exchanging

LEMMA TokensInit == AccountsInit => TokenInv
<1> SUFFICES ASSUME AccountsInit PROVE TokenInv
  OBVIOUS
<1>1. TokensOK /\ \A c \in Clients : CallOK(call[c])
  BY SecondsFacts, IdleCall DEF AccountsInit, TokensOK, CallOK
<1>2. \A t \in Tokens : Exchanging(t) = {} /\ Stored(t) = 0
  BY IdleCall DEF AccountsInit, Exchanging, Stored, Issuing
<1>3. Cardinality({}) = 0
  BY FS_EmptySet
<1>4. \A t \in Tokens : heirs[t] = 0 /\ loggedOut[t] = 0 /\ issued[t] = 0
  BY DEF AccountsInit
<1> QED
  BY <1>1, <1>2, <1>3, <1>4 DEF TokenInv, Accounted

(* A request begins, goes on or ends, and takes no row out of the table. *)
LEMMA CallMoves ==
  ASSUME TokenInv, NEW c \in Clients, NEW j \in Calls,
         call' = [call EXCEPT ![c] = j], UNCHANGED rotationVars, CallOK(j),
         j.token # NoToken => j.at = "rotate" \/ c \in Exchanging(j.token)
  PROVE  TokenInv'
<1>0. UNCHANGED <<now, tokens, issued, heirs, loggedOut>>
  BY DEF rotationVars
<1>1. /\ call' \in [Clients -> Calls] /\ call'[c] = j
      /\ \A d \in Clients : d # c => call'[d] = call[d]
  BY DEF TokenInv, TokensOK
<1>2. TokensOK'
  BY <1>0, <1>1 DEF TokenInv, TokensOK
<1>3. \A d \in Clients : CallOK(call[d])'
  BY <1>0, <1>1 DEF TokenInv, CallOK
<1>4. \A t \in Tokens : Accounted(t)'
  <2> SUFFICES ASSUME NEW t \in Tokens PROVE Accounted(t)'
    OBVIOUS
  <2>1. PICK E : E = Exchanging(t)'
    OBVIOUS
  <2>2. E \subseteq Exchanging(t)
    BY <1>1, <2>1, SecondsFacts DEF Exchanging, Issuing
  <2>3. Cardinality(E) \in Nat /\ Cardinality(E) <= Cardinality(Exchanging(t))
    BY <2>2, Counted, FS_Subset, FS_CardinalityType
  <2>4. Stored(t)' = Stored(t) /\ Stored(t) \in Nat
    BY <1>0 DEF Stored
  <2>5. heirs[t] \in Nat /\ loggedOut[t] \in Nat /\ issued[t] \in Nat /\ Accounted(t)
    BY DEF TokenInv, TokensOK
  <2> QED
    BY <1>0, <2>1, <2>3, <2>4, <2>5, Counted DEF Accounted
<1> QED
  BY <1>0, <1>2, <1>3, <1>4 DEF TokenInv

LEMMA Opened ==
  ASSUME TokenInv, NEW c \in Clients, NEW at \in Ats \ {"rotate", "storeToken"}, NEW next \in Nexts,
         Open(c, at, next, NoToken), UNCHANGED rotationVars
  PROVE  TokenInv'
<1> DEFINE j == [NoCall EXCEPT !.at = at, !.next = next, !.token = NoToken]
<1>1. j \in Calls /\ j.at = at /\ j.token = NoToken
  BY IdleCall DEF Calls
<1>2. call' = [call EXCEPT ![c] = j]
  BY DEF Open
<1> HIDE DEF j
<1> QED
  BY <1>1, <1>2, CallMoves DEF CallOK

LEMMA Returned ==
  ASSUME TokenInv, NEW c \in Clients, Return(c), UNCHANGED rotationVars
  PROVE  TokenInv'
<1>1. CallOK(NoCall)
  BY IdleCall DEF CallOK
<1> QED
  BY <1>1, IdleCall, CallMoves DEF Return

LEMMA Stepped ==
  ASSUME TokenInv, NEW c \in Clients, NEW at \in Nexts, Step(c, at),
         call[c].at \notin {"rotate", "generateTokens", "storeToken"}, UNCHANGED rotationVars
  PROVE  TokenInv'
<1>1. call[c] \in Calls /\ CallOK(call[c])
  BY DEF TokenInv, TokensOK
<1>2. PICK j \in Calls : j = [call[c] EXCEPT !.at = at]
  BY <1>1 DEF Calls, Ats
<1>3. j.at = at /\ j.token = NoToken
  BY <1>1, <1>2 DEF Calls, CallOK, Issuing
<1>4. CallOK(j)
  BY <1>3 DEF CallOK, Nexts
<1>5. call' = [call EXCEPT ![c] = j]
  BY <1>2 DEF Step
<1> QED
  BY <1>3, <1>4, <1>5, CallMoves

LEMMA CodeSteps ==
  ASSUME TokenInv, NEW c \in Clients,
         \/ Signup(c) \/ ResendOtp(c) \/ RequestReset(c) \/ DeleteOtp(c) \/ VerifyOtp(c)
         \/ SetPassword(c) \/ CallFails(c)
         \/ \E code \in Codes : SendOtp(c, code)
         \/ \E purpose \in {"activate", "setPassword"} : ReadOtp(c, purpose)
  PROVE  TokenInv'
<1>1. CASE Signup(c) \/ ResendOtp(c) \/ RequestReset(c)
  BY <1>1, Opened DEF Signup, ResendOtp, RequestReset, accountRows, rotationVars, Ats, Nexts
<1>2. CASE DeleteOtp(c)
  <2>1. call[c].next \in Nexts /\ call[c].at = "deleteOtp" /\ Step(c, call[c].next)
    BY <1>2 DEF DeleteOtp, TokenInv, TokensOK, Calls
  <2> QED
    BY <1>2, <2>1, Stepped DEF DeleteOtp, rotationVars
<1>3. CASE VerifyOtp(c)
  BY <1>3, Stepped DEF VerifyOtp, rotationVars, Nexts
<1>4. CASE SetPassword(c)
  BY <1>4, Stepped, Returned DEF SetPassword, rotationVars, Nexts
<1>5. CASE CallFails(c)
  BY <1>5, Returned DEF CallFails, accountRows, rotationVars
<1>6. CASE \E code \in Codes : SendOtp(c, code)
  BY <1>6, Returned DEF SendOtp, rotationVars
<1>7. CASE \E purpose \in {"activate", "setPassword"} : ReadOtp(c, purpose)
  BY <1>7, Opened DEF ReadOtp, accountRows, rotationVars, Ats, Nexts
<1> QED
  BY <1>1, <1>2, <1>3, <1>4, <1>5, <1>6, <1>7

LEMMA SessionSteps ==
  ASSUME TokenInv, NEW c \in Clients,
         \/ ChangePassword(c) \/ Login(c) \/ GoogleLogin(c)
         \/ CheckBlock(c) \/ Suspend(c) \/ CheckUnblock(c) \/ Reinstate(c)
  PROVE  TokenInv'
<1>1. CASE ChangePassword(c) \/ Login(c) \/ CheckBlock(c) \/ CheckUnblock(c)
  BY <1>1, Opened DEF ChangePassword, Login, CheckBlock, CheckUnblock, accountRows, rotationVars,
                    Ats, Nexts
<1>2. CASE GoogleLogin(c)
  BY <1>2, Opened DEF GoogleLogin, rotationVars, Ats, Nexts
<1>3. CASE Suspend(c) \/ Reinstate(c)
  BY <1>3, Returned DEF Suspend, Reinstate, rotationVars
<1> QED
  BY <1>1, <1>2, <1>3

LEMMA Signed ==
  ASSUME TokenInv, NEW c \in Clients, SignRefreshToken(c)
  PROVE  TokenInv'
<1>1. call[c] \in Calls /\ call[c].at = "generateTokens" /\ now \in Tokens
  BY DEF SignRefreshToken, TokenInv, TokensOK
<1>2. PICK j \in Calls : j = [call[c] EXCEPT !.at = "storeToken", !.signed = now]
  BY <1>1 DEF Calls, Ats
<1>3. j.at = "storeToken" /\ j.signed = now /\ j.token = call[c].token
  BY <1>1, <1>2 DEF Calls
<1>4. CallOK(j)
  BY <1>1, <1>3, SecondsFacts DEF CallOK, Issuing
<1>5. c \in Exchanging(j.token)
  BY <1>1, <1>3 DEF Exchanging, Issuing
<1>6. call' = [call EXCEPT ![c] = j]
  BY <1>2 DEF SignRefreshToken
<1> QED
  BY <1>4, <1>5, <1>6, CallMoves DEF SignRefreshToken, accountRows, rotationVars

(* The row that is created is one more issued, and the exchange it ends, if *)
(* it ends one, becomes an heir.                                            *)
LEMMA Issued ==
  ASSUME TokenInv, NEW c \in Clients, GenerateTokens(c)
  PROVE  TokenInv'
<1> DEFINE t   == call[c].signed
           old == call[c].token
<1>1. /\ call[c].at = "storeToken" /\ t \notin tokens
      /\ tokens' = tokens \union {t} /\ issued' = [issued EXCEPT ![t] = @ + 1]
      /\ heirs' = IF old = NoToken THEN heirs ELSE [heirs EXCEPT ![old] = @ + 1]
      /\ call' = [call EXCEPT ![c] = NoCall] /\ UNCHANGED <<now, loggedOut>>
  BY DEF GenerateTokens, Return
<1>2. /\ t \in Tokens /\ t <= now
      /\ old # NoToken => old \in Tokens /\ c \in Exchanging(old)
  BY <1>1 DEF TokenInv, TokensOK, CallOK, Calls, Exchanging, Issuing
<1> HIDE DEF t, old
<1>3. /\ call' \in [Clients -> Calls] /\ call'[c] = NoCall
      /\ \A d \in Clients : d # c => call'[d] = call[d]
  BY <1>1, IdleCall DEF TokenInv, TokensOK
<1>4. /\ issued' \in [Tokens -> Nat]
      /\ \A u \in Tokens : issued'[u] = IF u = t THEN issued[u] + 1 ELSE issued[u]
  BY <1>1, <1>2 DEF TokenInv, TokensOK
<1>5. /\ heirs' \in [Tokens -> Nat]
      /\ \A u \in Tokens : heirs'[u] = IF u = old THEN heirs[u] + 1 ELSE heirs[u]
  <2>1. heirs \in [Tokens -> Nat]
    BY DEF TokenInv, TokensOK
  <2>2. CASE old = NoToken
    BY <1>1, <2>1, <2>2, SecondsFacts
  <2>3. CASE old # NoToken
    BY <1>1, <1>2, <2>1, <2>3
  <2> QED
    BY <2>2, <2>3
<1>6. TokensOK'
  BY <1>1, <1>2, <1>3, <1>4, <1>5 DEF TokenInv, TokensOK
<1>7. \A d \in Clients : CallOK(call[d])'
  BY <1>1, <1>3, IdleCall DEF TokenInv, CallOK
<1>8. \A u \in Tokens : Accounted(u)'
  <2> SUFFICES ASSUME NEW u \in Tokens PROVE Accounted(u)'
    OBVIOUS
  <2>1. PICK E : E = Exchanging(u)'
    OBVIOUS
  <2>2. E = Exchanging(u) \ {c}
    BY <1>3, <2>1, IdleCall DEF Exchanging, Issuing
  <2>3. /\ Cardinality(E) \in Nat
        /\ Cardinality(E) <= IF u = old THEN Cardinality(Exchanging(u)) - 1
                                        ELSE Cardinality(Exchanging(u))
    <3>1. Cardinality(E) = IF c \in Exchanging(u) THEN Cardinality(Exchanging(u)) - 1
                                                  ELSE Cardinality(Exchanging(u))
      BY <2>2, Counted, FS_RemoveElement
    <3>2. IsFiniteSet(E)
      BY <2>2, Counted, FS_Subset
    <3>3. u = old => c \in Exchanging(u)
      BY <1>2, SecondsFacts
    <3> QED
      BY <3>1, <3>2, <3>3, Counted, FS_CardinalityType
  <2>4. Stored(u)' = (IF u = t THEN 1 ELSE Stored(u)) /\ Stored(u) \in {0, 1}
        /\ (u = t => Stored(u) = 0)
    BY <1>1 DEF Stored
  <2>5. /\ heirs[u] \in Nat /\ loggedOut[u] \in Nat /\ issued[u] \in Nat /\ Accounted(u)
        /\ Cardinality(Exchanging(u)) \in Nat
    BY Counted DEF TokenInv, TokensOK
  <2>6. loggedOut'[u] = loggedOut[u]
    BY <1>1
  <2> QED
    BY <1>4, <1>5, <2>1, <2>3, <2>4, <2>5, <2>6 DEF Accounted
<1>9. \A u \in Tokens : issued'[u] > 0 => u <= now'
  BY <1>1, <1>2, <1>4 DEF TokenInv
<1> QED
  BY <1>6, <1>7, <1>8, <1>9 DEF TokenInv

LEMMA Presented ==
  ASSUME TokenInv, NEW c \in Clients, NEW t \in Tokens, RefreshToken(c, t)
  PROVE  TokenInv'
<1> DEFINE next == IF t \in expired THEN "idle" ELSE "generateTokens"
           j    == [NoCall EXCEPT !.at = "rotate", !.next = next, !.token = t]
<1>1. next \in {"idle", "generateTokens"}
  OBVIOUS
<1>2. call' = [call EXCEPT ![c] = j] /\ UNCHANGED rotationVars
  BY DEF RefreshToken, Open, accountRows, rotationVars
<1> HIDE DEF next
<1>3. j \in Calls /\ j.at = "rotate" /\ j.next = next
  BY <1>1, IdleCall DEF Calls, Ats, Nexts
<1> HIDE DEF j
<1>4. CallOK(j)
  BY <1>1, <1>3 DEF CallOK
<1> QED
  BY <1>2, <1>3, <1>4, CallMoves

(* Of two requests with one row the second finds none to delete. *)
LEMMA Rotated ==
  ASSUME TokenInv, NEW c \in Clients, Rotate(c)
  PROVE  TokenInv'
<1> DEFINE t == call[c].token
<1>1. /\ t \in tokens /\ tokens' = tokens \ {t} /\ UNCHANGED <<now, issued, heirs, loggedOut>>
      /\ call[c].at = "rotate"
  BY DEF Rotate, DeletesOne
<1>2. call[c] \in Calls /\ CallOK(call[c]) /\ t \in Tokens
  BY <1>1 DEF TokenInv, TokensOK
<1>3. PICK j \in Calls : call' = [call EXCEPT ![c] = j] /\ CallOK(j) /\ j.token \in {NoToken, t}
  <2>1. CASE call[c].next = "idle"
    <3>1. call' = [call EXCEPT ![c] = NoCall] /\ CallOK(NoCall)
      BY <2>1, IdleCall DEF Rotate, Return, CallOK
    <3> QED
      BY <3>1, IdleCall
  <2>2. CASE call[c].next # "idle"
    <3>1. call' = [call EXCEPT ![c].at = "generateTokens"]
      BY <1>1, <1>2, <2>2 DEF Rotate, Step, CallOK
    <3>2. PICK k \in Calls : k = [call[c] EXCEPT !.at = "generateTokens"]
      BY <1>2 DEF Calls, Ats, Nexts
    <3>3. k.at = "generateTokens" /\ k.token = t
      BY <1>2, <3>2 DEF Calls
    <3>4. call' = [call EXCEPT ![c] = k]
      BY <3>1, <3>2
    <3>5. CallOK(k)
      BY <3>3 DEF CallOK, Issuing
    <3> QED
      BY <3>3, <3>4, <3>5
  <2> QED
    BY <2>1, <2>2
<1> HIDE DEF t
<1>4. /\ call' \in [Clients -> Calls] /\ call'[c] = j
      /\ \A d \in Clients : d # c => call'[d] = call[d]
  BY <1>3 DEF TokenInv, TokensOK
<1>5. TokensOK'
  BY <1>1, <1>4 DEF TokenInv, TokensOK
<1>6. \A d \in Clients : CallOK(call[d])'
  BY <1>1, <1>3, <1>4 DEF TokenInv, CallOK
<1>7. \A u \in Tokens : Accounted(u)'
  <2> SUFFICES ASSUME NEW u \in Tokens PROVE Accounted(u)'
    OBVIOUS
  <2>1. PICK E : E = Exchanging(u)'
    OBVIOUS
  <2>2. E \subseteq Exchanging(u) \union {c} /\ (u # t => E \subseteq Exchanging(u))
    BY <1>1, <1>3, <1>4, <2>1, SecondsFacts DEF Exchanging, Issuing
  <2>3. /\ Cardinality(E) \in Nat
        /\ Cardinality(E) <= IF u = t THEN Cardinality(Exchanging(u)) + 1
                                      ELSE Cardinality(Exchanging(u))
    <3>1. /\ IsFiniteSet(Exchanging(u) \union {c})
          /\ Cardinality(Exchanging(u) \union {c}) \in Nat
          /\ Cardinality(Exchanging(u) \union {c}) <= Cardinality(Exchanging(u)) + 1
      <4>1. IsFiniteSet(Exchanging(u)) /\ Cardinality(Exchanging(u)) \in Nat
        BY Counted
      <4>2. PICK S : S = Exchanging(u)
        OBVIOUS
      <4>3. /\ IsFiniteSet(S \union {c})
            /\ Cardinality(S \union {c}) \in {Cardinality(S), Cardinality(S) + 1}
        BY <4>1, <4>2, FS_AddElement
      <4> QED
        BY <4>1, <4>2, <4>3
    <3>2. /\ IsFiniteSet(E) /\ Cardinality(E) <= Cardinality(Exchanging(u) \union {c})
          /\ u # t => Cardinality(E) <= Cardinality(Exchanging(u))
      BY <2>2, <3>1, Counted, FS_Subset
    <3> QED
      BY <3>1, <3>2, Counted, FS_CardinalityType
  <2>4. Stored(u)' = (IF u = t THEN 0 ELSE Stored(u)) /\ Stored(u) \in {0, 1}
        /\ (u = t => Stored(u) = 1)
    BY <1>1 DEF Stored
  <2>5. /\ heirs[u] \in Nat /\ loggedOut[u] \in Nat /\ issued[u] \in Nat /\ Accounted(u)
        /\ Cardinality(Exchanging(u)) \in Nat
    BY Counted DEF TokenInv, TokensOK
  <2> QED
    BY <1>1, <2>1, <2>3, <2>4, <2>5 DEF Accounted
<1> QED
  BY <1>1, <1>5, <1>6, <1>7 DEF TokenInv

LEMMA LoggedOut ==
  ASSUME TokenInv, NEW t \in Tokens, Logout(t)
  PROVE  TokenInv'
<1>1. /\ tokens' = tokens \ {t}
      /\ loggedOut' = IF t \in tokens THEN [loggedOut EXCEPT ![t] = @ + 1] ELSE loggedOut
      /\ UNCHANGED <<now, issued, heirs, call>>
  BY DEF Logout
<1>2. /\ loggedOut' \in [Tokens -> Nat]
      /\ \A u \in Tokens :
           loggedOut'[u] = IF u = t /\ t \in tokens THEN loggedOut[u] + 1 ELSE loggedOut[u]
  BY <1>1 DEF TokenInv, TokensOK
<1>3. TokensOK' /\ \A d \in Clients : CallOK(call[d])'
  BY <1>1, <1>2 DEF TokenInv, TokensOK, CallOK
<1>4. \A u \in Tokens : Accounted(u)'
  <2> SUFFICES ASSUME NEW u \in Tokens PROVE Accounted(u)'
    OBVIOUS
  <2>1. Exchanging(u)' = Exchanging(u)
    BY <1>1 DEF Exchanging
  <2>2. /\ Stored(u)' = (IF u = t THEN 0 ELSE Stored(u)) /\ Stored(u) \in {0, 1}
        /\ (u = t /\ t \in tokens => Stored(u) = 1)
    BY <1>1 DEF Stored
  <2>3. /\ heirs[u] \in Nat /\ loggedOut[u] \in Nat /\ issued[u] \in Nat /\ Accounted(u)
        /\ Cardinality(Exchanging(u)) \in Nat
    BY Counted DEF TokenInv, TokensOK
  <2> QED
    BY <1>1, <1>2, <2>1, <2>2, <2>3 DEF Accounted
<1> QED
  BY <1>1, <1>3, <1>4 DEF TokenInv

LEMMA SameTokens ==
  ASSUME TokenInv, UNCHANGED <<tokens, issued, heirs, loggedOut, call>>,
         now' \in Tokens, now <= now'
  PROVE  TokenInv'
<1>1. now \in Tokens /\ Tokens \subseteq Nat
  BY SecondsFacts DEF TokenInv, TokensOK
<1>2. TokensOK'
  BY DEF TokenInv, TokensOK
<1>3. \A d \in Clients : CallOK(call[d])'
  <2> SUFFICES ASSUME NEW d \in Clients PROVE CallOK(call[d])'
    OBVIOUS
  <2>1. CallOK(call[d]) /\ call'[d] = call[d]
    BY DEF TokenInv
  <2>2. call[d].at = "storeToken" => call[d].signed \in Tokens /\ call[d].signed <= now'
    BY <1>1, <2>1 DEF CallOK
  <2> QED
    BY <2>1, <2>2 DEF CallOK
<1>4. \A u \in Tokens : Accounted(u)' /\ (issued'[u] > 0 => u <= now')
  BY <1>1 DEF TokenInv, Accounted, Stored, Exchanging
<1> QED
  BY <1>2, <1>3, <1>4 DEF TokenInv

LEMMA AccountsKeep == TokenInv /\ [AccountsNext]_accountVars => TokenInv'
<1> SUFFICES ASSUME TokenInv, [AccountsNext]_accountVars PROVE TokenInv'
  OBVIOUS
<1>0. now \in Tokens /\ now \in Nat /\ now <= now
  BY SecondsFacts DEF TokenInv, TokensOK
<1>1. CASE UNCHANGED accountVars
  BY <1>0, <1>1, SameTokens DEF accountVars, accountRows
<1>2. CASE AccountsNext
  <2>1. CASE \E t \in Tokens : TokenExpires(t)
    BY <1>0, <2>1, SameTokens DEF TokenExpires
  <2>2. CASE OtpExpires
    BY <1>0, <2>2, SameTokens DEF OtpExpires
  <2>3. CASE Tick
    <3>1. now' \in Tokens /\ now <= now'
      BY <1>0, <2>3, SecondsFacts, AccountsAssumption DEF Tick
    <3> QED
      BY <2>3, <3>1, SameTokens DEF Tick
  <2> QED
    BY <1>2, <2>1, <2>2, <2>3, CodeSteps, SessionSteps, Signed, Issued, Presented, Rotated,
       LoggedOut DEF AccountsNext
<1> QED
  BY <1>1, <1>2

-----------------------------------------------------------------------------
(* What follows a booking.  A handler remembers a status it may write       *)
(* because the row had, when it looked, the one before; what a row has had  *)
(* only grows.  A review being written is of a booking that has none and    *)
(* that no other handler writes (the unique key), and it was counted when   *)
(* there were no more reviews than now.                                     *)
Statuses ==
  {"OUT_FOR_DELIVERY", "DELIVERED", "FAILED", "IN_PROGRESS", "RESOLVED", "REJECTED"}

Jobs ==
  [kind : {"idle", "evict"}] \union [kind : {"delivery", "complaint"}, to : Statuses]
    \union [kind : {"review", "reply"}, booking : Reviewed]
    \union [kind : {"rate"}, booking : Reviewed, count : Nat]

StatusInv ==
  /\ job \in [Handlers -> Jobs]
  /\ delivery.status \in delivery.had
  /\ complaint.status # "none" => complaint.status \in complaint.had
  /\ \A h \in Handlers :
       /\ job[h].kind = "delivery" /\ job[h].to = "DELIVERED" =>
            "OUT_FOR_DELIVERY" \in delivery.had
       /\ job[h].kind = "complaint" /\ job[h].to = "RESOLVED" =>
            "IN_PROGRESS" \in complaint.had
  /\ ClosedFollowsTheRules

ReviewInv ==
  /\ reviews \subseteq Reviewed /\ IsFiniteSet(reviews) /\ rated \in Nat
  /\ \A h \in Handlers : Writing(h) =>
       /\ job[h].booking \notin reviews
       /\ \A k \in Handlers : Writing(k) /\ job[k].booking = job[h].booking => k = h
  /\ \A h \in Handlers : job[h].kind = "rate" =>
       job[h].count >= 1 /\ job[h].count <= Cardinality(reviews) + 1
  /\ RatingIsOfReviews

DeskInv == StatusInv /\ ReviewInv

LEMMA DeskInit == AfterSalesInit => DeskInv
<1> SUFFICES ASSUME AfterSalesInit PROVE DeskInv
  OBVIOUS
<1>1. Idle \in Jobs /\ Idle.kind = "idle"
  BY DEF Idle, Jobs
<1>2. \A h \in Handlers : job[h].kind = "idle"
  BY <1>1 DEF AfterSalesInit
<1>3. StatusInv
  BY <1>1, <1>2 DEF AfterSalesInit, StatusInv, ClosedFollowsTheRules
<1>4. IsFiniteSet({}) /\ Cardinality({}) = 0
  BY FS_EmptySet
<1>5. ReviewInv
  BY <1>2, <1>4 DEF AfterSalesInit, ReviewInv, RatingIsOfReviews, Writing
<1> QED
  BY <1>3, <1>5 DEF DeskInv

(* A handler goes on to a job that writes no review, or ends. *)
LEMMA JobMoves ==
  ASSUME DeskInv, NEW h \in Handlers, NEW j \in Jobs, job' = [job EXCEPT ![h] = j],
         j.kind \notin {"review", "rate"}
  PROVE  /\ job' \in [Handlers -> Jobs] /\ job'[h] = j
         /\ \A k \in Handlers : k # h => job'[k] = job[k]
         /\ UNCHANGED <<reviews, rated>> => ReviewInv'
<1>1. /\ job' \in [Handlers -> Jobs] /\ job'[h] = j
      /\ \A k \in Handlers : k # h => job'[k] = job[k]
  BY DEF DeskInv, StatusInv
<1>2. \A k \in Handlers : Writing(k)' => k # h /\ Writing(k)
  BY <1>1 DEF Writing
<1>3. ASSUME UNCHANGED <<reviews, rated>> PROVE ReviewInv'
  BY <1>1, <1>2, <1>3 DEF DeskInv, ReviewInv, RatingIsOfReviews
<1> QED
  BY <1>1, <1>3

LEMMA IdleJob == Idle \in Jobs /\ Idle.kind = "idle"
BY DEF Idle, Jobs

(* Steps that touch neither the two rows with a status nor the reviews. *)
LEMMA Elsewhere ==
  ASSUME DeskInv, NEW h \in Handlers, NEW j \in Jobs, job' = [job EXCEPT ![h] = j],
         j.kind \notin {"review", "rate", "delivery", "complaint"},
         UNCHANGED <<delivery, complaint, reviews, rated>>
  PROVE  DeskInv'
<1>1. /\ job' \in [Handlers -> Jobs] /\ job'[h] = j
      /\ \A k \in Handlers : k # h => job'[k] = job[k]
      /\ ReviewInv'
  BY JobMoves
<1>2. StatusInv'
  BY <1>1 DEF DeskInv, StatusInv, ClosedFollowsTheRules
<1> QED
  BY <1>1, <1>2 DEF DeskInv

LEMMA SameJobs ==
  ASSUME DeskInv, UNCHANGED <<delivery, complaint, reviews, rated, job>>
  PROVE  DeskInv'
BY DEF DeskInv, StatusInv, ReviewInv, ClosedFollowsTheRules, RatingIsOfReviews, Writing

(* Only what is out can be reported as delivered, only what someone took up *)
(* as resolved.                                                             *)
LEMMA Deliverable ==
  ASSUME NEW s, NEW to, to \in DeliveryTransitions(s)
  PROVE  to \in Statuses /\ (to = "DELIVERED" => s = "OUT_FOR_DELIVERY")
<1>1. CASE s = "SCHEDULED"
  <2>1. DeliveryTransitions(s) = {"OUT_FOR_DELIVERY", "FAILED"}
    BY <1>1 DEF DeliveryTransitions
  <2> QED
    BY <2>1 DEF Statuses
<1>2. CASE s = "OUT_FOR_DELIVERY"
  <2>1. DeliveryTransitions(s) = {"DELIVERED", "FAILED"}
    BY <1>2 DEF DeliveryTransitions
  <2> QED
    BY <1>2, <2>1 DEF Statuses
<1>3. CASE s # "SCHEDULED" /\ s # "OUT_FOR_DELIVERY"
  <2>1. DeliveryTransitions(s) = {}
    BY <1>3 DEF DeliveryTransitions
  <2> QED
    BY <2>1 DEF Statuses
<1> QED
  BY <1>1, <1>2, <1>3

LEMMA Resolvable ==
  ASSUME NEW s, NEW to, to \in ComplaintTransitions(s)
  PROVE  to \in Statuses /\ (to = "RESOLVED" => s = "IN_PROGRESS")
<1>1. CASE s = "PENDING"
  <2>1. ComplaintTransitions(s) = {"IN_PROGRESS", "REJECTED"}
    BY <1>1 DEF ComplaintTransitions
  <2> QED
    BY <2>1 DEF Statuses
<1>2. CASE s = "IN_PROGRESS"
  <2>1. ComplaintTransitions(s) = {"RESOLVED", "REJECTED"}
    BY <1>2 DEF ComplaintTransitions
  <2> QED
    BY <1>2, <2>1 DEF Statuses
<1>3. CASE s # "PENDING" /\ s # "IN_PROGRESS"
  <2>1. ComplaintTransitions(s) = {}
    BY <1>3 DEF ComplaintTransitions
  <2> QED
    BY <2>1 DEF Statuses
<1> QED
  BY <1>1, <1>2, <1>3

LEMMA DeliveryStep ==
  ASSUME DeskInv, NEW h \in Handlers, CheckDelivery(h) \/ UpdateDelivery(h)
  PROVE  DeskInv'
<1>1. CASE CheckDelivery(h)
  <2>1. PICK to \in DeliveryTransitions(delivery.status) :
          job' = [job EXCEPT ![h] = [kind |-> "delivery", to |-> to]]
    BY <1>1 DEF CheckDelivery, Takes
  <2>2. to \in Statuses /\ (to = "DELIVERED" => delivery.status = "OUT_FOR_DELIVERY")
    BY <2>1, Deliverable
  <2>3. PICK j \in Jobs : j = [kind |-> "delivery", to |-> to]
    BY <2>2 DEF Jobs
  <2>4. j.kind = "delivery" /\ j.to = to /\ job' = [job EXCEPT ![h] = j]
    BY <2>1, <2>3
  <2>5. UNCHANGED <<delivery, complaint, reviews, rated>>
    BY <1>1 DEF CheckDelivery, Reviewing
  <2>6. StatusInv'
    BY <2>2, <2>4, <2>5, JobMoves DEF DeskInv, StatusInv, ClosedFollowsTheRules
  <2> QED
    BY <2>4, <2>5, <2>6, JobMoves DEF DeskInv
<1>2. CASE UpdateDelivery(h)
  <2>1. /\ job[h].kind = "delivery" /\ delivery' = Moved(delivery, job[h].to, {"DELIVERED"})
        /\ job' = [job EXCEPT ![h] = Idle] /\ UNCHANGED <<complaint, reviews, rated>>
    BY <1>2 DEF UpdateDelivery, Finishes, Reviewing
  <2>2. /\ delivery'.status = job[h].to
        /\ delivery'.stamped = (delivery.stamped \/ job[h].to \in {"DELIVERED"})
        /\ delivery'.had = delivery.had \union {job[h].to}
    BY <2>1 DEF Moved
  <2>3. ClosedFollowsTheRules'
    BY <2>1, <2>2 DEF DeskInv, StatusInv, ClosedFollowsTheRules
  <2>4. StatusInv'
    BY <2>1, <2>2, <2>3, JobMoves, IdleJob DEF DeskInv, StatusInv
  <2> QED
    BY <2>1, <2>4, JobMoves, IdleJob DEF DeskInv
<1> QED
  BY <1>1, <1>2

LEMMA ComplaintStep ==
  ASSUME DeskInv, NEW h \in Handlers, CheckComplaint(h) \/ UpdateComplaint(h)
  PROVE  DeskInv'
<1>1. CASE CheckComplaint(h)
  <2>1. PICK to \in ComplaintTransitions(complaint.status) :
          job' = [job EXCEPT ![h] = [kind |-> "complaint", to |-> to]]
    BY <1>1 DEF CheckComplaint, Takes
  <2>2. to \in Statuses /\ (to = "RESOLVED" => complaint.status = "IN_PROGRESS")
    BY <2>1, Resolvable
  <2>3. PICK j \in Jobs : j = [kind |-> "complaint", to |-> to]
    BY <2>2 DEF Jobs
  <2>4. j.kind = "complaint" /\ j.to = to /\ job' = [job EXCEPT ![h] = j]
    BY <2>1, <2>3
  <2>5. UNCHANGED <<delivery, complaint, reviews, rated>>
    BY <1>1 DEF CheckComplaint, Reviewing
  <2>6. StatusInv'
    BY <2>2, <2>4, <2>5, JobMoves DEF DeskInv, StatusInv, ClosedFollowsTheRules
  <2> QED
    BY <2>4, <2>5, <2>6, JobMoves DEF DeskInv
<1>2. CASE UpdateComplaint(h)
  <2>1. /\ job[h].kind = "complaint"
        /\ complaint' = Moved(complaint, job[h].to, {"RESOLVED", "REJECTED"})
        /\ job' = [job EXCEPT ![h] = Idle] /\ UNCHANGED <<delivery, reviews, rated>>
    BY <1>2 DEF UpdateComplaint, Finishes, Reviewing
  <2>2. /\ complaint'.status = job[h].to
        /\ complaint'.stamped = (complaint.stamped \/ job[h].to \in {"RESOLVED", "REJECTED"})
        /\ complaint'.had = complaint.had \union {job[h].to}
    BY <2>1 DEF Moved
  <2>3. ClosedFollowsTheRules'
    BY <2>1, <2>2 DEF DeskInv, StatusInv, ClosedFollowsTheRules
  <2>4. StatusInv'
    BY <2>1, <2>2, <2>3, JobMoves, IdleJob DEF DeskInv, StatusInv
  <2> QED
    BY <2>1, <2>4, JobMoves, IdleJob DEF DeskInv
<1> QED
  BY <1>1, <1>2

LEMMA Filed == DeskInv /\ FileComplaint => DeskInv'
<1> SUFFICES ASSUME DeskInv, FileComplaint PROVE DeskInv'
  OBVIOUS
<1>1. /\ complaint'.status = "PENDING" /\ complaint'.had = complaint.had \union {"PENDING"}
      /\ UNCHANGED <<delivery, reviews, rated, job>>
  BY DEF FileComplaint, Moved, Reviewing
<1>2. StatusInv'
  BY <1>1 DEF DeskInv, StatusInv, ClosedFollowsTheRules
<1>3. ReviewInv'
  BY <1>1 DEF DeskInv, ReviewInv, RatingIsOfReviews, Writing
<1> QED
  BY <1>2, <1>3 DEF DeskInv

(* A review is begun for a booking without one that no other handler        *)
(* writes, counted, and committed.                                          *)
LEMMA CheckReviewStep ==
  ASSUME DeskInv, NEW h \in Handlers, CheckReview(h)
  PROVE  DeskInv'
<1>1. PICK b \in Reviewed \ (reviews \union BeingWritten) :
        job' = [job EXCEPT ![h] = [kind |-> "review", booking |-> b]]
  BY DEF CheckReview, Takes
<1>2. PICK j \in Jobs : j = [kind |-> "review", booking |-> b]
  BY DEF Jobs
<1>3. /\ job' = [job EXCEPT ![h] = j] /\ j.kind = "review" /\ j.booking = b
      /\ UNCHANGED <<delivery, complaint, reviews, rated>>
  BY <1>1, <1>2 DEF CheckReview, Reviewing
<1>4. /\ job' \in [Handlers -> Jobs] /\ job'[h] = j
      /\ \A k \in Handlers : k # h => job'[k] = job[k]
  BY <1>3 DEF DeskInv, StatusInv
<1>5. \A k \in Handlers : Writing(k) => job[k].booking # b
  BY DEF BeingWritten
<1>6. \A k \in Handlers : k # h => (Writing(k)' <=> Writing(k))
  BY <1>4 DEF Writing
<1>7. \A k \in Handlers : Writing(k)' =>
        /\ job'[k].booking \notin reviews'
        /\ \A l \in Handlers : Writing(l)' /\ job'[l].booking = job'[k].booking => l = k
  BY <1>3, <1>4, <1>5, <1>6 DEF DeskInv, ReviewInv
<1>8. \A k \in Handlers : job'[k].kind = "rate" =>
        job'[k].count >= 1 /\ job'[k].count <= Cardinality(reviews') + 1
  BY <1>3, <1>4 DEF DeskInv, ReviewInv
<1>9. ReviewInv'
  BY <1>3, <1>7, <1>8 DEF DeskInv, ReviewInv, RatingIsOfReviews
<1>10. StatusInv'
  BY <1>3, <1>4 DEF DeskInv, StatusInv, ClosedFollowsTheRules
<1> QED
  BY <1>9, <1>10 DEF DeskInv

LEMMA AggregateStep ==
  ASSUME DeskInv, NEW h \in Handlers, Aggregate(h)
  PROVE  DeskInv'
<1> DEFINE n == CountReviews(reviews)
           b == job[h].booking
<1>1. /\ job[h].kind = "review" /\ UNCHANGED <<delivery, complaint, reviews, rated>>
      /\ job' = [job EXCEPT ![h] = [kind |-> "rate", booking |-> b, count |-> n]]
  BY DEF Aggregate, Reviewing
<1>2. Cardinality(reviews) \in Nat
  BY FS_CardinalityType DEF DeskInv, ReviewInv
<1>3. n \in Nat /\ n >= 1 /\ n <= Cardinality(reviews) + 1
  BY <1>2 DEF CountReviews
<1>4. b \in Reviewed
  <2>1. job[h] \in Jobs /\ job[h].kind = "review"
    BY <1>1 DEF DeskInv, StatusInv
  <2> QED
    BY <2>1 DEF Jobs
<1> HIDE DEF n
<1>5. PICK j \in Jobs : j = [kind |-> "rate", booking |-> b, count |-> n]
  BY <1>3, <1>4 DEF Jobs
<1>6. job' = [job EXCEPT ![h] = j] /\ j.kind = "rate" /\ j.booking = job[h].booking /\ j.count = n
  BY <1>1, <1>5
<1>7. /\ job' \in [Handlers -> Jobs] /\ job'[h] = j
      /\ \A k \in Handlers : k # h => job'[k] = job[k]
  BY <1>6 DEF DeskInv, StatusInv
<1>8. \A k \in Handlers : /\ Writing(k)' <=> Writing(k)
                          /\ Writing(k) => job'[k].booking = job[k].booking
  BY <1>1, <1>6, <1>7 DEF Writing
<1>9. ReviewInv'
  BY <1>1, <1>3, <1>6, <1>7, <1>8 DEF DeskInv, ReviewInv, RatingIsOfReviews
<1>10. StatusInv'
  BY <1>1, <1>6, <1>7 DEF DeskInv, StatusInv, ClosedFollowsTheRules
<1> QED
  BY <1>9, <1>10 DEF DeskInv

LEMMA CommitReviewStep ==
  ASSUME DeskInv, NEW h \in Handlers, CommitReview(h)
  PROVE  DeskInv'
<1> DEFINE b == job[h].booking
<1>1. /\ job[h].kind = "rate" /\ Writing(h) /\ UNCHANGED <<delivery, complaint>>
      /\ rated' = job[h].count /\ reviews' = reviews \union {b}
      /\ job' = [job EXCEPT ![h] = Idle]
  BY DEF CommitReview, Finishes, Writing
<1>2. /\ job' \in [Handlers -> Jobs] /\ job'[h] = Idle
      /\ \A k \in Handlers : k # h => job'[k] = job[k]
  BY <1>1, IdleJob, JobMoves
<1>3. b \notin reviews /\ IsFiniteSet(reviews) /\ Cardinality(reviews) \in Nat
  BY <1>1, FS_CardinalityType DEF DeskInv, ReviewInv
<1>4. job[h].count \in Nat /\ job[h].count >= 1 /\ job[h].count <= Cardinality(reviews) + 1
  <2>1. job[h] \in Jobs
    BY DEF DeskInv, StatusInv
  <2> QED
    BY <1>1, <2>1 DEF DeskInv, ReviewInv, Jobs
<1>5. IsFiniteSet(reviews') /\ Cardinality(reviews') = Cardinality(reviews) + 1
  BY <1>1, <1>3, FS_AddElement
<1>6. \A k \in Handlers : Writing(k)' => k # h /\ Writing(k) /\ job[k].booking # b
  BY <1>1, <1>2, IdleJob DEF Writing, DeskInv, ReviewInv
<1>7. \A k \in Handlers : job'[k].kind = "rate" =>
        job'[k].count >= 1 /\ job'[k].count <= Cardinality(reviews') + 1
  <2> SUFFICES ASSUME NEW k \in Handlers, job'[k].kind = "rate"
               PROVE  job'[k].count >= 1 /\ job'[k].count <= Cardinality(reviews') + 1
    OBVIOUS
  <2>1. k # h /\ job'[k] = job[k]
    BY <1>2, IdleJob
  <2>2. job[k].count \in Nat
    <3>1. job[k] \in Jobs /\ job[k].kind = "rate"
      BY <2>1 DEF DeskInv, StatusInv
    <3> QED
      BY <3>1 DEF Jobs
  <2>3. job[k].count >= 1 /\ job[k].count <= Cardinality(reviews) + 1
    BY <2>1 DEF DeskInv, ReviewInv
  <2> QED
    BY <1>3, <1>5, <2>1, <2>2, <2>3
<1>8. RatingIsOfReviews'
  BY <1>1, <1>4, <1>5 DEF RatingIsOfReviews
<1>9. \A k \in Handlers : Writing(k)' =>
        /\ job'[k].booking \notin reviews'
        /\ \A l \in Handlers : Writing(l)' /\ job'[l].booking = job'[k].booking => l = k
  BY <1>1, <1>2, <1>6 DEF DeskInv, ReviewInv
<1>10. ReviewInv'
  <2>1. reviews' \subseteq Reviewed
    <3>1. job[h] \in Jobs
      BY DEF DeskInv, StatusInv
    <3> QED
      BY <1>1, <3>1 DEF DeskInv, ReviewInv, Jobs
  <2> QED
    BY <2>1, <1>1, <1>4, <1>5, <1>7, <1>8, <1>9 DEF ReviewInv
<1>11. StatusInv'
  BY <1>1, <1>2, IdleJob DEF DeskInv, StatusInv, ClosedFollowsTheRules
<1> QED
  BY <1>10, <1>11 DEF DeskInv

LEMMA OtherJobs ==
  ASSUME DeskInv, NEW h \in Handlers,
         \/ CheckReply(h) \/ ReplyToReview(h) \/ ReadTypes(h) \/ FillCache(h)
         \/ ChangeTypes(h) \/ Evict(h) \/ HandlerFails(h)
  PROVE  DeskInv'
<1>1. CASE CheckReply(h)
  <2>1. PICK b \in reviews \ replied : job' = [job EXCEPT ![h] = [kind |-> "reply", booking |-> b]]
    BY <1>1 DEF CheckReply, Takes
  <2>2. PICK j \in Jobs : j = [kind |-> "reply", booking |-> b]
    BY DEF Jobs, DeskInv, ReviewInv
  <2>3. job' = [job EXCEPT ![h] = j] /\ j.kind = "reply"
    BY <2>1, <2>2
  <2> QED
    BY <1>1, <2>3, Elsewhere DEF CheckReply, Reviewing
<1>2. CASE ChangeTypes(h)
  <2>1. PICK j \in Jobs : j = [kind |-> "evict"]
    BY DEF Jobs
  <2>2. job' = [job EXCEPT ![h] = j] /\ j.kind = "evict"
    BY <1>2, <2>1 DEF ChangeTypes, Takes
  <2> QED
    BY <1>2, <2>2, Elsewhere DEF ChangeTypes, Reviewing
<1>3. CASE ReplyToReview(h) \/ Evict(h) \/ HandlerFails(h)
  BY <1>3, Elsewhere, IdleJob DEF ReplyToReview, Evict, HandlerFails, Finishes, Reviewing
<1>4. CASE ReadTypes(h) \/ FillCache(h)
  BY <1>4, SameJobs DEF ReadTypes, FillCache, Reviewing
<1> QED
  BY <1>1, <1>2, <1>3, <1>4

LEMMA DeskKeeps == DeskInv /\ [AfterSalesNext]_deskVars => DeskInv'
<1> SUFFICES ASSUME DeskInv, [AfterSalesNext]_deskVars PROVE DeskInv'
  OBVIOUS
<1>1. CASE UNCHANGED deskVars
  BY <1>1, SameJobs DEF deskVars
<1>2. CASE AfterSalesNext
  <2>1. CASE CacheExpires
    BY <2>1, SameJobs DEF CacheExpires, Reviewing
  <2> QED
    BY <1>2, <2>1, DeliveryStep, ComplaintStep, Filed, CheckReviewStep, AggregateStep,
       CommitReviewStep, OtherJobs DEF AfterSalesNext
<1> QED
  BY <1>1, <1>2

-----------------------------------------------------------------------------
(* A notification and the devices it goes to.  The tokens that a push       *)
(* reports are of those it was sent to, and dead when it reported them; a   *)
(* token once dead stays dead, so it does not matter that the cleaning runs *)
(* some steps later.                                                        *)
Distinct(s) == \A i, j \in DOMAIN s : s[i] = s[j] => i = j

Stations == {"none", "create", "readTokens", "dispatch", "writeStatus", "clean", "markFailed",
             "done", "lost"}

Notes == [type : NotificationType \union {"none"},
          status : {"none", "PENDING", "SENT", "FAILED"}, read : BOOLEAN]

Works == [at : Stations, sent : Seq(Devices), success : BOOLEAN, failed : SUBSET Devices]

NoticeInv ==
  /\ note \in [Deliveries -> Notes] /\ work \in [Deliveries -> Works]
  /\ \A d \in Deliveries :
       /\ note[d].read => note[d].status # "none"
       /\ work[d].failed \subseteq dead
  /\ devices \in Seq(Devices) /\ Distinct(devices)

(* Every place in a finite set of numbers is taken by one of them. *)
LEMMA PlacesTaken ==
  ASSUME NEW K \in SUBSET Int, IsFiniteSet(K), NEW n \in 1 .. Cardinality(K)
  PROVE  \E i \in K : Cardinality({j \in K : j <= i}) = n
<1> DEFINE UpTo(i) == {j \in K : j <= i}
           place   == [i \in K |-> Cardinality(UpTo(i))]
           Places  == 1 .. Cardinality(K)
<1>1. \A i \in K : UpTo(i) \in SUBSET K /\ i \in UpTo(i)
  OBVIOUS
<1>2. ASSUME NEW i \in K, NEW k \in K, i < k
      PROVE  UpTo(i) \in SUBSET UpTo(k) /\ k \notin UpTo(i) /\ k \in UpTo(k)
  <2>1. i \in Int /\ k \in Int /\ \A j \in K : j \in Int /\ (j <= i => j <= k)
    BY <1>2
  <2>2. \A j : j \in UpTo(i) => j \in UpTo(k)
    BY <2>1
  <2>3. k \notin UpTo(i) /\ k \in UpTo(k)
    BY <1>2, <2>1
  <2> HIDE DEF UpTo
  <2> QED
    BY <2>2, <2>3
<1> HIDE DEF UpTo
<1>3. Cardinality(K) \in Nat
  BY FS_CardinalityType
<1>4. ASSUME NEW i \in K
      PROVE  IsFiniteSet(UpTo(i)) /\ Cardinality(UpTo(i)) \in Places
  <2>1. IsFiniteSet(UpTo(i)) /\ Cardinality(UpTo(i)) <= Cardinality(K)
    BY <1>1, FS_Subset
  <2>2. Cardinality(UpTo(i)) \in Nat /\ UpTo(i) # {}
    BY <1>1, <2>1, FS_CardinalityType
  <2>3. Cardinality(UpTo(i)) # 0
    BY <2>1, <2>2, FS_EmptySet
  <2> QED
    BY <1>3, <2>1, <2>2, <2>3
<1>5. ASSUME NEW i \in K, NEW k \in K, i < k
      PROVE  Cardinality(UpTo(i)) # Cardinality(UpTo(k))
  <2>1. IsFiniteSet(UpTo(k)) /\ UpTo(i) \in SUBSET UpTo(k) /\ UpTo(i) # UpTo(k)
    BY <1>2, <1>4, <1>5
  <2> QED
    BY <2>1, FS_Subset
<1>6. \A i, k \in K : Cardinality(UpTo(i)) = Cardinality(UpTo(k)) => i = k
  BY <1>5
<1>7. place \in Injection(K, Places)
  <2>1. place \in [K -> Places] /\ \A i \in K : place[i] = Cardinality(UpTo(i))
    BY <1>4
  <2> HIDE DEF place, Places
  <2> QED
    BY <1>6, <2>1 DEF Injection, IsInjective
<1>8. IsFiniteSet(Places) /\ Cardinality(Places) = Cardinality(K)
  BY <1>3, FS_Interval
<1>9. place \in Surjection(K, Places)
  <2> HIDE DEF place, Places
  <2> QED
    BY ONLY <1>7, <1>8, FS_Injection
<1>10. \E i \in K : place[i] = n
  BY <1>9 DEF Surjection
<1> QED
  BY <1>10 DEF UpTo

(* Rows are taken out and the rest keep their order: what is left is every  *)
(* row not taken, once.                                                     *)
LEMMA Dropped ==
  ASSUME devices \in Seq(Devices), Distinct(devices), NEW ts
  PROVE  /\ Drop(ts) \in Seq(Devices) /\ Distinct(Drop(ts))
         /\ {Drop(ts)[i] : i \in DOMAIN Drop(ts)} = Registered \ ts
<1> DEFINE K == Kept(ts)
           Nth(n) == CHOOSE i \in K : Cardinality({j \in K : j <= i}) = n
           size == Cardinality(K)
<1>1. DOMAIN devices = 1 .. Len(devices) /\ Len(devices) \in Nat
  OBVIOUS
<1>2. IsFiniteSet(1 .. Len(devices)) /\ K \in SUBSET (1 .. Len(devices))
  BY <1>1, FS_Interval DEF Kept
<1>3. K \in SUBSET Int /\ IsFiniteSet(K) /\ size \in Nat
  BY <1>2, FS_Subset, FS_CardinalityType
<1>4. ASSUME NEW n \in 1 .. size
      PROVE  Nth(n) \in K /\ Cardinality({j \in K : j <= Nth(n)}) = n
  <2> HIDE DEF K
  <2>1. \E i \in K : Cardinality({j \in K : j <= i}) = n
    BY <1>3, PlacesTaken
  <2> QED
    BY <2>1
<1>5. Drop(ts) = [n \in 1 .. size |-> devices[Nth(n)]]
  BY DEF Drop, Place
<1>6. \A i \in K : \E n \in 1 .. size : Nth(n) = i
  <2> SUFFICES ASSUME NEW i \in K PROVE \E n \in 1 .. size : Nth(n) = i
    OBVIOUS
  <2> DEFINE nth == [n \in 1 .. size |-> Nth(n)]
  <2> HIDE DEF K
  <2>1. \A n, m \in 1 .. size : Nth(n) = Nth(m) => n = m
    BY <1>4
  <2> HIDE DEF Nth
  <2>2. nth \in Injection(1 .. size, K)
    <3>1. nth \in [1 .. size -> K] /\ \A n \in 1 .. size : nth[n] = Nth(n)
      BY <1>4
    <3> HIDE DEF nth
    <3> QED
      BY <2>1, <3>1 DEF Injection, IsInjective
  <2>3. Cardinality(1 .. size) = size
    BY <1>3, FS_Interval
  <2>4. nth \in Surjection(1 .. size, K)
    <3> HIDE DEF nth
    <3> QED
      BY <1>3, <2>2, <2>3, FS_Injection
  <2> QED
    BY <2>4 DEF Surjection
<1> HIDE DEF Nth
<1>7. \A i \in K : i \in DOMAIN devices /\ devices[i] \in Devices /\ devices[i] \notin ts
  BY <1>1 DEF Kept
<1>8. \A i \in DOMAIN devices : devices[i] \notin ts => i \in K
  BY DEF Kept
<1>9. \A n, m \in 1 .. size : Nth(n) = Nth(m) => n = m
  BY <1>4
<1> HIDE DEF K, size
<1>10. /\ Drop(ts) \in Seq(Devices) /\ DOMAIN Drop(ts) = 1 .. size
       /\ \A n \in 1 .. size : Drop(ts)[n] = devices[Nth(n)]
  <2>1. \A n \in 1 .. size : devices[Nth(n)] \in Devices
    BY <1>4, <1>7
  <2> DEFINE s == [n \in 1 .. size |-> devices[Nth(n)]]
  <2>2. s \in [1 .. size -> Devices] /\ \A n \in 1 .. size : s[n] = devices[Nth(n)]
    BY <2>1
  <2>3. s = Drop(ts)
    BY <1>5
  <2> HIDE DEF s
  <2>4. s \in Seq(Devices) /\ DOMAIN s = 1 .. size
    BY <1>3, <2>2
  <2> QED
    BY <2>2, <2>3, <2>4
<1>11. Distinct(Drop(ts))
  BY <1>4, <1>7, <1>9, <1>10 DEF Distinct
<1>12. ASSUME NEW t
       PROVE  (\E n \in DOMAIN Drop(ts) : t = Drop(ts)[n]) <=> t \in Registered \ ts
  <2>1. ASSUME NEW n \in DOMAIN Drop(ts), t = Drop(ts)[n]
        PROVE  t \in Registered \ ts
    BY <1>4, <1>7, <1>10, <2>1 DEF Registered
  <2>2. ASSUME t \in Registered \ ts
        PROVE  \E n \in DOMAIN Drop(ts) : t = Drop(ts)[n]
    <3>1. PICK i \in DOMAIN devices : t = devices[i]
      BY <2>2 DEF Registered
    <3>2. PICK n \in 1 .. size : Nth(n) = i
      BY <1>6, <1>8, <2>2, <3>1
    <3> QED
      BY <1>10, <3>1, <3>2
  <2> QED
    BY <2>1, <2>2
<1> QED
  BY <1>10, <1>11, <1>12

LEMMA NoticesInit == NotificationsInit => NoticeInv
<1> SUFFICES ASSUME NotificationsInit PROVE NoticeInv
  OBVIOUS
<1>1. NoNote \in Notes /\ ~NoNote.read
  BY DEF NoNote, Notes
<1>2. NoWork \in Works /\ NoWork.failed = {}
  BY DEF NoWork, Works, Stations
<1> QED
  BY <1>1, <1>2 DEF NotificationsInit, NoticeInv, Distinct

(* One delivery goes on. *)
LEMMA DeliveryMoves ==
  ASSUME NoticeInv, NEW d \in Deliveries, NEW n \in Notes, NEW j \in Works,
         note' = [note EXCEPT ![d] = n], work' = [work EXCEPT ![d] = j],
         n.read => n.status # "none", j.failed \subseteq dead, dead' = dead,
         devices' \in Seq(Devices), Distinct(devices')
  PROVE  NoticeInv'
<1>1. /\ note' \in [Deliveries -> Notes] /\ note'[d] = n
      /\ work' \in [Deliveries -> Works] /\ work'[d] = j
      /\ \A e \in Deliveries : e # d => note'[e] = note[e] /\ work'[e] = work[e]
  BY DEF NoticeInv
<1> QED
  BY <1>1 DEF NoticeInv, Distinct

(* It only waits for the next call, or ends; the row is as it was. *)
LEMMA Waits ==
  ASSUME NoticeInv, NEW d \in Deliveries, NEW at \in Stations, Goes(d, at) \/ Ends(d, at)
  PROVE  \E j \in Works : work' = [work EXCEPT ![d] = j] /\ j.failed \subseteq dead
<1>1. work[d] \in Works /\ work[d].failed \subseteq dead /\ work \in [Deliveries -> Works]
  BY DEF NoticeInv
<1>2. CASE Goes(d, at)
  <2> DEFINE j == [work[d] EXCEPT !.at = at]
  <2>1. j \in Works /\ j.failed = work[d].failed
    BY <1>1 DEF Works
  <2>2. work' = [work EXCEPT ![d] = j]
    BY <1>2 DEF Goes
  <2> HIDE DEF j
  <2> QED
    BY <1>1, <2>1, <2>2
<1>3. CASE Ends(d, at)
  <2> DEFINE j == [NoWork EXCEPT !.at = at]
  <2>1. j \in Works /\ j.failed = {}
    <3>1. NoWork \in Works /\ NoWork.failed = {}
      BY DEF Works, NoWork, Stations
    <3> QED
      BY <3>1 DEF Works
  <2>2. work' = [work EXCEPT ![d] = j]
    BY <1>3 DEF Ends
  <2> HIDE DEF j
  <2> QED
    BY <2>1, <2>2
<1> QED
  BY <1>2, <1>3

LEMMA SameNote ==
  ASSUME NoticeInv, NEW d \in Deliveries
  PROVE  /\ note[d] \in Notes /\ (note[d].read => note[d].status # "none")
         /\ note = [note EXCEPT ![d] = note[d]]
BY DEF NoticeInv

(* What is written to the row keeps it a row. *)
LEMMA RowWritten ==
  ASSUME NoticeInv, NEW d \in Deliveries, NEW s \in {"PENDING", "SENT", "FAILED"},
         note' = [note EXCEPT ![d].status = s]
  PROVE  \E n \in Notes : note' = [note EXCEPT ![d] = n] /\ n.status # "none"
<1> DEFINE n == [note[d] EXCEPT !.status = s]
<1>1. n \in Notes /\ n.status # "none"
  BY DEF NoticeInv, Notes
<1>2. note' = [note EXCEPT ![d] = n]
  BY DEF NoticeInv
<1> HIDE DEF n
<1> QED
  BY <1>1, <1>2

LEMMA InvalidAreDead ==
  ASSUME NEW ts \in Seq(Devices)
  PROVE  InvalidOf(ts) \subseteq Devices /\ InvalidOf(ts) \subseteq dead
BY DEF InvalidOf

LEMMA Begun ==
  ASSUME NoticeInv, NEW d \in Deliveries, Emit(d) \/ CreateRow(d) \/ CreateFails(d)
  PROVE  NoticeInv'
<1>1. CASE Emit(d)
  <2>1. PICK e \in Occurring : \E type \in TypesOf[e] : note' = [note EXCEPT ![d].type = type]
    BY <1>1 DEF Emit
  <2>2. PICK type \in NotificationType : note' = [note EXCEPT ![d].type = type]
    BY <2>1, EveryEventHandled
  <2> DEFINE n == [note[d] EXCEPT !.type = type]
  <2>3. n \in Notes /\ (n.read => n.status # "none")
    BY <2>2, SameNote DEF Notes
  <2>4. note' = [note EXCEPT ![d] = n]
    BY <2>2
  <2>5. PICK j \in Works : work' = [work EXCEPT ![d] = j] /\ j.failed \subseteq dead
    BY <1>1, Waits DEF Emit, Stations
  <2> HIDE DEF n
  <2> QED
    BY <1>1, <2>3, <2>4, <2>5, DeliveryMoves DEF Emit, NoticeInv
<1>2. CASE CreateRow(d)
  <2>1. PICK n \in Notes : note' = [note EXCEPT ![d] = n] /\ n.status # "none"
    BY <1>2, RowWritten DEF CreateRow
  <2>2. PICK j \in Works : work' = [work EXCEPT ![d] = j] /\ j.failed \subseteq dead
    BY <1>2, Waits DEF CreateRow, Stations
  <2> QED
    BY <1>2, <2>1, <2>2, DeliveryMoves DEF CreateRow, NoticeInv
<1>3. CASE CreateFails(d)
  <2>1. PICK j \in Works : work' = [work EXCEPT ![d] = j] /\ j.failed \subseteq dead
    BY <1>3, Waits DEF CreateFails, Stations
  <2> QED
    BY <1>3, <2>1, SameNote, DeliveryMoves DEF CreateFails, NoticeInv
<1> QED
  BY <1>1, <1>2, <1>3

(* The tokens are read, and some steps later those found dead are known. *)
LEMMA Pushed ==
  ASSUME NoticeInv, NEW d \in Deliveries, GetUserTokens(d) \/ Dispatch(d)
  PROVE  NoticeInv'
<1>1. work[d] \in Works /\ work[d].sent \in Seq(Devices) /\ work[d].failed \subseteq dead
  BY DEF NoticeInv, Works
<1>2. CASE GetUserTokens(d)
  <2> DEFINE j == [work[d] EXCEPT !.at = "dispatch", !.sent = devices]
  <2>1. j \in Works /\ j.failed = work[d].failed
    BY <1>1 DEF Works, Stations, NoticeInv
  <2>2. work' = [work EXCEPT ![d] = j]
    BY <1>2 DEF GetUserTokens
  <2> HIDE DEF j
  <2> QED
    BY <1>1, <1>2, <2>1, <2>2, SameNote, DeliveryMoves DEF GetUserTokens, NoticeInv
<1>3. CASE Dispatch(d)
  <2>1. PICK success \in BOOLEAN, failed \in {{}, InvalidOf(work[d].sent)} :
          work' = [work EXCEPT ![d] =
            [at |-> "writeStatus", sent |-> <<>>, success |-> success, failed |-> failed]]
    BY <1>3 DEF Dispatch
  <2>2. failed \in SUBSET Devices /\ failed \subseteq dead
    BY <1>1, InvalidAreDead
  <2> DEFINE j == [at |-> "writeStatus", sent |-> <<>>, success |-> success, failed |-> failed]
  <2>3. j \in Works /\ j.failed = failed
    BY <2>2 DEF Works, Stations
  <2>4. work' = [work EXCEPT ![d] = j]
    BY <2>1
  <2> HIDE DEF j
  <2> QED
    BY <1>3, <2>2, <2>3, <2>4, SameNote, DeliveryMoves DEF Dispatch, NoticeInv
<1> QED
  BY <1>2, <1>3

LEMMA Concluded ==
  ASSUME NoticeInv, NEW d \in Deliveries,
         WriteStatus(d) \/ MarkFailed(d) \/ DeliveryFails(d) \/ Lost(d)
  PROVE  NoticeInv'
<1>1. CASE WriteStatus(d)
  <2>1. PICK n \in Notes : note' = [note EXCEPT ![d] = n] /\ n.status # "none"
    BY <1>1, RowWritten DEF WriteStatus
  <2>2. PICK j \in Works : work' = [work EXCEPT ![d] = j] /\ j.failed \subseteq dead
    BY <1>1, Waits DEF WriteStatus, Stations
  <2> QED
    BY <1>1, <2>1, <2>2, DeliveryMoves DEF WriteStatus, NoticeInv
<1>2. CASE MarkFailed(d)
  <2>1. PICK n \in Notes : note' = [note EXCEPT ![d] = n] /\ n.status # "none"
    BY <1>2, RowWritten DEF MarkFailed
  <2>2. PICK j \in Works : work' = [work EXCEPT ![d] = j] /\ j.failed \subseteq dead
    BY <1>2, Waits DEF MarkFailed, Stations
  <2> QED
    BY <1>2, <2>1, <2>2, DeliveryMoves DEF MarkFailed, NoticeInv
<1>3. CASE DeliveryFails(d) \/ Lost(d)
  <2>1. PICK j \in Works : work' = [work EXCEPT ![d] = j] /\ j.failed \subseteq dead
    BY <1>3, Waits DEF DeliveryFails, Lost, Caught, Stations
  <2> QED
    BY <1>3, <2>1, SameNote, DeliveryMoves DEF DeliveryFails, Lost, NoticeInv
<1> QED
  BY <1>1, <1>2, <1>3

LEMMA Cleaned ==
  ASSUME NoticeInv, NEW d \in Deliveries, RemoveInvalidTokens(d)
  PROVE  NoticeInv'
<1>1. PICK j \in Works : work' = [work EXCEPT ![d] = j] /\ j.failed \subseteq dead
  BY Waits DEF RemoveInvalidTokens, Stations
<1>2. devices' \in Seq(Devices) /\ Distinct(devices')
  BY Dropped DEF RemoveInvalidTokens, NoticeInv
<1> QED
  BY <1>1, <1>2, SameNote, DeliveryMoves DEF RemoveInvalidTokens

LEMMA ReadByUser ==
  ASSUME NoticeInv, MarkAllAsRead \/ \E d \in Deliveries : MarkAsRead(d)
  PROVE  NoticeInv'
<1>1. ASSUME NEW d \in Deliveries, MarkAsRead(d)
      PROVE  NoticeInv'
  <2> DEFINE n == [note[d] EXCEPT !.read = TRUE]
  <2>1. note[d] \in Notes /\ note[d].status # "none"
    BY <1>1 DEF MarkAsRead, NoticeInv
  <2>2. n \in Notes
    BY <2>1 DEF Notes
  <2>3. n.status # "none"
    BY <2>1 DEF Notes
  <2>4. note' = [note EXCEPT ![d] = n]
    BY <1>1 DEF MarkAsRead
  <2> HIDE DEF n
  <2> QED
    BY <1>1, <2>2, <2>3, <2>4 DEF MarkAsRead, NoticeInv
<1>2. CASE MarkAllAsRead
  <2> DEFINE N(d) == [note[d] EXCEPT !.read = note[d].read \/ note[d].status # "none"]
  <2>1. ASSUME NEW d \in Deliveries
        PROVE  N(d) \in Notes /\ (N(d).read => N(d).status # "none")
    <3>1. note[d] \in Notes /\ (note[d].read => note[d].status # "none")
      BY DEF NoticeInv
    <3>2. PICK r \in BOOLEAN : r = (note[d].read \/ note[d].status # "none")
      OBVIOUS
    <3>3. r => note[d].status # "none"
      BY <3>1, <3>2
    <3>4. N(d) = [note[d] EXCEPT !.read = r]
      BY <3>2
    <3> HIDE DEF N
    <3>5. N(d) \in Notes /\ N(d).status = note[d].status
      BY <3>1, <3>4 DEF Notes
    <3>6. N(d).read => r
      BY <3>1, <3>4 DEF Notes
    <3> QED
      BY <3>3, <3>5, <3>6
  <2>2. note' = [d \in Deliveries |-> N(d)]
    BY <1>2 DEF MarkAllAsRead
  <2> HIDE DEF N
  <2> QED
    BY <1>2, <2>1, <2>2 DEF MarkAllAsRead, NoticeInv
<1> QED
  BY <1>1, <1>2

(* A token saved again is the latest, and is there once. *)
LEMMA SavedFirst ==
  ASSUME NoticeInv, NEW t \in Devices
  PROVE  /\ Upserted(t) \in Seq(Devices) /\ Distinct(Upserted(t))
         /\ \A u \in Registered : \E i \in DOMAIN Upserted(t) : Upserted(t)[i] = u
<1> DEFINE s == Drop({t})
<1>1. /\ s \in Seq(Devices) /\ Distinct(s)
      /\ {s[i] : i \in DOMAIN s} = Registered \ {t}
  <2>1. devices \in Seq(Devices) /\ Distinct(devices)
    BY DEF NoticeInv
  <2> QED
    BY <2>1, Dropped
<1>2. /\ \A i \in DOMAIN s : s[i] # t
      /\ \A u \in Registered : u # t => \E i \in DOMAIN s : s[i] = u
  BY <1>1
<1>3. Upserted(t) = <<t>> \o s
  BY DEF Upserted
<1> HIDE DEF s
<1> DEFINE v == <<t>> \o s
<1>4. /\ v \in Seq(Devices) /\ DOMAIN v = 1 .. Len(s) + 1 /\ v[1] = t
      /\ DOMAIN s = 1 .. Len(s) /\ Len(s) \in Nat
      /\ \A i \in 1 .. Len(s) + 1 : i # 1 => i - 1 \in DOMAIN s /\ v[i] = s[i - 1]
      /\ \A i \in DOMAIN s : i + 1 \in DOMAIN v /\ v[i + 1] = s[i]
  BY <1>1
<1> HIDE DEF v
<1>5. Distinct(v)
  <2> SUFFICES ASSUME NEW i \in DOMAIN v, NEW k \in DOMAIN v, v[i] = v[k]
               PROVE  i = k
    BY DEF Distinct
  <2>1. \A n \in DOMAIN v : v[n] = t <=> n = 1
    <3>1. ASSUME NEW n \in DOMAIN v, n # 1
          PROVE  v[n] # t
      <4>1. n - 1 \in DOMAIN s /\ v[n] = s[n - 1]
        BY <1>4, <3>1
      <4> QED
        BY <1>2, <4>1
    <3> QED
      BY <1>4, <3>1
  <2>2. CASE i # 1 /\ k # 1
    <3>1. s[i - 1] = s[k - 1] /\ i - 1 \in DOMAIN s /\ k - 1 \in DOMAIN s
      BY <1>4, <2>2
    <3>2. i - 1 = k - 1
      BY <1>1, <3>1 DEF Distinct
    <3> QED
      BY <1>4, <3>2
  <2> QED
    BY <2>1, <2>2
<1>6. \A u \in Registered : \E i \in DOMAIN v : v[i] = u
  <2> SUFFICES ASSUME NEW u \in Registered PROVE \E i \in DOMAIN v : v[i] = u
    OBVIOUS
  <2>1. CASE u = t
    BY <1>4, <2>1
  <2>2. CASE u # t
    BY <1>2, <1>4, <2>2
  <2> QED
    BY <2>1, <2>2
<1> QED
  BY <1>3, <1>4, <1>5, <1>6 DEF v

LEMMA DeviceSteps ==
  ASSUME NoticeInv,
         RemoveAllTokens \/ \E t \in Devices : SaveToken(t) \/ RemoveToken(t) \/ TokenDies(t)
  PROVE  NoticeInv'
<1>1. devices \in Seq(Devices) /\ Distinct(devices)
  BY DEF NoticeInv
<1>2. CASE RemoveAllTokens
  BY <1>2 DEF RemoveAllTokens, NoticeInv, Distinct
<1>3. ASSUME NEW t \in Devices, SaveToken(t)
      PROVE  NoticeInv'
  BY <1>3, SavedFirst DEF SaveToken, NoticeInv, Distinct
<1>4. ASSUME NEW t \in Devices, RemoveToken(t)
      PROVE  NoticeInv'
  BY <1>1, <1>4, Dropped DEF RemoveToken, NoticeInv, Distinct
<1>5. ASSUME NEW t \in Devices, TokenDies(t)
      PROVE  NoticeInv'
  BY <1>5 DEF TokenDies, NoticeInv, Distinct
<1> QED
  BY <1>2, <1>3, <1>4, <1>5

LEMMA NoticesKeep == NoticeInv /\ [NotificationsNext]_noticeVars => NoticeInv'
<1> SUFFICES ASSUME NoticeInv, [NotificationsNext]_noticeVars PROVE NoticeInv'
  OBVIOUS
<1>1. CASE UNCHANGED noticeVars
  BY <1>1 DEF noticeVars, NoticeInv, Distinct
<1>2. CASE NotificationsNext
  BY <1>2, Begun, Pushed, Concluded, Cleaned, ReadByUser, DeviceSteps
     DEF NotificationsNext, DeliverySteps
<1> QED
  BY <1>1, <1>2

(* What a step does to the devices of the user. *)
LEMMA DevicesStay ==
  ASSUME NoticeInv, [NotificationsNext]_noticeVars, NEW t \in Registered \ dead
  PROVE  t \in Registered' \/ RemoveToken(t) \/ RemoveAllTokens
<1>1. CASE devices' = devices
  BY <1>1 DEF Registered
<1>2. CASE \E d \in Deliveries : RemoveInvalidTokens(d)
  <2>1. PICK d \in Deliveries : RemoveInvalidTokens(d)
    BY <1>2
  <2>2. devices' = Drop(work[d].failed) /\ t \notin work[d].failed
    BY <2>1 DEF RemoveInvalidTokens, NoticeInv
  <2>3. {Drop(work[d].failed)[i] : i \in DOMAIN Drop(work[d].failed)} = Registered \ work[d].failed
    BY Dropped DEF NoticeInv
  <2> QED
    BY <2>2, <2>3 DEF Registered
<1>3. CASE \E u \in Devices : SaveToken(u)
  <2>1. PICK u \in Devices : devices' = Upserted(u)
    BY <1>3 DEF SaveToken
  <2>2. \E i \in DOMAIN Upserted(u) : Upserted(u)[i] = t
    BY SavedFirst
  <2> QED
    BY <2>1, <2>2 DEF Registered
<1>4. CASE \E u \in Devices : RemoveToken(u)
  <2>1. PICK u \in Devices : RemoveToken(u)
    BY <1>4
  <2>2. CASE u = t
    BY <2>1, <2>2 DEF RemoveToken
  <2>3. CASE u # t
    <3>1. devices' = Drop({u})
      BY <2>1 DEF RemoveToken
    <3>2. {Drop({u})[i] : i \in DOMAIN Drop({u})} = Registered \ {u}
      BY Dropped DEF NoticeInv
    <3> QED
      BY <2>3, <3>1, <3>2 DEF Registered
  <2> QED
    BY <2>2, <2>3
<1>5. CASE RemoveAllTokens
  BY <1>5
<1>6. CASE NotificationsNext /\ devices' # devices
  BY <1>2, <1>3, <1>4, <1>5, <1>6
     DEF NotificationsNext, DeliverySteps, Emit, CreateRow, GetUserTokens, Dispatch, WriteStatus,
         MarkFailed, CreateFails, DeliveryFails, Lost, MarkAsRead, MarkAllAsRead, TokenDies
<1> QED
  BY <1>1, <1>6 DEF noticeVars

-----------------------------------------------------------------------------
(* The account.  A row, once there, stays: a session exists only for an     *)
(* account that exists, since every request that ends in one found the row  *)
(* before it began, or makes it.                                            *)
ForUsers     == {"setPassword", "changePassword", "generateTokens", "storeToken"}
NeedsUser(j) == j.at \in ForUsers \/ j.next \in ForUsers

UserRows == [status : UserStatus, verified : BOOLEAN, password : BOOLEAN]

UserInv ==
  /\ user \in UserRows /\ otp \in Codes \union {NoCode}
  /\ (\E t \in Tokens : issued[t] > 0) \/ user.password => Exists
  /\ \A c \in Clients : NeedsUser(call[c]) => Exists

LEMMA UserInit == AccountsInit => UserInv
BY DEF AccountsInit, UserInv, UserRows, UserStatus, NoUser, NoCall, NeedsUser, ForUsers, Exists

LEMMA UserMoves ==
  ASSUME TokenInv, UserInv, NEW c \in Clients, NEW j, call' = [call EXCEPT ![c] = j],
         user' \in UserRows, otp' \in Codes \union {NoCode}, issued' = issued,
         Exists => Exists', user'.password => Exists', NeedsUser(j) => Exists'
  PROVE  UserInv'
<1>1. call'[c] = j /\ \A d \in Clients : d # c => call'[d] = call[d]
  BY DEF TokenInv, TokensOK
<1> QED
  BY <1>1 DEF UserInv

LEMMA UserOpens ==
  ASSUME TokenInv, UserInv, NEW c \in Clients, NEW at, NEW next, NEW t, Open(c, at, next, t),
         user' \in UserRows, otp' \in Codes \union {NoCode}, issued' = issued, Exists => Exists',
         user'.password => Exists',
         at \in ForUsers \/ next \in ForUsers => Exists'
  PROVE  UserInv'
<1> DEFINE j == [NoCall EXCEPT !.at = at, !.next = next, !.token = t]
<1>1. call' = [call EXCEPT ![c] = j] /\ (NeedsUser(j) => Exists')
  BY DEF Open, NeedsUser, NoCall
<1> HIDE DEF j
<1> QED
  BY <1>1, UserMoves

LEMMA UserReturns ==
  ASSUME TokenInv, UserInv, NEW c \in Clients, Return(c),
         user' \in UserRows, otp' \in Codes \union {NoCode}, issued' = issued, Exists => Exists',
         user'.password => Exists'
  PROVE  UserInv'
<1>1. ~NeedsUser(NoCall)
  BY DEF NoCall, NeedsUser, ForUsers
<1> QED
  BY <1>1, UserMoves DEF Return

LEMMA UserSteps ==
  ASSUME TokenInv, UserInv, NEW c \in Clients, NEW at, Step(c, at),
         user' \in UserRows, otp' \in Codes \union {NoCode}, issued' = issued, Exists => Exists',
         user'.password => Exists',
         at \in ForUsers => Exists'
  PROVE  UserInv'
<1> DEFINE j == [call[c] EXCEPT !.at = at]
<1>1. call' = [call EXCEPT ![c] = j]
  BY DEF Step
<1>2. call[c] \in Calls
  BY DEF TokenInv, TokensOK
<1>3. j.at = at /\ j.next = call[c].next
  BY <1>2 DEF Calls
<1>4. NeedsUser(j) => Exists'
  <2> HIDE DEF j
  <2> QED
    BY <1>3 DEF NeedsUser, UserInv
<1> HIDE DEF j
<1> QED
  BY <1>1, <1>4, UserMoves

LEMMA UserInCode ==
  ASSUME TokenInv, UserInv, NEW c \in Clients,
         \/ Signup(c) \/ ResendOtp(c) \/ RequestReset(c) \/ DeleteOtp(c) \/ VerifyOtp(c)
         \/ SetPassword(c) \/ CallFails(c)
         \/ \E code \in Codes : SendOtp(c, code)
         \/ \E purpose \in {"activate", "setPassword"} : ReadOtp(c, purpose)
  PROVE  UserInv'
<1>0. user \in UserRows /\ otp \in Codes \union {NoCode} /\ (Exists <=> user.status # "NONE")
      /\ (user.password => Exists)
  BY DEF UserInv, Exists
<1>1. CASE Signup(c)
  <2>1. user' \in UserRows /\ user'.status # "NONE"
    BY <1>1 DEF Signup, UserRows, UserStatus
  <2> QED
    BY <1>0, <1>1, <2>1, UserOpens DEF ForUsers, Signup, Exists
<1>2. CASE ResendOtp(c) \/ RequestReset(c)
  BY <1>0, <1>2, UserOpens DEF ForUsers, ResendOtp, RequestReset, accountRows, Exists
<1>3. CASE DeleteOtp(c)
  <2>1. call[c].next \in ForUsers => Exists
    BY DEF UserInv, NeedsUser
  <2> QED
    BY <1>0, <1>3, <2>1, UserSteps DEF DeleteOtp, Exists
<1>4. CASE VerifyOtp(c)
  <2>1. user' \in UserRows /\ user'.status # "NONE"
    BY <1>0, <1>4 DEF VerifyOtp, UserRows, UserStatus
  <2> QED
    BY <1>0, <1>4, <2>1, UserSteps DEF VerifyOtp, Exists
<1>5. CASE SetPassword(c)
  <2>1. user' \in UserRows /\ user'.status = user.status /\ Exists
    BY <1>0, <1>5 DEF SetPassword, UserRows, UserInv, NeedsUser, ForUsers
  <2>2. CASE call[c].at = "setPassword"
    BY <1>0, <1>5, <2>1, <2>2, UserSteps DEF SetPassword, Exists
  <2>3. CASE call[c].at # "setPassword"
    BY <1>0, <1>5, <2>1, <2>3, UserReturns DEF SetPassword, Exists
  <2> QED
    BY <2>2, <2>3
<1>6. CASE CallFails(c)
  BY <1>0, <1>6, UserReturns DEF CallFails, accountRows, Exists
<1>7. CASE \E code \in Codes : SendOtp(c, code)
  BY <1>0, <1>7, UserReturns DEF SendOtp, Exists
<1>8. CASE \E purpose \in {"activate", "setPassword"} : ReadOtp(c, purpose)
  <2>1. PICK purpose \in {"activate", "setPassword"} : ReadOtp(c, purpose)
    BY <1>8
  <2> QED
    BY <1>0, <2>1, UserOpens DEF ForUsers, ReadOtp, accountRows, Exists
<1> QED
  BY <1>1, <1>2, <1>3, <1>4, <1>5, <1>6, <1>7, <1>8

LEMMA UserInSession ==
  ASSUME TokenInv, UserInv, NEW c \in Clients,
         \/ ChangePassword(c) \/ Login(c) \/ GoogleLogin(c)
         \/ CheckBlock(c) \/ Suspend(c) \/ CheckUnblock(c) \/ Reinstate(c) \/ Rotate(c)
         \/ SignRefreshToken(c) \/ GenerateTokens(c) \/ \E t \in Tokens : RefreshToken(c, t)
  PROVE  UserInv'
<1>0. user \in UserRows /\ otp \in Codes \union {NoCode} /\ (Exists <=> user.status # "NONE")
      /\ (user.password => Exists)
  BY DEF UserInv, Exists
<1>1. CASE ChangePassword(c) \/ CheckBlock(c) \/ CheckUnblock(c)
  BY <1>0, <1>1, UserOpens DEF ForUsers, ChangePassword, CheckBlock, CheckUnblock,
                                accountRows, Exists
<1>2. CASE Login(c)
  BY <1>0, <1>2, UserOpens DEF ForUsers, Login, accountRows, Exists
<1>3. CASE GoogleLogin(c)
  <2>1. user' \in UserRows /\ user'.status # "NONE"
    BY <1>0, <1>3 DEF GoogleLogin, UserRows, UserStatus, Exists
  <2> QED
    BY <1>0, <1>3, <2>1, UserOpens DEF ForUsers, GoogleLogin, Exists
<1>4. CASE Suspend(c) \/ Reinstate(c)
  <2>1. user' \in UserRows /\ user'.status # "NONE"
    BY <1>0, <1>4 DEF Suspend, Reinstate, UserRows, UserStatus
  <2> QED
    BY <1>0, <1>4, <2>1, UserReturns DEF Suspend, Reinstate, Exists
<1>5. CASE Rotate(c)
  <2>1. call[c].next \in ForUsers => Exists
    BY DEF UserInv, NeedsUser
  <2>2. CASE call[c].next = "idle"
    BY <1>0, <1>5, <2>2, UserReturns DEF Rotate, Exists
  <2>3. CASE call[c].next # "idle"
    BY <1>0, <1>5, <2>1, <2>3, UserSteps DEF Rotate, Exists
  <2> QED
    BY <2>2, <2>3
<1>6. CASE GenerateTokens(c)
  <2>1. Exists
    BY <1>6 DEF GenerateTokens, UserInv, NeedsUser, ForUsers
  <2>2. user' = user /\ otp' = otp /\ Return(c)
    BY <1>6 DEF GenerateTokens
  <2>3. call' \in [Clients -> Calls \union {NoCall}] /\ Exists'
    BY <2>1, <2>2 DEF Return, TokenInv, TokensOK, Exists
  <2> QED
    BY <2>2, <2>3 DEF UserInv
<1>7. CASE \E t \in Tokens : RefreshToken(c, t)
  <2>1. PICK t \in Tokens : RefreshToken(c, t)
    BY <1>7
  <2>2. issued[t] > 0
    BY <2>1, Counted DEF RefreshToken, TokenInv, TokensOK, Accounted, Stored
  <2>3. Exists
    BY <2>2 DEF UserInv
  <2> QED
    BY <1>0, <2>1, <2>3, UserOpens DEF RefreshToken, accountRows, Exists
<1>8. CASE SignRefreshToken(c)
  <2>1. Exists
    BY <1>8 DEF SignRefreshToken, UserInv, NeedsUser, ForUsers
  <2>2. user' = user /\ otp' = otp /\ issued' = issued
    BY <1>8 DEF SignRefreshToken, accountRows
  <2>3. Exists'
    BY <2>1, <2>2 DEF Exists
  <2> QED
    BY <2>2, <2>3 DEF UserInv
<1> QED
  BY <1>1, <1>2, <1>3, <1>4, <1>5, <1>6, <1>7, <1>8

LEMMA UserKeeps == TokenInv /\ UserInv /\ [AccountsNext]_accountVars => UserInv'
<1> SUFFICES ASSUME TokenInv, UserInv, [AccountsNext]_accountVars PROVE UserInv'
  OBVIOUS
<1>1. CASE UNCHANGED <<user, otp, issued, call>>
  BY <1>1 DEF UserInv, Exists
<1>2. CASE OtpExpires \/ Tick
  BY <1>2 DEF OtpExpires, Tick, UserInv, Exists
<1>3. CASE \E t \in Tokens : Logout(t) \/ TokenExpires(t)
  BY <1>1, <1>3 DEF Logout, TokenExpires
<1> QED
  BY <1>1, <1>2, <1>3, UserInCode, UserInSession DEF AccountsNext, accountVars, accountRows

-----------------------------------------------------------------------------
(* The rows after a booking.  What a reader is about to cache, and what is  *)
(* cached, is a version the table has had; a reply is to a review there is. *)
DeliveryStatus  == {"SCHEDULED", "OUT_FOR_DELIVERY", "DELIVERED", "FAILED"}
ComplaintStatus == {"none", "PENDING", "IN_PROGRESS", "RESOLVED", "REJECTED"}

JobFits(j) ==
  /\ j.kind = "delivery"  => j.to \in DeliveryStatus
  /\ j.kind = "complaint" => j.to \in ComplaintStatus
  /\ j.kind = "reply"     => j.booking \in reviews

RowsInv ==
  /\ delivery.status \in DeliveryStatus /\ complaint.status \in ComplaintStatus
  /\ replied \subseteq reviews
  /\ types \in Versions /\ cached \in -1 .. types
  /\ fills \in [Handlers -> -1 .. types]
  /\ \A h \in Handlers : JobFits(job[h])

LEMMA RowsInit == AfterSalesInit => RowsInv
BY AfterSalesAssumption
   DEF AfterSalesInit, RowsInv, JobFits, Idle, DeliveryStatus, ComplaintStatus

(* A handler takes up a job, or ends it. *)
LEMMA RowsMove ==
  ASSUME DeskInv, RowsInv, NEW h \in Handlers, NEW j, job' = [job EXCEPT ![h] = j], JobFits(j),
         delivery'.status \in DeliveryStatus, complaint'.status \in ComplaintStatus,
         replied' \subseteq reviews', reviews \subseteq reviews',
         types' \in Versions, cached' \in -1 .. types', fills' \in [Handlers -> -1 .. types']
  PROVE  RowsInv'
<1>1. job'[h] = j /\ \A k \in Handlers : k # h => job'[k] = job[k]
  BY DEF DeskInv, StatusInv
<1>2. \A k \in Handlers : JobFits(job[k])'
  BY <1>1 DEF RowsInv, JobFits
<1> QED
  BY <1>2 DEF RowsInv

LEMMA RowsMoved ==
  ASSUME DeskInv, RowsInv, NEW h \in Handlers,
         \/ CheckDelivery(h) \/ UpdateDelivery(h) \/ CheckComplaint(h) \/ UpdateComplaint(h)
  PROVE  RowsInv'
<1>0. JobFits(Idle) /\ JobFits(job[h])
  BY DEF JobFits, Idle, RowsInv
<1>1. CASE CheckDelivery(h)
  <2>1. PICK to \in DeliveryStatus : job' = [job EXCEPT ![h] = [kind |-> "delivery", to |-> to]]
    BY <1>1 DEF CheckDelivery, DeliveryTransitions, Takes, DeliveryStatus
  <2>2. JobFits([kind |-> "delivery", to |-> to])
    BY DEF JobFits
  <2> QED
    BY <1>1, <2>1, <2>2, RowsMove DEF CheckDelivery, Reviewing, Caching, RowsInv
<1>2. CASE UpdateDelivery(h)
  <2>1. delivery'.status \in DeliveryStatus
    BY <1>0, <1>2 DEF UpdateDelivery, Moved, JobFits
  <2> QED
    BY <1>0, <1>2, <2>1, RowsMove DEF UpdateDelivery, Finishes, Reviewing, Caching, RowsInv
<1>3. CASE CheckComplaint(h)
  <2>1. PICK to \in ComplaintStatus : job' = [job EXCEPT ![h] = [kind |-> "complaint", to |-> to]]
    BY <1>3 DEF CheckComplaint, ComplaintTransitions, Takes, ComplaintStatus
  <2>2. JobFits([kind |-> "complaint", to |-> to])
    BY DEF JobFits
  <2> QED
    BY <1>3, <2>1, <2>2, RowsMove DEF CheckComplaint, Reviewing, Caching, RowsInv
<1>4. CASE UpdateComplaint(h)
  <2>1. complaint'.status \in ComplaintStatus
    BY <1>0, <1>4 DEF UpdateComplaint, Moved, JobFits
  <2> QED
    BY <1>0, <1>4, <2>1, RowsMove DEF UpdateComplaint, Finishes, Reviewing, Caching, RowsInv
<1> QED
  BY <1>1, <1>2, <1>3, <1>4

LEMMA RowsReviewed ==
  ASSUME DeskInv, RowsInv, NEW h \in Handlers,
         \/ CheckReview(h) \/ Aggregate(h) \/ CommitReview(h) \/ CheckReply(h) \/ ReplyToReview(h)
  PROVE  RowsInv'
<1>0. JobFits(Idle) /\ JobFits(job[h])
  BY DEF JobFits, Idle, RowsInv
<1>1. CASE CheckReview(h)
  <2>1. PICK b : job' = [job EXCEPT ![h] = [kind |-> "review", booking |-> b]]
    BY <1>1 DEF CheckReview, Takes
  <2>2. JobFits([kind |-> "review", booking |-> b])
    BY DEF JobFits
  <2> QED
    BY <1>1, <2>1, <2>2, RowsMove DEF CheckReview, Reviewing, Caching, RowsInv
<1>2. CASE Aggregate(h)
  <2> DEFINE j == [kind |-> "rate", booking |-> job[h].booking, count |-> CountReviews(reviews)]
  <2>1. JobFits(j) /\ job' = [job EXCEPT ![h] = j]
    BY <1>2 DEF Aggregate, JobFits
  <2> HIDE DEF j
  <2> QED
    BY <1>2, <2>1, RowsMove DEF Aggregate, Reviewing, Caching, RowsInv
<1>3. CASE CommitReview(h)
  <2>1. replied' \subseteq reviews' /\ reviews \subseteq reviews'
    BY <1>3 DEF CommitReview, RowsInv
  <2> QED
    BY <1>0, <1>3, <2>1, RowsMove DEF CommitReview, Finishes, Caching, RowsInv
<1>4. CASE CheckReply(h)
  <2>1. PICK b \in reviews : job' = [job EXCEPT ![h] = [kind |-> "reply", booking |-> b]]
    BY <1>4 DEF CheckReply, Takes
  <2>2. JobFits([kind |-> "reply", booking |-> b])
    BY DEF JobFits
  <2> QED
    BY <1>4, <2>1, <2>2, RowsMove DEF CheckReply, Reviewing, Caching, RowsInv
<1>5. CASE ReplyToReview(h)
  <2>1. replied' \subseteq reviews' /\ reviews \subseteq reviews'
    BY <1>0, <1>5 DEF ReplyToReview, RowsInv, JobFits
  <2> QED
    BY <1>0, <1>5, <2>1, RowsMove DEF ReplyToReview, Finishes, Caching, RowsInv
<1> QED
  BY <1>1, <1>2, <1>3, <1>4, <1>5

(* The table only moves on, so what was read of it stays a version it had.  *)
LEMMA RowsCached ==
  ASSUME DeskInv, RowsInv, NEW h \in Handlers,
         \/ ReadTypes(h) \/ FillCache(h) \/ ChangeTypes(h) \/ Evict(h) \/ HandlerFails(h)
  PROVE  RowsInv'
<1>0. /\ JobFits(Idle) /\ types \in Nat /\ -1 \in -1 .. types
      /\ fills \in [Handlers -> -1 .. types] /\ fills[h] \in -1 .. types
      /\ replied \subseteq reviews /\ cached \in -1 .. types
  BY AfterSalesAssumption DEF JobFits, Idle, RowsInv
<1>1. CASE ReadTypes(h)
  <2>1. fills' \in [Handlers -> -1 .. types]
    BY <1>0, <1>1 DEF ReadTypes
  <2> QED
    BY <1>1, <2>1 DEF ReadTypes, Reviewing, RowsInv, JobFits
<1>2. CASE FillCache(h)
  <2>1. fills' \in [Handlers -> -1 .. types] /\ cached' \in -1 .. types
    BY <1>0, <1>2 DEF FillCache
  <2> QED
    BY <1>2, <2>1 DEF FillCache, Reviewing, RowsInv, JobFits
<1>3. CASE ChangeTypes(h)
  <2>1. types' \in Versions /\ types' = types + 1
    BY <1>3 DEF ChangeTypes
  <2>2. cached' \in -1 .. types' /\ fills' \in [Handlers -> -1 .. types']
    BY <1>0, <1>3, <2>1 DEF ChangeTypes
  <2>3. JobFits([kind |-> "evict"])
    BY DEF JobFits
  <2> QED
    BY <1>3, <2>1, <2>2, <2>3, RowsMove DEF ChangeTypes, Takes, Reviewing, RowsInv
<1>4. CASE Evict(h)
  BY <1>0, <1>4, RowsMove DEF Evict, Finishes, Reviewing, RowsInv
<1>5. CASE HandlerFails(h)
  <2>1. fills' \in [Handlers -> -1 .. types]
    BY <1>0, <1>5 DEF HandlerFails
  <2> QED
    BY <1>0, <1>5, <2>1, RowsMove DEF HandlerFails, Finishes, Reviewing, Caching, RowsInv
<1> QED
  BY <1>1, <1>2, <1>3, <1>4, <1>5

LEMMA RowsKeep == DeskInv /\ RowsInv /\ [AfterSalesNext]_deskVars => RowsInv'
<1> SUFFICES ASSUME DeskInv, RowsInv, [AfterSalesNext]_deskVars PROVE RowsInv'
  OBVIOUS
<1>1. CASE UNCHANGED deskVars
  BY <1>1 DEF deskVars, RowsInv, JobFits
<1>2. CASE FileComplaint
  <2>1. complaint'.status \in ComplaintStatus
    BY <1>2 DEF FileComplaint, Moved, ComplaintStatus
  <2> QED
    BY <1>2, <2>1 DEF FileComplaint, Reviewing, Caching, RowsInv, JobFits
<1>3. CASE CacheExpires
  <2>1. cached' \in -1 .. types
    BY <1>3, AfterSalesAssumption DEF CacheExpires, RowsInv
  <2> QED
    BY <1>3, <2>1 DEF CacheExpires, Reviewing, RowsInv, JobFits
<1> QED
  BY <1>1, <1>2, <1>3, RowsMoved, RowsReviewed, RowsCached DEF AfterSalesNext

-----------------------------------------------------------------------------
(* The invariants of the three parts; a step of one part leaves the rows of *)
(* the other two alone.                                                     *)
BackInv == TokenInv /\ UserInv /\ NoticeInv /\ DeskInv /\ RowsInv

LEMMA Together == BackOfficeSpec => []BackInv
<1>1. BackOfficeInit => BackInv
  BY TokensInit, UserInit, NoticesInit, DeskInit, RowsInit DEF BackOfficeInit, BackInv
<1>2. [BackOfficeNext]_backVars =>
        [AccountsNext]_accountVars /\ [NotificationsNext]_noticeVars /\ [AfterSalesNext]_deskVars
  BY DEF BackOfficeNext, OnlyAccounts, OnlyNotifications, OnlyAfterSales, backVars
<1>3. BackInv /\ [BackOfficeNext]_backVars => BackInv'
  BY <1>2, AccountsKeep, UserKeeps, NoticesKeep, DeskKeeps, RowsKeep DEF BackInv
<1> QED
  BY <1>1, <1>3, PTL DEF BackOfficeSpec

(* Every row of the three parts has its type: no session without an account *)
(* and no notification read before it was created, a device registered once *)
(* only, a reply only to a review there is, and no version of the service   *)
(* types cached that the table never had.                                   *)
THEOREM RowsAreTyped == BackOfficeSpec => []BackOfficeTypeOK
<1>1. TokenInv /\ UserInv => AccountsTypeOK
  <2> SUFFICES ASSUME TokenInv, UserInv PROVE AccountsTypeOK
    OBVIOUS
  <2>1. \A t \in tokens : t \in Tokens /\ issued[t] > 0
    BY Counted DEF TokenInv, TokensOK, Accounted, Stored
  <2> QED
    BY <2>1 DEF TokenInv, TokensOK, UserInv, UserRows, AccountsTypeOK
<1>2. NoticeInv => NotificationsTypeOK
  <2> SUFFICES ASSUME NoticeInv PROVE NotificationsTypeOK
    OBVIOUS
  <2>1. \A d \in Deliveries : note[d] \in Notes /\ work[d] \in Works
    BY DEF NoticeInv
  <2>2. Registered \subseteq Devices
    BY DEF NoticeInv, Registered
  <2> QED
    BY <2>1, <2>2 DEF NoticeInv, Notes, Works, Distinct, NotificationsTypeOK
<1>3. DeskInv /\ RowsInv => AfterSalesTypeOK
  BY DEF DeskInv, ReviewInv, RowsInv, DeliveryStatus, ComplaintStatus, AfterSalesTypeOK
<1>4. BackInv => BackOfficeTypeOK
  BY <1>1, <1>2, <1>3 DEF BackInv, BackOfficeTypeOK
<1> QED
  BY <1>4, Together, PTL

(* Deliveries that work with tokens read some steps ago clean up while the  *)
(* user logs in and out: a device Firebase still knows is never forgotten   *)
(* by that, only by a logout.                                               *)
THEOREM LiveDevicesAreKept == BackOfficeSpec => LiveDevicesStay
<1>1. BackInv /\ [BackOfficeNext]_backVars =>
        [\A t \in Registered \ dead :
           t \in Registered' \/ RemoveToken(t) \/ RemoveAllTokens]_noticeVars
  <2> SUFFICES ASSUME BackInv, [BackOfficeNext]_backVars, NEW t \in Registered \ dead
               PROVE  t \in Registered' \/ RemoveToken(t) \/ RemoveAllTokens
    OBVIOUS
  <2>1. [NotificationsNext]_noticeVars
    BY DEF BackOfficeNext, OnlyAccounts, OnlyNotifications, OnlyAfterSales, backVars
  <2> QED
    BY <2>1, DevicesStay DEF BackInv
<1> QED
  BY <1>1, Together, PTL DEF BackOfficeSpec, LiveDevicesStay

(* However often and at however many places a refresh token is presented at *)
(* once, a row of it is exchanged for one pair at most, and for none after  *)
(* a logout took it away: exchanges and logouts together are no more than   *)
(* the times the string was issued, which can be several in its second.     *)
THEOREM TokensRotateOnce == BackOfficeSpec => []RotationIsOnce
<1>1. BackInv => RotationIsOnce
  <2> SUFFICES ASSUME TokenInv, NEW t \in Tokens
               PROVE  heirs[t] + loggedOut[t] <= issued[t]
    BY DEF BackInv, RotationIsOnce
  <2>1. /\ heirs[t] \in Nat /\ loggedOut[t] \in Nat /\ issued[t] \in Nat
        /\ Stored(t) \in Nat /\ Cardinality(Exchanging(t)) \in Nat /\ Accounted(t)
    BY Counted DEF TokenInv, TokensOK, Stored
  <2> QED
    BY <2>1 DEF Accounted
<1> QED
  BY <1>1, Together, PTL

(* Updates of a delivery and of a complaint race freely, and still nothing  *)
(* is delivered that was not out, or resolved that nobody took up.          *)
THEOREM ClosingFollowsTheRules == BackOfficeSpec => []ClosedFollowsTheRules
<1>1. BackInv => ClosedFollowsTheRules
  BY DEF BackInv, DeskInv, StatusInv
<1> QED
  BY <1>1, Together, PTL

(* However many reviews are written at once, the count of a service with    *)
(* reviews is positive and of reviews that exist.                           *)
THEOREM RatingsAreOfReviews == BackOfficeSpec => []RatingIsOfReviews
<1>1. BackInv => RatingIsOfReviews
  BY DEF BackInv, DeskInv, ReviewInv
<1> QED
  BY <1>1, Together, PTL
=============================================================================
