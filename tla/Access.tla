-------------------------------- MODULE Access --------------------------------
(***************************************************************************)
(* The refresh tokens of one user: AuthService, the parts of UserService   *)
(* that end sessions, and RefreshTokenStore.  Redis keeps a key per token  *)
(* and the set of the user's tokens; the commands of a request are steps   *)
(* of their own, a pipeline is one.                                        *)
(***************************************************************************)
EXTENDS Naturals, FiniteSets

CONSTANTS
  Caller,    \* concurrent requests
  MaxTokens  \* bound: tokens that are issued

ASSUME AccessConstants == MaxTokens \in Nat

VARIABLES
  userStatus,  \* users.status
  live,        \* refresh_token:<jti>
  listed,      \* user_refresh_tokens:<user>
  session,     \* the login a token goes back to, 0 of one that is not issued
  call         \* per request: the command it comes to

accessVars == <<userStatus, live, listed, session, call>>

-----------------------------------------------------------------------------
(* Types *)

Token == 1..MaxTokens

\* token: the one the request was sent with, or 0.  found: what SMEMBERS returned.
Call ==
  [at : {"idle", "delete", "unlist", "logout", "unlistLogout", "check", "issue", "deleteAll", "dropSet"},
   token : 0..MaxTokens, found : SUBSET Token]

Idle == [at |-> "idle", token |-> 0, found |-> {}]

AccessTypeOK ==
  /\ userStatus \in {"ACTIVE", "INACTIVE", "LOCKED"}
  /\ live \subseteq Token
  /\ listed \subseteq Token
  /\ session \in [Token -> 0..MaxTokens]
  /\ call \in [Caller -> Call]

-----------------------------------------------------------------------------
(* Requests *)

Issued == {t \in Token : session[t] # 0}

Comes(c, from, to) ==
  /\ call[c].at = from
  /\ call' = [call EXCEPT ![c] = IF to = "idle" THEN Idle ELSE [@ EXCEPT !.at = to]]

\* login: the password fits and the account is active.
Login(c) ==
  /\ userStatus = "ACTIVE"
  /\ Comes(c, "idle", "issue")
  /\ UNCHANGED <<userStatus, live, listed, session>>

\* refresh, consume: HGET.  A client may send a token twice.
Refresh(c) == \E t \in live :
  /\ call[c] = Idle
  /\ call' = [call EXCEPT ![c] = [Idle EXCEPT !.at = "delete", !.token = t]]
  /\ UNCHANGED <<userStatus, live, listed, session>>

\* (Broken variant: what DEL returns is not looked at.)
ConsumeUnchecked(c) ==
  /\ Comes(c, "delete", "unlist")
  /\ live' = live \ {call[c].token}
  /\ UNCHANGED <<userStatus, listed, session>>

\* DEL; who deletes nothing has lost.
Consume(c) ==
  /\ Comes(c, "delete", IF call[c].token \in live THEN "unlist" ELSE "idle")
  /\ live' = live \ {call[c].token}
  /\ UNCHANGED <<userStatus, listed, session>>

Unlist(c) ==
  /\ Comes(c, "unlist", "check") \/ Comes(c, "unlistLogout", "idle")
  /\ listed' = listed \ {call[c].token}
  /\ UNCHANGED <<userStatus, live, session>>

CheckStatus(c) ==
  /\ Comes(c, "check", IF userStatus = "ACTIVE" THEN "issue" ELSE "idle")
  /\ UNCHANGED <<userStatus, live, listed, session>>

\* HSET, EXPIRE, SADD, EXPIRE in one pipeline.
Issue(c) == \E t \in Token :
  /\ Issued = 1..(t - 1)
  /\ Comes(c, "issue", "idle")
  /\ live' = live \cup {t}
  /\ listed' = listed \cup {t}
  /\ session' = [session EXCEPT ![t] = IF call[c].token = 0 THEN t ELSE session[call[c].token]]
  /\ UNCHANGED userStatus

\* logout: any token, the one of the request or not.
Logout(c) == \E t \in Issued :
  /\ call[c] = Idle
  /\ call' = [call EXCEPT ![c] = [Idle EXCEPT !.at = "logout", !.token = t]]
  /\ UNCHANGED <<userStatus, live, listed, session>>

Revoke(c) ==
  /\ Comes(c, "logout", "unlistLogout")
  /\ live' = live \ {call[c].token}
  /\ UNCHANGED <<userStatus, listed, session>>

\* change_password and reset_password, revoke_all_for_user: SMEMBERS.
RevokeAll(c) ==
  /\ call[c] = Idle
  /\ call' = [call EXCEPT ![c] = [Idle EXCEPT !.at = IF listed = {} THEN "dropSet" ELSE "deleteAll", !.found = listed]]
  /\ UNCHANGED <<userStatus, live, listed, session>>

DeleteAll(c) ==
  /\ Comes(c, "deleteAll", "dropSet")
  /\ live' = live \ call[c].found
  /\ UNCHANGED <<userStatus, listed, session>>

DropSet(c) ==
  /\ Comes(c, "dropSet", "idle")
  /\ listed' = {}
  /\ UNCHANGED <<userStatus, live, session>>

\* The process ends; what Redis has done stays.
CallDies(c) ==
  /\ call[c] # Idle
  /\ call' = [call EXCEPT ![c] = Idle]
  /\ UNCHANGED <<userStatus, live, listed, session>>

UpdateUser(s) ==
  /\ userStatus' = s
  /\ UNCHANGED <<live, listed, session, call>>

TokenExpires == \E t \in live :
  /\ live' = live \ {t}
  /\ UNCHANGED <<userStatus, listed, session, call>>

-----------------------------------------------------------------------------

AccessInit ==
  /\ userStatus = "ACTIVE"
  /\ live = {}
  /\ listed = {}
  /\ session = [t \in Token |-> 0]
  /\ call = [c \in Caller |-> Idle]

AccessNext ==
  \/ \E c \in Caller :
       \/ Login(c) \/ Refresh(c) \/ Consume(c) \/ Unlist(c) \/ CheckStatus(c) \/ Issue(c)
       \/ Logout(c) \/ Revoke(c) \/ RevokeAll(c) \/ DeleteAll(c) \/ DropSet(c) \/ CallDies(c)
  \/ \E s \in {"ACTIVE", "INACTIVE", "LOCKED"} : UpdateUser(s)
  \/ TokenExpires

-----------------------------------------------------------------------------
(* Properties *)

\* A refresh token is rotated when it is used: at every moment a login has one
\* token that is live, or one request that is about to issue it, or neither,
\* though a client may send a token several times at once
\* (auth/refresh_tokens.py, RefreshTokenStore and consume).
OneLiveTokenPerSession == \A s \in Token :
  Cardinality({t \in live : session[t] = s})
  + Cardinality({c \in Caller : call[c].at \in {"unlist", "check", "issue"} /\ call[c].token # 0
                                /\ session[call[c].token] = s}) <= 1
=============================================================================
