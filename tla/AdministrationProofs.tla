------------------------- MODULE AdministrationProofs -------------------------
(***************************************************************************)
(* Theorems about Administration.  Each part has an inductive invariant of *)
(* its own, kept by the steps of the part; a step of the whole system is a *)
(* step of one part and leaves the variables of the others alone.          *)
(***************************************************************************)
EXTENDS Administration, FiniteSetTheorems, TLAPS

-----------------------------------------------------------------------------
(* The registry of sources: a credential is stored before the row that     *)
(* refers to it is committed, and is never removed.                        *)

\* What a request is about to write into the row refers to a stored credential.
PendingResolve == \A c \in Client :
  request[c].op \in {"create", "update"} => request[c].ref \in vault

RegistryInv == RegistryTypeOK /\ CredentialsResolve /\ PendingResolve

\* What a request becomes has its type, and leaves the other requests alone.
LEMMA GoesOn ==
  ASSUME RegistryTypeOK, NEW c \in Client, NEW op \in Operation,
         NEW ref \in Credential \cup {NoCredential}, Goes(c, op, ref)
  PROVE  /\ request' \in [Client -> Request]
         /\ request'[c].op = op /\ request'[c].ref = ref
         /\ \A d \in Client \ {c} : request'[d] = request[d]
<1> DEFINE seen == IF op = "deactivateSource" THEN dataSource ELSE connection.active
           next == [op |-> op, ref |-> ref, seen |-> seen]
<1>1. seen \in BOOLEAN
  BY DEF RegistryTypeOK, ConnectionRow
<1>2. next \in Request
  BY <1>1 DEF Request
<1>3. request' = [request EXCEPT ![c] = next]
  BY DEF Goes
<1> QED
  BY <1>2, <1>3 DEF RegistryTypeOK

\* A request that ends leaves the others alone.
LEMMA RequestEnds ==
  ASSUME RegistryTypeOK, NEW c \in Client, request' = [request EXCEPT ![c] = NoRequest]
  PROVE  /\ request' \in [Client -> Request]
         /\ request'[c].op = "none"
         /\ \A d \in Client \ {c} : request'[d] = request[d]
<1>1. NoRequest \in Request /\ NoRequest.op = "none"
  BY DEF NoRequest, Request, Operation
<1> QED
  BY <1>1 DEF RegistryTypeOK

\* The row a request commits has its type; it is there if it was or is created,
\* and its credential is the old one or the one the request has stored.
LEMMA CommittedRow ==
  ASSUME RegistryTypeOK, NEW c \in Client, NEW row \in Written(c)
  PROVE  /\ row \in ConnectionRow
         /\ \/ row.there = connection.there /\ row.ref = connection.ref
            \/ request[c].op \in {"create", "update"} /\ row.ref = request[c].ref
<1> DEFINE r == request[c]
<1>1. connection \in ConnectionRow /\ r \in Request
  BY DEF RegistryTypeOK
<1>2. CASE r.op = "create"
  <2>1. row = [there |-> TRUE, active |-> TRUE, ref |-> r.ref, status |-> "UNKNOWN"]
    BY <1>2 DEF Written
  <2> QED
    BY <1>1, <1>2, <2>1 DEF ConnectionRow, Request
<1>3. CASE r.op = "update"
  <2>1. row = [connection EXCEPT !.ref = r.ref]
    BY <1>3 DEF Written
  <2> QED
    BY <1>1, <1>3, <2>1 DEF ConnectionRow, Request
<1>4. CASE r.op = "deactivate"
  <2>1. row = [connection EXCEPT !.active = @ /\ ~r.seen]
    BY <1>4 DEF Written
  <2> QED
    BY <1>1, <2>1 DEF ConnectionRow, Request
<1>5. CASE r.op = "reactivate"
  <2>1. row = [connection EXCEPT !.active = @ \/ ~r.seen]
    BY <1>5 DEF Written
  <2> QED
    BY <1>1, <2>1 DEF ConnectionRow, Request
<1>6. CASE r.op = "test"
  <2>1. PICK s \in {"HEALTHY", "OFFLINE", "WARNING"} : row = [connection EXCEPT !.status = s]
    BY <1>6 DEF Written
  <2> QED
    BY <1>1, <2>1 DEF ConnectionRow
<1>7. CASE r.op \in {"none", "deactivateSource"}
  <2>1. row = connection
    BY <1>7 DEF Written
  <2> QED
    BY <1>1, <2>1
<1> QED
  BY <1>1, <1>2, <1>3, <1>4, <1>5, <1>6, <1>7 DEF Request, Operation

LEMMA RegistryStart == RegistryInit => RegistryInv
<1> SUFFICES ASSUME RegistryInit PROVE RegistryInv
  OBVIOUS
<1>1. NoRequest \in Request /\ NoRequest.op = "none"
  BY DEF NoRequest, Request, Operation
<1>2. connection \in ConnectionRow /\ ~connection.there
  BY DEF RegistryInit, ConnectionRow
<1> QED
  BY <1>1, <1>2 DEF RegistryInit, RegistryInv, RegistryTypeOK, CredentialsResolve, PendingResolve

\* A request that begins with a credential it has stored, or without one.
LEMMA RequestBegins ==
  ASSUME RegistryInv, NEW c \in Client, NEW op \in Operation,
         NEW ref \in Credential \cup {NoCredential}, Goes(c, op, ref),
         UNCHANGED <<dataSource, connection>>,
         vault \subseteq vault', vault' \subseteq Credential,
         op \in {"create", "update"} => ref \in vault'
  PROVE  RegistryInv'
<1>1. RegistryTypeOK
  BY DEF RegistryInv
<1>2. /\ request' \in [Client -> Request]
      /\ request'[c].op = op /\ request'[c].ref = ref
      /\ \A d \in Client \ {c} : request'[d] = request[d]
  BY <1>1, GoesOn
<1>3. RegistryTypeOK'
  BY <1>1, <1>2 DEF RegistryTypeOK
<1>4. PendingResolve'
  BY <1>2 DEF PendingResolve, RegistryInv
<1> QED
  BY <1>3, <1>4 DEF RegistryInv, CredentialsResolve

LEMMA RegistryStep == RegistryInv /\ [RegistryNext]_registryVars => RegistryInv'
<1> SUFFICES ASSUME RegistryInv, [RegistryNext]_registryVars
             PROVE  RegistryInv'
  OBVIOUS
<1>0. RegistryTypeOK
  BY DEF RegistryInv
<1>1. ASSUME NEW c \in Client, DeactivateSource(c)
      PROVE  RegistryInv'
  BY <1>0, <1>1, RequestBegins DEF DeactivateSource, Operation, RegistryTypeOK
<1>2. ASSUME NEW c \in Client, ReactivateSource(c)
      PROVE  RegistryInv'
  BY <1>2 DEF ReactivateSource, RegistryInv, RegistryTypeOK, CredentialsResolve, PendingResolve
<1>3. ASSUME NEW c \in Client, CreateConnection(c) \/ UpdateConnection(c)
      PROVE  RegistryInv'
  <2>1. PICK op \in {"create", "update"}, ref \in Credential : Store(ref) /\ Goes(c, op, ref)
    BY <1>3 DEF CreateConnection, UpdateConnection
  <2>2. op \in Operation
    BY DEF Operation
  <2>3. vault' = vault \cup {ref}
    BY <2>1 DEF Store
  <2>4. UNCHANGED <<dataSource, connection>>
    BY <1>3 DEF CreateConnection, UpdateConnection
  <2> QED
    BY <1>0, <2>1, <2>2, <2>3, <2>4, RequestBegins DEF RegistryTypeOK
<1>4. ASSUME NEW c \in Client, TestConnection(c) \/ DeactivateConnection(c) \/ ReactivateConnection(c)
      PROVE  RegistryInv'
  <2>1. PICK op \in {"test", "deactivate", "reactivate"} : Goes(c, op, NoCredential)
    BY <1>4 DEF TestConnection, DeactivateConnection, ReactivateConnection
  <2>2. op \in Operation /\ op \notin {"create", "update"}
    BY DEF Operation
  <2>3. UNCHANGED <<dataSource, connection, vault>>
    BY <1>4 DEF TestConnection, DeactivateConnection, ReactivateConnection
  <2> QED
    BY <1>0, <2>1, <2>2, <2>3, RequestBegins DEF RegistryTypeOK
<1>5. ASSUME NEW c \in Client, CommitRequest(c)
      PROVE  RegistryInv'
  <2>1. /\ request' \in [Client -> Request]
        /\ request'[c].op = "none"
        /\ \A d \in Client \ {c} : request'[d] = request[d]
    BY <1>0, <1>5, RequestEnds DEF CommitRequest
  <2>2. connection' = connection \/ connection' \in Written(c)
    BY <1>5 DEF CommitRequest
  <2>3. /\ connection' \in ConnectionRow
        /\ \/ connection'.there = connection.there /\ connection'.ref = connection.ref
           \/ request[c].op \in {"create", "update"} /\ connection'.ref = request[c].ref
    BY <1>0, <2>2, CommittedRow DEF RegistryTypeOK
  <2>4. vault' = vault /\ dataSource' \in BOOLEAN
    BY <1>5 DEF CommitRequest
  <2>5. RegistryTypeOK'
    BY <1>0, <2>1, <2>3, <2>4 DEF RegistryTypeOK
  <2>6. CredentialsResolve'
    BY <2>3, <2>4 DEF RegistryInv, CredentialsResolve, PendingResolve
  <2>7. PendingResolve'
    BY <2>1, <2>4 DEF RegistryInv, PendingResolve
  <2> QED
    BY <2>5, <2>6, <2>7 DEF RegistryInv
<1>6. ASSUME NEW c \in Client, RequestDies(c)
      PROVE  RegistryInv'
  <2>1. /\ request' \in [Client -> Request]
        /\ request'[c].op = "none"
        /\ \A d \in Client \ {c} : request'[d] = request[d]
    BY <1>0, <1>6, RequestEnds DEF RequestDies
  <2> QED
    BY <1>6, <2>1 DEF RequestDies, RegistryInv, RegistryTypeOK, CredentialsResolve, PendingResolve
<1>7. CASE UNCHANGED registryVars
  BY <1>7 DEF registryVars, RegistryInv, RegistryTypeOK, CredentialsResolve, PendingResolve
<1> QED
  BY <1>1, <1>2, <1>3, <1>4, <1>5, <1>6, <1>7 DEF RegistryNext

-----------------------------------------------------------------------------
(* The sessions: a token that is used is deleted by one request, which     *)
(* alone may issue the next one of its login.                              *)

\* A request that has deleted the token it was sent with, and is to issue the next.
Rotating(c) == call[c].at \in {"unlist", "check", "issue"} /\ call[c].token # 0

\* What is live, what a request was sent with and what a token goes back to
\* has been issued; a request that has not begun has no token.
TokensAreIssued ==
  /\ \A t \in live : session[t] # 0
  /\ \A t \in Token : session[t] # 0 => session[session[t]] # 0
  /\ \A c \in Caller : call[c].token # 0 => session[call[c].token] # 0
  /\ \A c \in Caller : call[c].at = "idle" => call[c].token = 0

\* Of one login there are no two live tokens, no two requests that rotate, and
\* not one of each.
OneOfALogin ==
  /\ \A t, u \in live : session[t] = session[u] => t = u
  /\ \A c, d \in Caller :
       Rotating(c) /\ Rotating(d) /\ session[call[c].token] = session[call[d].token] => c = d
  /\ \A c \in Caller, t \in live : Rotating(c) => session[t] # session[call[c].token]

AccessInv == AccessTypeOK /\ TokensAreIssued /\ OneOfALogin

\* A set whose elements are equal has at most one.
LEMMA AtMostOne ==
  ASSUME NEW S, \A x, y \in S : x = y
  PROVE  /\ Cardinality(S) \in {0, 1}
         /\ S = {} => Cardinality(S) = 0
<1>1. CASE S = {}
  BY <1>1, FS_EmptySet
<1>2. ASSUME NEW x \in S
      PROVE  Cardinality(S) = 1
  <2>1. S = {x}
    BY <1>2
  <2> QED
    BY <2>1, FS_Singleton
<1> QED
  BY <1>1, <1>2

\* What the invariant says in sets is what the property says in numbers.
LEMMA OneTokenOrRequest == AccessInv => OneLiveTokenPerSession
<1> SUFFICES ASSUME AccessInv, NEW s \in Token
             PROVE  Cardinality({t \in live : session[t] = s})
                    + Cardinality({c \in Caller : call[c].at \in {"unlist", "check", "issue"} /\ call[c].token # 0
                                                  /\ session[call[c].token] = s}) <= 1
  BY DEF OneLiveTokenPerSession
<1> DEFINE Tokens   == {t \in live : session[t] = s}
           Requests == {c \in Caller : call[c].at \in {"unlist", "check", "issue"} /\ call[c].token # 0
                                       /\ session[call[c].token] = s}
<1>1. \A t, u \in Tokens : t = u
  BY DEF AccessInv, OneOfALogin
<1>2. \A c, d \in Requests : c = d
  BY DEF AccessInv, OneOfALogin, Rotating
<1>3. Tokens = {} \/ Requests = {}
  BY DEF AccessInv, OneOfALogin, Rotating
<1> HIDE DEF Tokens, Requests
<1>4. Cardinality(Tokens) \in {0, 1} /\ Cardinality(Requests) \in {0, 1}
  BY <1>1, <1>2, AtMostOne
<1>5. Cardinality(Tokens) = 0 \/ Cardinality(Requests) = 0
  BY <1>3, FS_EmptySet
<1>6. Cardinality(Tokens) + Cardinality(Requests) <= 1
  BY <1>4, <1>5
<1> QED
  BY <1>6 DEF Tokens, Requests

\* The command a request comes to.
Commands == {"idle", "delete", "unlist", "logout", "unlistLogout", "check", "issue", "deleteAll", "dropSet"}

\* A request that comes to its next command keeps its token until it has ended.
LEMMA ComesOn ==
  ASSUME AccessTypeOK, NEW c \in Caller, NEW from \in Commands, NEW to \in Commands, Comes(c, from, to)
  PROVE  /\ call' \in [Caller -> Call]
         /\ call[c].at = from /\ call'[c].at = to
         /\ call'[c].token = IF to = "idle" THEN 0 ELSE call[c].token
         /\ \A d \in Caller \ {c} : call'[d] = call[d]
<1>1. call \in [Caller -> Call] /\ call[c] \in Call
  BY DEF AccessTypeOK
<1>2. MaxTokens \in Nat /\ 0 \in 0..MaxTokens
  BY AccessConstants
<1>3. Idle \in Call /\ Idle.at = "idle" /\ Idle.token = 0
  BY <1>2 DEF Idle, Call, Token
<1>4. CASE to = "idle"
  <2>1. call' = [call EXCEPT ![c] = Idle]
    BY <1>4 DEF Comes
  <2> QED
    BY <1>1, <1>3, <1>4, <2>1 DEF Comes
<1>5. CASE to # "idle"
  <2> DEFINE next == [call[c] EXCEPT !.at = to]
  <2>1. call' = [call EXCEPT ![c] = next]
    BY <1>1, <1>5 DEF Comes
  <2>2. next \in Call /\ next.at = to /\ next.token = call[c].token
    BY <1>1 DEF Call, Commands
  <2> QED
    BY <1>1, <1>5, <2>1, <2>2 DEF Comes
<1> QED
  BY <1>4, <1>5

\* A request that begins.
LEMMA CallBegins ==
  ASSUME AccessTypeOK, NEW c \in Caller, NEW new \in Call, call' = [call EXCEPT ![c] = new]
  PROVE  /\ call' \in [Caller -> Call]
         /\ call'[c] = new
         /\ \A d \in Caller \ {c} : call'[d] = call[d]
  BY DEF AccessTypeOK

\* A step that issues no token and lets no further request rotate.
LEMMA TokensOnlyGo ==
  ASSUME AccessInv, AccessTypeOK', session' = session, live' \subseteq live,
         \A c \in Caller : call'[c].token # 0 => session[call'[c].token] # 0,
         \A c \in Caller : call'[c].at = "idle" => call'[c].token = 0,
         \A c \in Caller : Rotating(c)' => Rotating(c) /\ call'[c].token = call[c].token
  PROVE  AccessInv'
<1>1. TokensAreIssued'
  BY DEF AccessInv, TokensAreIssued
<1>2. OneOfALogin'
  BY DEF AccessInv, OneOfALogin
<1> QED
  BY <1>1, <1>2 DEF AccessInv

LEMMA AccessStart == AccessInit => AccessInv
<1> SUFFICES ASSUME AccessInit PROVE AccessInv
  OBVIOUS
<1>1. MaxTokens \in Nat /\ 0 \in 0..MaxTokens
  BY AccessConstants
<1>2. Idle \in Call /\ Idle.at = "idle" /\ Idle.token = 0
  BY <1>1 DEF Idle, Call, Token
<1>3. AccessTypeOK
  BY <1>1, <1>2 DEF AccessInit, AccessTypeOK
<1>4. \A c \in Caller : call[c] = Idle
  BY DEF AccessInit
<1> QED
  BY <1>2, <1>3, <1>4 DEF AccessInit, AccessInv, TokensAreIssued, OneOfALogin, Rotating

\* DEL decides who rotates: whoever deletes a live token was the only one to.
LEMMA ConsumeStep ==
  ASSUME AccessInv, NEW c \in Caller, Consume(c)
  PROVE  AccessInv'
<1>0. AccessTypeOK
  BY DEF AccessInv
<1> DEFINE t  == call[c].token
           to == IF t \in live THEN "unlist" ELSE "idle"
<1>1. "delete" \in Commands /\ to \in Commands
  BY DEF Commands
<1>2. /\ call' \in [Caller -> Call]
      /\ call[c].at = "delete" /\ call'[c].at = to
      /\ call'[c].token = IF to = "idle" THEN 0 ELSE t
      /\ \A d \in Caller \ {c} : call'[d] = call[d]
  BY <1>0, <1>1, ComesOn DEF Consume
<1>3. live' = live \ {t} /\ UNCHANGED <<userStatus, listed, session>>
  BY DEF Consume
<1>4. AccessTypeOK'
  BY <1>0, <1>2, <1>3 DEF AccessTypeOK
<1>5. CASE t \notin live
  <2>1. call'[c].at = "idle" /\ call'[c].token = 0
    BY <1>2, <1>5
  <2>2. \A d \in Caller : Rotating(d)' => Rotating(d) /\ call'[d].token = call[d].token
    BY <1>2, <2>1 DEF Rotating
  <2> QED
    BY <1>2, <1>3, <1>4, <2>1, <2>2, TokensOnlyGo DEF AccessInv, TokensAreIssued
<1>6. CASE t \in live
  <2>1. call'[c].at = "unlist" /\ call'[c].token = t
    BY <1>2, <1>6
  <2>2. TokensAreIssued'
    BY <1>2, <1>3, <1>6, <2>1 DEF AccessInv, TokensAreIssued
  <2>3. \A d \in Caller : Rotating(d)' => d = c \/ (Rotating(d) /\ call'[d].token = call[d].token)
    BY <1>2 DEF Rotating
  <2>4. ASSUME NEW u \in live', NEW v \in live', session'[u] = session'[v]
        PROVE  u = v
    BY <1>3, <2>4 DEF AccessInv, OneOfALogin
  <2>5. ASSUME NEW d \in Caller, NEW e \in Caller, Rotating(d)', Rotating(e)',
               session'[call'[d].token] = session'[call'[e].token]
        PROVE  d = e
    BY <1>3, <1>6, <2>1, <2>3, <2>5 DEF AccessInv, OneOfALogin
  <2>6. ASSUME NEW d \in Caller, NEW u \in live', Rotating(d)'
        PROVE  session'[u] # session'[call'[d].token]
    BY <1>3, <1>6, <2>1, <2>3, <2>6 DEF AccessInv, OneOfALogin
  <2> QED
    BY <1>4, <2>2, <2>4, <2>5, <2>6 DEF AccessInv, OneOfALogin
<1> QED
  BY <1>5, <1>6

\* A token is issued for a new login, or by the one request that has deleted
\* the token before it.
LEMMA IssueStep ==
  ASSUME AccessInv, NEW c \in Caller, Issue(c)
  PROVE  AccessInv'
<1>0. AccessTypeOK
  BY DEF AccessInv
<1>1. PICK t \in Token :
        /\ Issued = 1..(t - 1)
        /\ Comes(c, "issue", "idle")
        /\ live' = live \cup {t}
        /\ listed' = listed \cup {t}
        /\ session' = [session EXCEPT ![t] = IF call[c].token = 0 THEN t ELSE session[call[c].token]]
        /\ UNCHANGED userStatus
  BY DEF Issue
<1>2. MaxTokens \in Nat
  BY AccessConstants
<1>3. session[t] = 0
  BY <1>1, <1>2 DEF Issued, Token
<1> DEFINE p == call[c].token
           s == IF p = 0 THEN t ELSE session[p]
<1>4. p \in 0..MaxTokens /\ (p # 0 => p \in Token /\ session[p] # 0)
  BY <1>0, <1>2 DEF AccessTypeOK, Call, Token, AccessInv, TokensAreIssued
<1>5. s \in Token /\ p # t
  BY <1>0, <1>2, <1>3, <1>4 DEF AccessTypeOK, Token
<1>6. session' \in [Token -> 0..MaxTokens] /\ session'[t] = s /\ \A u \in Token \ {t} : session'[u] = session[u]
  BY <1>0, <1>1, <1>2, <1>5 DEF AccessTypeOK, Token
<1>7. "issue" \in Commands /\ "idle" \in Commands
  BY DEF Commands
<1>8. /\ call' \in [Caller -> Call]
      /\ call[c].at = "issue" /\ call'[c].at = "idle" /\ call'[c].token = 0
      /\ \A d \in Caller \ {c} : call'[d] = call[d]
  BY <1>0, <1>1, <1>7, ComesOn
<1>9. AccessTypeOK'
  BY <1>0, <1>1, <1>6, <1>8 DEF AccessTypeOK
<1>10. \A u \in live : u \in Token /\ u # t /\ session'[u] = session[u]
  BY <1>0, <1>3, <1>6 DEF AccessTypeOK, AccessInv, TokensAreIssued
<1>11. \A d \in Caller : call[d].token # 0 => call[d].token \in Token /\ call[d].token # t
                                              /\ session'[call[d].token] = session[call[d].token]
  <2> SUFFICES ASSUME NEW d \in Caller, call[d].token # 0
               PROVE  call[d].token \in Token /\ call[d].token # t
                      /\ session'[call[d].token] = session[call[d].token]
    OBVIOUS
  <2>1. call[d].token \in Token
    BY <1>0, <1>2 DEF AccessTypeOK, Call, Token
  <2>2. session[call[d].token] # 0
    BY DEF AccessInv, TokensAreIssued
  <2> QED
    BY <1>3, <1>6, <2>1, <2>2
<1>12. session'[s] # 0
  <2>1. CASE p = 0
    BY <1>2, <1>5, <1>6, <2>1 DEF Token
  <2>2. CASE p # 0
    <3>1. session[session[p]] # 0
      BY <1>4, <2>2 DEF AccessInv, TokensAreIssued
    <3> QED
      BY <1>3, <1>5, <1>6, <2>2, <3>1
  <2> QED
    BY <2>1, <2>2
<1>13. TokensAreIssued'
  <2>1. \A u \in live' : session'[u] # 0
    BY <1>1, <1>2, <1>5, <1>6, <1>10 DEF AccessInv, TokensAreIssued, Token
  <2>2. ASSUME NEW u \in Token, session'[u] # 0
        PROVE  session'[session'[u]] # 0
    <3>1. CASE u = t
      BY <1>6, <1>12, <3>1
    <3>2. CASE u # t
      <4>1. session'[u] = session[u] /\ session[u] # 0 /\ session[session[u]] # 0
        BY <1>6, <2>2, <3>2 DEF AccessInv, TokensAreIssued
      <4>2. session[u] \in Token /\ session[u] # t
        BY <1>0, <1>2, <1>3, <4>1 DEF AccessTypeOK, Token
      <4> QED
        BY <1>6, <4>1, <4>2
    <3> QED
      BY <3>1, <3>2
  <2>3. \A d \in Caller : call'[d].token # 0 => session'[call'[d].token] # 0
    BY <1>8, <1>11 DEF AccessInv, TokensAreIssued
  <2>4. \A d \in Caller : call'[d].at = "idle" => call'[d].token = 0
    BY <1>8 DEF AccessInv, TokensAreIssued
  <2> QED
    BY <2>1, <2>2, <2>3, <2>4 DEF TokensAreIssued
<1>14. p # 0 => Rotating(c)
  BY <1>8 DEF Rotating
<1>15. \A d \in Caller : Rotating(d)' => d # c /\ Rotating(d) /\ call'[d] = call[d]
  BY <1>8 DEF Rotating
<1>16. \A u \in live : session[u] # s
  <2>1. CASE p = 0
    BY <1>0, <1>3, <2>1 DEF AccessTypeOK, AccessInv, TokensAreIssued
  <2>2. CASE p # 0
    BY <1>14, <2>2 DEF AccessInv, OneOfALogin
  <2> QED
    BY <2>1, <2>2
<1>17. \A d \in Caller \ {c} : Rotating(d) => session[call[d].token] # s
  <2> SUFFICES ASSUME NEW d \in Caller \ {c}, Rotating(d)
               PROVE  session[call[d].token] # s
    OBVIOUS
  <2>1. CASE p = 0
    <3>1. call[d].token \in Token /\ session[call[d].token] # 0
      BY <1>11 DEF Rotating, AccessInv, TokensAreIssued
    <3>2. session[session[call[d].token]] # 0
      BY <3>1 DEF AccessInv, TokensAreIssued
    <3> QED
      BY <1>3, <2>1, <3>2
  <2>2. CASE p # 0
    BY <1>14, <2>2 DEF AccessInv, OneOfALogin
  <2> QED
    BY <2>1, <2>2
<1>18. OneOfALogin'
  <2>1. ASSUME NEW u \in live', NEW v \in live', session'[u] = session'[v]
        PROVE  u = v
    <3>1. u \in live \/ u = t
      BY <1>1
    <3>2. v \in live \/ v = t
      BY <1>1
    <3> QED
      BY <1>6, <1>10, <1>16, <2>1, <3>1, <3>2 DEF AccessInv, OneOfALogin
  <2>2. ASSUME NEW d \in Caller, NEW e \in Caller, Rotating(d)', Rotating(e)',
               session'[call'[d].token] = session'[call'[e].token]
        PROVE  d = e
    BY <1>11, <1>15, <2>2 DEF AccessInv, OneOfALogin, Rotating
  <2>3. ASSUME NEW d \in Caller, NEW u \in live', Rotating(d)'
        PROVE  session'[u] # session'[call'[d].token]
    <3>1. d # c /\ Rotating(d) /\ call'[d] = call[d] /\ call[d].token # 0
      BY <1>15, <2>3 DEF Rotating
    <3>2. session'[call'[d].token] = session[call[d].token]
      BY <1>11, <3>1
    <3>3. u \in live \/ u = t
      BY <1>1
    <3> QED
      BY <1>6, <1>10, <1>17, <3>1, <3>2, <3>3 DEF AccessInv, OneOfALogin
  <2> QED
    BY <2>1, <2>2, <2>3 DEF OneOfALogin
<1> QED
  BY <1>9, <1>13, <1>18 DEF AccessInv

LEMMA AccessStep == AccessInv /\ [AccessNext]_accessVars => AccessInv'
<1> SUFFICES ASSUME AccessInv, [AccessNext]_accessVars
             PROVE  AccessInv'
  OBVIOUS
<1>0. AccessTypeOK /\ MaxTokens \in Nat /\ 0 \in 0..MaxTokens
  BY AccessConstants DEF AccessInv
<1>1. Idle \in Call /\ Idle.at = "idle" /\ Idle.token = 0
  BY <1>0 DEF Idle, Call, Token
<1>2. ASSUME NEW c \in Caller, NEW from \in Commands, NEW to \in Commands, Comes(c, from, to),
             \/ from = "idle"
             \/ to \notin {"unlist", "check", "issue"}
             \/ from \in {"unlist", "check", "issue"},
             session' = session, live' \subseteq live, listed' \subseteq listed, userStatus' = userStatus
      PROVE  AccessInv'
  <2>1. /\ call' \in [Caller -> Call]
        /\ call[c].at = from /\ call'[c].at = to
        /\ call'[c].token = IF to = "idle" THEN 0 ELSE call[c].token
        /\ \A d \in Caller \ {c} : call'[d] = call[d]
    BY <1>0, <1>2, ComesOn
  <2>2. AccessTypeOK'
    BY <1>0, <1>2, <2>1 DEF AccessTypeOK
  <2>3. \A d \in Caller : Rotating(d)' => Rotating(d) /\ call'[d].token = call[d].token
    BY <1>2, <2>1 DEF Rotating, AccessInv, TokensAreIssued
  <2>4. \A d \in Caller : call'[d].token # 0 => session[call'[d].token] # 0
    BY <2>1 DEF AccessInv, TokensAreIssued
  <2>5. \A d \in Caller : call'[d].at = "idle" => call'[d].token = 0
    BY <2>1 DEF AccessInv, TokensAreIssued
  <2> QED
    BY <1>2, <2>2, <2>3, <2>4, <2>5, TokensOnlyGo
<1>3. ASSUME NEW c \in Caller, NEW new \in Call, call' = [call EXCEPT ![c] = new],
             new.at \notin {"unlist", "check", "issue"},
             new.at = "idle" => new.token = 0,
             new.token # 0 => session[new.token] # 0,
             session' = session, live' = live, listed' = listed, userStatus' = userStatus
      PROVE  AccessInv'
  <2>1. /\ call' \in [Caller -> Call]
        /\ call'[c] = new
        /\ \A d \in Caller \ {c} : call'[d] = call[d]
    BY <1>0, <1>3, CallBegins
  <2>2. AccessTypeOK'
    BY <1>0, <1>3, <2>1 DEF AccessTypeOK
  <2>3. \A d \in Caller : Rotating(d)' => Rotating(d) /\ call'[d].token = call[d].token
    BY <1>3, <2>1 DEF Rotating
  <2>4. \A d \in Caller : call'[d].token # 0 => session[call'[d].token] # 0
    BY <1>3, <2>1 DEF AccessInv, TokensAreIssued
  <2>5. \A d \in Caller : call'[d].at = "idle" => call'[d].token = 0
    BY <1>3, <2>1 DEF AccessInv, TokensAreIssued
  <2> QED
    BY <1>3, <2>2, <2>3, <2>4, <2>5, TokensOnlyGo
<1>4. ASSUME NEW c \in Caller, Login(c)
      PROVE  AccessInv'
  BY <1>2, <1>4 DEF Login, Commands
<1>5. ASSUME NEW c \in Caller, Refresh(c)
      PROVE  AccessInv'
  <2>1. PICK t \in live : /\ call' = [call EXCEPT ![c] = [Idle EXCEPT !.at = "delete", !.token = t]]
                          /\ UNCHANGED <<userStatus, live, listed, session>>
    BY <1>5 DEF Refresh
  <2> DEFINE new == [Idle EXCEPT !.at = "delete", !.token = t]
  <2>2. t \in Token /\ t \in 0..MaxTokens /\ session[t] # 0
    BY <1>0 DEF AccessTypeOK, Token, AccessInv, TokensAreIssued
  <2>3. new \in Call /\ new.at = "delete" /\ new.token = t
    BY <2>2 DEF Idle, Call
  <2>4. call' = [call EXCEPT ![c] = new]
    BY <2>1
  <2> HIDE DEF new
  <2> QED
    BY <1>3, <2>1, <2>2, <2>3, <2>4
<1>6. ASSUME NEW c \in Caller, Unlist(c)
      PROVE  AccessInv'
  <2>1. PICK from \in Commands, to \in Commands :
          /\ Comes(c, from, to)
          /\ from \in {"unlist", "check", "issue"} \/ to \notin {"unlist", "check", "issue"}
    BY <1>6 DEF Unlist, Commands
  <2>2. session' = session /\ live' \subseteq live /\ listed' \subseteq listed /\ userStatus' = userStatus
    BY <1>6 DEF Unlist
  <2> QED
    BY <1>2, <2>1, <2>2
<1>7. ASSUME NEW c \in Caller, CheckStatus(c)
      PROVE  AccessInv'
  <2>1. PICK to \in {"issue", "idle"} : Comes(c, "check", to)
    BY <1>7 DEF CheckStatus
  <2>2. session' = session /\ live' \subseteq live /\ listed' \subseteq listed /\ userStatus' = userStatus
    BY <1>7 DEF CheckStatus
  <2>3. "check" \in Commands /\ to \in Commands
    BY DEF Commands
  <2> QED
    BY <1>2, <2>1, <2>2, <2>3
<1>8. ASSUME NEW c \in Caller, Logout(c)
      PROVE  AccessInv'
  <2>1. PICK t \in Issued : /\ call' = [call EXCEPT ![c] = [Idle EXCEPT !.at = "logout", !.token = t]]
                            /\ UNCHANGED <<userStatus, live, listed, session>>
    BY <1>8 DEF Logout
  <2> DEFINE new == [Idle EXCEPT !.at = "logout", !.token = t]
  <2>2. t \in 0..MaxTokens /\ session[t] # 0
    BY <1>0 DEF Issued, Token
  <2>3. new \in Call /\ new.at = "logout" /\ new.token = t
    BY <2>2 DEF Idle, Call
  <2>4. call' = [call EXCEPT ![c] = new]
    BY <2>1
  <2> HIDE DEF new
  <2> QED
    BY <1>3, <2>1, <2>2, <2>3, <2>4
<1>9. ASSUME NEW c \in Caller, Revoke(c)
      PROVE  AccessInv'
  <2>1. Comes(c, "logout", "unlistLogout") /\ "logout" \in Commands /\ "unlistLogout" \in Commands
    BY <1>9 DEF Revoke, Commands
  <2>2. session' = session /\ live' \subseteq live /\ listed' \subseteq listed /\ userStatus' = userStatus
    BY <1>9 DEF Revoke
  <2> QED
    BY <1>2, <2>1, <2>2
<1>10. ASSUME NEW c \in Caller, RevokeAll(c)
       PROVE  AccessInv'
  <2> DEFINE at  == IF listed = {} THEN "dropSet" ELSE "deleteAll"
             new == [Idle EXCEPT !.at = at, !.found = listed]
  <2>1. /\ call' = [call EXCEPT ![c] = new]
        /\ UNCHANGED <<userStatus, live, listed, session>>
    BY <1>10 DEF RevokeAll
  <2>2. listed \subseteq Token
    BY <1>0 DEF AccessTypeOK
  <2>3. at \in {"dropSet", "deleteAll"}
    OBVIOUS
  <2> HIDE DEF at
  <2>4. new \in Call /\ new.at = at /\ new.token = 0
    BY <1>0, <2>2, <2>3 DEF Idle, Call
  <2> HIDE DEF new
  <2> QED
    BY <1>3, <2>1, <2>3, <2>4
<1>11. ASSUME NEW c \in Caller, DeleteAll(c)
       PROVE  AccessInv'
  <2>1. Comes(c, "deleteAll", "dropSet") /\ "deleteAll" \in Commands /\ "dropSet" \in Commands
    BY <1>11 DEF DeleteAll, Commands
  <2>2. session' = session /\ live' \subseteq live /\ listed' \subseteq listed /\ userStatus' = userStatus
    BY <1>11 DEF DeleteAll
  <2> QED
    BY <1>2, <2>1, <2>2
<1>12. ASSUME NEW c \in Caller, DropSet(c)
       PROVE  AccessInv'
  <2>1. Comes(c, "dropSet", "idle") /\ "dropSet" \in Commands /\ "idle" \in Commands
    BY <1>12 DEF DropSet, Commands
  <2>2. session' = session /\ live' \subseteq live /\ listed' \subseteq listed /\ userStatus' = userStatus
    BY <1>12 DEF DropSet
  <2> QED
    BY <1>2, <2>1, <2>2
<1>13. ASSUME NEW c \in Caller, CallDies(c)
       PROVE  AccessInv'
  <2>1. call' = [call EXCEPT ![c] = Idle] /\ UNCHANGED <<userStatus, live, listed, session>>
    BY <1>13 DEF CallDies
  <2> QED
    BY <1>1, <1>3, <2>1
<1>14. ASSUME NEW s \in {"ACTIVE", "INACTIVE", "LOCKED"}, UpdateUser(s)
       PROVE  AccessInv'
  <2>1. AccessTypeOK'
    BY <1>0, <1>14 DEF UpdateUser, AccessTypeOK
  <2> QED
    BY <1>14, <2>1, TokensOnlyGo DEF UpdateUser, Rotating, AccessInv, TokensAreIssued
<1>15. CASE TokenExpires
  <2>1. live' \subseteq live /\ UNCHANGED <<userStatus, listed, session, call>>
    BY <1>15 DEF TokenExpires
  <2>2. AccessTypeOK'
    BY <1>0, <2>1 DEF AccessTypeOK
  <2> QED
    BY <2>1, <2>2, TokensOnlyGo DEF Rotating, AccessInv, TokensAreIssued
<1>16. CASE UNCHANGED accessVars
  <2>1. UNCHANGED <<userStatus, live, listed, session, call>>
    BY <1>16 DEF accessVars
  <2>2. AccessTypeOK'
    BY <1>0, <2>1 DEF AccessTypeOK
  <2> QED
    BY <2>1, <2>2, TokensOnlyGo DEF Rotating, AccessInv, TokensAreIssued
<1> QED
  BY <1>4, <1>5, <1>6, <1>7, <1>8, <1>9, <1>10, <1>11, <1>12, <1>13, <1>14, <1>15, <1>16,
     ConsumeStep, IssueStep DEF AccessNext

-----------------------------------------------------------------------------
(* The rules: status and assignment of a promotion are committed together. *)

\* Nothing is assigned, and no request is under way, before the rule is created.
NothingBeforeTheRule == rule = NoRule => assignments = {} /\ \A m \in Manager : change[m] = NoRule

RulesInv == RulesTypeOK /\ PromotionIsWhole /\ NothingBeforeTheRule

\* What a request has decided, by its kind.
LEMMA ChangeKinds ==
  ASSUME RulesTypeOK, NEW m \in Manager, change[m] # NoRule
  PROVE  /\ change[m].op \in {"status", "publish", "promote", "assign", "dismiss"}
         /\ change[m].op = "status" => change[m].seen \in RuleStatus /\ change[m].to \in RuleStatus
         /\ change[m].op = "publish" => change[m].current \in 1..MaxVersions /\ change[m].detected \in BOOLEAN
         /\ change[m].op \in {"promote", "assign"} => change[m].version \in 1..MaxVersions /\ change[m].scope \in Scope
  BY DEF RulesTypeOK, Change

\* A rule that is there, by its fields.
LEMMA RuleFields ==
  ASSUME RulesTypeOK, rule # NoRule
  PROVE  /\ rule \in Rule
         /\ \A s \in RuleStatus, b \in BOOLEAN :
              /\ [rule EXCEPT !.status = s, !.patched = b] \in Rule
              /\ [rule EXCEPT !.status = s] \in Rule
  BY DEF RulesTypeOK, Rule

\* The status is written, and nothing else of the rule.
LEMMA StatusIsWritten ==
  ASSUME RulesTypeOK, rule # NoRule, NEW s \in RuleStatus, rule' = [rule EXCEPT !.status = s]
  PROVE  rule' \in Rule /\ rule'.status = s
<1>1. rule \in Rule
  BY RuleFields
<1>2. rule' \in Rule
  BY RuleFields
<1>3. rule'.status = s
  BY <1>1 DEF Rule
<1> QED
  BY <1>2, <1>3

\* What is in Rule or in Change is there.
LEMMA RowsAreThere == NoRule \notin Rule /\ NoRule \notin Change
  BY NoRuleIsNoRow

LEMMA RulesStart == RulesInit => RulesInv
  BY DEF RulesInit, RulesInv, RulesTypeOK, PromotionIsWhole, NothingBeforeTheRule

\* A request begins on a rule that is there, and changes no row.
LEMMA ChangeBegins ==
  ASSUME RulesInv, NEW m \in Manager, NEW work \in Change, Begin(m, work)
  PROVE  RulesInv'
<1>1. change' \in [Manager -> Change \cup {NoRule}]
  BY DEF Begin, RulesInv, RulesTypeOK
<1>2. rule # NoRule /\ UNCHANGED <<rule, versions, assignments>>
  BY DEF Begin
<1> QED
  BY <1>1, <1>2 DEF RulesInv, RulesTypeOK, PromotionIsWhole, NothingBeforeTheRule

\* A commit, of which the rest is the property.
LEMMA ChangeEnds ==
  ASSUME RulesInv, NEW m \in Manager, change[m] # NoRule, Done(m), PromotionIsWhole',
         rule' \in Rule, versions' \subseteq Version, assignments' \subseteq Assignment
  PROVE  RulesInv'
<1>1. change' \in [Manager -> Change \cup {NoRule}]
  BY DEF Done, RulesInv, RulesTypeOK
<1>2. rule' # NoRule
  BY RowsAreThere
<1> QED
  BY <1>1, <1>2 DEF RulesInv, RulesTypeOK, NothingBeforeTheRule

\* An assignment has its type, and promotion alone makes a promoted one.
LEMMA NewAssignments ==
  ASSUME RulesTypeOK, NEW m \in Manager, change[m] # NoRule, change[m].op \in {"promote", "assign"}
  PROVE  /\ NewAssignment(change[m]) \in Assignment
         /\ NewAssignment(change[m]).promoted = (change[m].op = "promote")
  BY ChangeKinds DEF NewAssignment, Assignment

LEMMA RulesStep == RulesInv /\ [RulesNext]_rulesVars => RulesInv'
<1> SUFFICES ASSUME RulesInv, [RulesNext]_rulesVars
             PROVE  RulesInv'
  OBVIOUS
<1>0. RulesTypeOK /\ MaxVersions \in Nat \ {0}
  BY RulesConstants DEF RulesInv
<1>1. \A m \in Manager : change[m] # NoRule => rule # NoRule
  BY DEF RulesInv, NothingBeforeTheRule
<1>2. ASSUME NEW r \in Rule, NEW detected \in BOOLEAN, CreateRule(r.type, r.origin, detected)
      PROVE  RulesInv'
  <2> DEFINE status  == IF r.origin \in ReviewRequiredOrigins THEN "PENDING_REVIEW" ELSE "ACTIVE"
             version == [number |-> 1, current |-> TRUE, detected |-> detected]
  <2>1. rule = NoRule /\ rule' = [type |-> r.type, origin |-> r.origin, patched |-> FALSE, status |-> status]
        /\ versions' = {version} /\ UNCHANGED <<assignments, change>>
    BY <1>2 DEF CreateRule
  <2>2. status \in RuleStatus /\ (status = "ACTIVE" => r.origin \notin ReviewRequiredOrigins)
    BY DEF RuleStatus
  <2> HIDE DEF status
  <2>3. r.type \in {"column", "DUPLICATE", "CROSS_COLUMN"} /\ r.origin \in RuleOrigin
    BY DEF Rule
  <2>4. rule' \in Rule /\ rule'.status = status /\ rule'.origin = r.origin
    BY <2>1, <2>2, <2>3 DEF Rule
  <2>5. version \in Version
    BY <1>0 DEF Version
  <2>6. assignments = {} /\ assignments' = {}
    BY <2>1 DEF RulesInv, NothingBeforeTheRule
  <2>7. rule' # NoRule
    BY <2>4, RowsAreThere
  <2> QED
    BY <1>0, <2>1, <2>2, <2>4, <2>5, <2>6, <2>7
       DEF RulesInv, RulesTypeOK, PromotionIsWhole, NothingBeforeTheRule
<1>3. ASSUME NEW m \in Manager, NEW to \in RuleStatus, UpdateRule(m, to)
      PROVE  RulesInv'
  <2>1. rule # NoRule /\ Begin(m, [op |-> "status", seen |-> rule.status, to |-> to])
    BY <1>3 DEF UpdateRule
  <2>2. rule.status \in RuleStatus
    BY <1>0, <2>1 DEF RulesTypeOK, Rule
  <2>3. [op |-> "status", seen |-> rule.status, to |-> to] \in Change
    BY <2>2 DEF Change
  <2> QED
    BY <2>1, <2>3, ChangeBegins
<1>4. ASSUME NEW m \in Manager, NEW detected \in BOOLEAN, PublishVersion(m, detected)
      PROVE  RulesInv'
  <2>1. PICK v \in versions : Begin(m, [op |-> "publish", current |-> v.number, detected |-> detected])
    BY <1>4 DEF PublishVersion
  <2>2. v.number \in 1..MaxVersions
    BY <1>0 DEF RulesTypeOK, Version
  <2>3. [op |-> "publish", current |-> v.number, detected |-> detected] \in Change
    BY <2>2 DEF Change
  <2> QED
    BY <2>1, <2>3, ChangeBegins
<1>5. ASSUME NEW m \in Manager, PromoteRule(m)
      PROVE  RulesInv'
  <2> DEFINE scope == IF rule.type = "DUPLICATE" THEN "DATASET_LEVEL" ELSE "SINGLE_COLUMN"
  <2>1. PICK v \in versions : Begin(m, [op |-> "promote", version |-> v.number, scope |-> scope])
    BY <1>5 DEF PromoteRule
  <2>2. v.number \in 1..MaxVersions
    BY <1>0 DEF RulesTypeOK, Version
  <2>3. scope \in Scope
    BY RulesConstants
  <2> HIDE DEF scope
  <2>4. [op |-> "promote", version |-> v.number, scope |-> scope] \in Change
    BY <2>2, <2>3 DEF Change
  <2> QED
    BY <2>1, <2>4, ChangeBegins
<1>6. ASSUME NEW m \in Manager, DismissRule(m)
      PROVE  RulesInv'
  <2>1. [op |-> "dismiss"] \in Change
    BY DEF Change
  <2> QED
    BY <1>6, <2>1, ChangeBegins DEF DismissRule
<1>7. ASSUME NEW m \in Manager, NEW scope \in Scope, CreateAssignment(m, scope)
      PROVE  RulesInv'
  <2>1. PICK v \in versions : Begin(m, [op |-> "assign", version |-> v.number, scope |-> scope])
    BY <1>7 DEF CreateAssignment
  <2>2. v.number \in 1..MaxVersions
    BY <1>0 DEF RulesTypeOK, Version
  <2>3. [op |-> "assign", version |-> v.number, scope |-> scope] \in Change
    BY <2>2 DEF Change
  <2> QED
    BY <2>1, <2>3, ChangeBegins
<1>8. ASSUME NEW m \in Manager, CommitStatus(m)
      PROVE  RulesInv'
  <2>1. /\ change[m] # NoRule /\ change[m].op = "status"
        /\ Done(m) /\ UNCHANGED <<versions, assignments>>
    BY <1>8 DEF CommitStatus
  <2>2. rule # NoRule /\ change[m].to \in RuleStatus
    BY <1>0, <1>1, <2>1, ChangeKinds
  <2>3. rule' = rule \/ rule' = [rule EXCEPT !.status = change[m].to, !.patched = TRUE]
    BY <1>8 DEF CommitStatus
  <2>4. rule' \in Rule /\ (rule' = rule \/ rule'.patched)
    BY <1>0, <2>2, <2>3, RuleFields DEF Rule
  <2>5. PromotionIsWhole'
    BY <2>1, <2>2, <2>4 DEF RulesInv, PromotionIsWhole
  <2> QED
    BY <1>0, <2>1, <2>4, <2>5, ChangeEnds DEF RulesTypeOK
<1>9. ASSUME NEW m \in Manager, CommitVersion(m)
      PROVE  RulesInv'
  <2> DEFINE work == change[m]
             new  == [number |-> work.current + 1, current |-> TRUE, detected |-> work.detected]
             rest == {IF v.number = work.current THEN [v EXCEPT !.current = FALSE] ELSE v : v \in versions}
  <2>1. /\ work # NoRule /\ work.op = "publish" /\ work.current < MaxVersions
        /\ versions' = versions \/ versions' = rest \cup {new}
        /\ Done(m)
        /\ UNCHANGED <<rule, assignments>>
    BY <1>9 DEF CommitVersion
  <2>2. rule # NoRule /\ work.current \in 1..MaxVersions /\ work.detected \in BOOLEAN
    BY <1>0, <1>1, <2>1, ChangeKinds
  <2>3. work.current + 1 \in 1..MaxVersions
    BY <1>0, <2>1, <2>2
  <2>4. new \in Version
    BY <2>2, <2>3 DEF Version
  <2>5. rest \subseteq Version
    <3>1. \A v \in versions : v \in Version /\ [v EXCEPT !.current = FALSE] \in Version
      BY <1>0 DEF RulesTypeOK, Version
    <3> QED
      BY <3>1
  <2>6. versions' \subseteq Version
    BY <1>0, <2>1, <2>4, <2>5 DEF RulesTypeOK
  <2>7. PromotionIsWhole'
    BY <2>1 DEF RulesInv, PromotionIsWhole
  <2>8. rule' \in Rule
    BY <1>0, <2>1, <2>2, RuleFields
  <2> QED
    BY <1>0, <2>1, <2>6, <2>7, <2>8, ChangeEnds DEF RulesTypeOK
<1>10. ASSUME NEW m \in Manager, CommitPromotion(m)
       PROVE  RulesInv'
  <2>1. change[m] # NoRule /\ change[m].op = "promote" /\ Done(m) /\ UNCHANGED versions
    BY <1>10 DEF CommitPromotion
  <2>2. rule # NoRule
    BY <1>1, <2>1
  <2>3. CASE UNCHANGED <<rule, assignments>>
    <3>1. PromotionIsWhole'
      BY <2>3 DEF RulesInv, PromotionIsWhole
    <3>2. rule' \in Rule
      BY <1>0, <2>2, <2>3, RuleFields
    <3> QED
      BY <1>0, <2>1, <2>3, <3>1, <3>2, ChangeEnds DEF RulesTypeOK
  <2>4. CASE /\ rule' = [rule EXCEPT !.status = "ACTIVE"]
             /\ assignments' = assignments \cup {NewAssignment(change[m])}
    <3>1. NewAssignment(change[m]) \in Assignment /\ NewAssignment(change[m]).promoted
      BY <1>0, <2>1, NewAssignments
    <3>2. rule' \in Rule /\ rule'.status = "ACTIVE"
      <4>1. "ACTIVE" \in RuleStatus
        BY DEF RuleStatus
      <4> QED
        BY <1>0, <2>2, <2>4, <4>1, StatusIsWritten
    <3>3. PromotionIsWhole'
      BY <2>4, <3>1, <3>2 DEF PromotionIsWhole
    <3> QED
      BY <1>0, <2>1, <2>4, <3>1, <3>2, <3>3, ChangeEnds DEF RulesTypeOK
  <2> QED
    BY <1>10, <2>3, <2>4 DEF CommitPromotion
<1>11. ASSUME NEW m \in Manager, CommitDismissal(m)
       PROVE  RulesInv'
  <2>1. /\ change[m] # NoRule /\ Done(m) /\ UNCHANGED <<versions, assignments>>
        /\ rule' = [rule EXCEPT !.status = "DISABLED"]
    BY <1>11 DEF CommitDismissal
  <2>2. rule # NoRule
    BY <1>1, <2>1
  <2>3. rule' \in Rule /\ rule'.status = "DISABLED"
    <3>1. "DISABLED" \in RuleStatus
      BY DEF RuleStatus
    <3> QED
      BY <1>0, <2>1, <2>2, <3>1, StatusIsWritten
  <2>4. PromotionIsWhole'
    BY <2>3 DEF PromotionIsWhole
  <2> QED
    BY <1>0, <2>1, <2>3, <2>4, ChangeEnds DEF RulesTypeOK
<1>12. ASSUME NEW m \in Manager, CommitAssignment(m)
       PROVE  RulesInv'
  <2>1. /\ change[m] # NoRule /\ change[m].op = "assign" /\ Done(m) /\ UNCHANGED <<rule, versions>>
        /\ assignments' = assignments \/ assignments' = assignments \cup {NewAssignment(change[m])}
    BY <1>12 DEF CommitAssignment
  <2>2. rule # NoRule /\ rule' \in Rule
    BY <1>0, <1>1, <2>1, RuleFields
  <2>3. NewAssignment(change[m]) \in Assignment /\ ~NewAssignment(change[m]).promoted
    BY <1>0, <2>1, NewAssignments
  <2>4. PromotionIsWhole'
    BY <2>1, <2>3 DEF RulesInv, PromotionIsWhole
  <2>5. assignments' \subseteq Assignment
    BY <1>0, <2>1, <2>3 DEF RulesTypeOK
  <2> QED
    BY <1>0, <2>1, <2>2, <2>4, <2>5, ChangeEnds DEF RulesTypeOK
<1>13. CASE SoftDisable
  <2>1. PICK a \in assignments : assignments' = (assignments \ {a}) \cup {[a EXCEPT !.enabled = FALSE]}
    BY <1>13 DEF SoftDisable
  <2> DEFINE b == [a EXCEPT !.enabled = FALSE]
  <2>2. b \in Assignment /\ b.promoted = a.promoted
    BY <1>0 DEF RulesTypeOK, Assignment
  <2> HIDE DEF b
  <2>3. assignments' = (assignments \ {a}) \cup {b} /\ UNCHANGED <<rule, versions, change>>
    BY <1>13, <2>1 DEF b, SoftDisable
  <2>4. RulesTypeOK'
    BY <1>0, <2>2, <2>3 DEF RulesTypeOK
  <2>5. PromotionIsWhole'
    BY <2>2, <2>3 DEF RulesInv, PromotionIsWhole
  <2>6. NothingBeforeTheRule'
    BY <2>3 DEF RulesInv, NothingBeforeTheRule
  <2> QED
    BY <2>4, <2>5, <2>6 DEF RulesInv
<1>14. CASE UNCHANGED rulesVars
  BY <1>14 DEF rulesVars, RulesInv, RulesTypeOK, PromotionIsWhole, NothingBeforeTheRule
<1> QED
  BY <1>2, <1>3, <1>4, <1>5, <1>6, <1>7, <1>8, <1>9, <1>10, <1>11, <1>12, <1>13, <1>14 DEF RulesNext

-----------------------------------------------------------------------------
(* The keys of the catalogue: transactions that replace the rows of a key  *)
(* leave those of one configuration, because the rows a DELETE has not     *)
(* found collide with the first row that is written.                       *)

\* The rows configuration b writes of the key k.
RowsOf(k, b) == {[column |-> k[i], ordinal |-> i - 1, by |-> b] : i \in DOMAIN k}

Work ==
  [dataset : Dataset, key : KeyChoice, columns : SUBSET Column, strategy : Strategy,
   found : SUBSET KeyRow, at : {"sample", "delete", "write"}]

KeyTypes ==
  /\ keyRow \in [Dataset -> SUBSET KeyRow]
  /\ strategy \in [Dataset -> Strategy]
  /\ configs \in 0..MaxConfigs
  /\ keying \in [Transaction -> Work \cup {NoWork}]

\* A dataset has no key, or the rows one configuration has written of one key.
KeyedOnce == \A d \in Dataset :
  \/ keyRow[d] = {}
  \/ \E k \in KeyChoice, b \in 1..configs : keyRow[d] = RowsOf(k, b) /\ UniqueRows(RowsOf(k, b))

StrategyFits == \A d \in Dataset : strategy[d] = "ROW_INDEX_FALLBACK" <=> keyRow[d] = {}

\* A dataset that had a key when a transaction loaded it still has one.
LoadedHasKey == \A t \in Transaction :
  keying[t] # NoWork /\ keying[t].strategy # "ROW_INDEX_FALLBACK" =>
    strategy[keying[t].dataset] # "ROW_INDEX_FALLBACK"

\* What a DELETE has found is the key of the dataset, or one that has been
\* replaced since, of which no row is left.
FoundOrReplaced == \A t \in Transaction :
  keying[t] # NoWork /\ keying[t].at = "write" =>
    /\ \A r \in keying[t].found : r.by <= configs
    /\ \/ keyRow[keying[t].dataset] \subseteq keying[t].found
       \/ keyRow[keying[t].dataset] \cap keying[t].found = {}

KeysInv == KeyTypes /\ KeyedOnce /\ StrategyFits /\ LoadedHasKey /\ FoundOrReplaced

\* A key is a nonempty sequence of columns.
LEMMA KeysAreSequences ==
  ASSUME NEW k \in KeyChoice
  PROVE  /\ Len(k) \in Nat /\ Len(k) > 0 /\ DOMAIN k = 1..Len(k)
         /\ \A i \in 1..Len(k) : k[i] \in Column
  BY DiscoveryConstants

\* The rows of a key: their ordinals count from 0, and the row 0 is there.
LEMMA KeyRowFields ==
  ASSUME NEW k \in KeyChoice, NEW b \in 1..MaxConfigs
  PROVE  /\ RowsOf(k, b) \subseteq KeyRow
         /\ \A r \in RowsOf(k, b) : r.by = b
         /\ \E r \in RowsOf(k, b) : r.ordinal = 0
<1>1. /\ Len(k) \in Nat /\ Len(k) > 0 /\ DOMAIN k = 1..Len(k)
      /\ \A i \in 1..Len(k) : k[i] \in Column
  BY KeysAreSequences
<1>2. MaxConfigs \in Nat /\ b \in 0..MaxConfigs
  BY DiscoveryConstants
<1>3. ASSUME NEW i \in 1..Len(k)
      PROVE  [column |-> k[i], ordinal |-> i - 1, by |-> b] \in KeyRow
  <2>1. i - 1 \in Nat /\ k[i] \in Column
    BY <1>1
  <2> QED
    BY <1>2, <2>1 DEF KeyRow
<1>4. RowsOf(k, b) \subseteq KeyRow
  BY <1>1, <1>3 DEF RowsOf
<1>5. [column |-> k[1], ordinal |-> 0, by |-> b] \in RowsOf(k, b)
  <2>1. 1 \in 1..Len(k) /\ 1 - 1 = 0
    BY <1>1
  <2> QED
    BY <1>1, <2>1 DEF RowsOf
<1>6. \A r \in RowsOf(k, b) : r.by = b
  BY DEF RowsOf
<1> QED
  BY <1>4, <1>5, <1>6

\* The rows of a key are as many as its columns, which are columns of the dataset.
LEMMA KeyRowCount ==
  ASSUME NEW k \in KeyChoice, NEW b \in 1..MaxConfigs, UniqueRows(RowsOf(k, b))
  PROVE  /\ Cardinality(RowsOf(k, b)) = Len(k)
         /\ Cardinality(Column) \in Nat /\ Len(k) <= Cardinality(Column)
         /\ {r.ordinal : r \in RowsOf(k, b)} = 0..(Len(k) - 1)
<1> DEFINE n      == Len(k)
           row(i) == [column |-> k[i], ordinal |-> i - 1, by |-> b]
           rows   == [i \in 1..n |-> row(i)]
           cols   == [i \in 1..n |-> k[i]]
<1>1. n \in Nat /\ n > 0 /\ DOMAIN k = 1..n /\ \A i \in 1..n : k[i] \in Column
  BY KeysAreSequences
<1>2. RowsOf(k, b) = {row(i) : i \in 1..n}
  BY <1>1 DEF RowsOf
<1>3. \A i, j \in 1..n : row(i) = row(j) => i = j
  <2> SUFFICES ASSUME NEW i \in 1..n, NEW j \in 1..n, row(i) = row(j)
               PROVE  i = j
    OBVIOUS
  <2>1. i - 1 = j - 1
    OBVIOUS
  <2> QED
    BY <1>1, <2>1
<1>4. rows \in Bijection(1..n, RowsOf(k, b))
  <2>1. rows \in [1..n -> RowsOf(k, b)]
    BY <1>2
  <2>2. \A r \in RowsOf(k, b) : \E i \in 1..n : rows[i] = r
    BY <1>2
  <2>3. \A i, j \in 1..n : rows[i] = rows[j] => i = j
    BY <1>3
  <2> HIDE DEF rows, n
  <2> QED
    BY <2>1, <2>2, <2>3 DEF Bijection, Injection, IsInjective, Surjection
<1>5. IsFiniteSet(1..n) /\ Cardinality(1..n) = n
  BY <1>1, FS_Interval
<1>6. Cardinality(RowsOf(k, b)) = n
  BY <1>4, <1>5, FS_Bijection DEF ExistsBijection
<1>7. cols \in Injection(1..n, Column)
  <2>1. cols \in [1..n -> Column]
    BY <1>1
  <2>2. ASSUME NEW i \in 1..n, NEW j \in 1..n, k[i] = k[j]
        PROVE  i = j
    <3>1. row(i) \in RowsOf(k, b) /\ row(j) \in RowsOf(k, b)
      BY <1>2
    <3>2. row(i).column = row(j).column
      BY <2>2
    <3>3. row(i) = row(j)
      BY <3>1, <3>2 DEF UniqueRows
    <3> QED
      BY <1>3, <3>3
  <2>3. \A i, j \in 1..n : cols[i] = cols[j] => i = j
    BY <2>2
  <2> HIDE DEF cols, n
  <2> QED
    BY <2>1, <2>3 DEF Injection, IsInjective
<1>8. IsFiniteSet(Column)
  BY DiscoveryConstants
<1>9. n <= Cardinality(Column) /\ Cardinality(Column) \in Nat
  BY <1>5, <1>7, <1>8, FS_Injection, FS_CardinalityType
<1>10. {r.ordinal : r \in RowsOf(k, b)} = 0..(n - 1)
  <2>1. \A r \in RowsOf(k, b) : r.ordinal \in 0..(n - 1)
    BY <1>1, <1>2
  <2>2. \A o \in 0..(n - 1) : \E r \in RowsOf(k, b) : r.ordinal = o
    <3> TAKE o \in 0..(n - 1)
    <3>1. o + 1 \in 1..n /\ (o + 1) - 1 = o
      BY <1>1
    <3>2. row(o + 1) \in RowsOf(k, b) /\ row(o + 1).ordinal = o
      BY <1>2, <3>1
    <3> QED
      BY <3>2
  <2> QED
    BY <2>1, <2>2
<1> QED
  BY <1>6, <1>9, <1>10

\* What the invariant says of keys is what the property says of rows.
LEMMA KeyedOnceIsOneConfiguration == KeysInv => KeysAreOneConfiguration
<1> SUFFICES ASSUME KeysInv, NEW d \in Dataset
             PROVE  /\ \A r, s \in keyRow[d] : r.by = s.by
                    /\ {r.ordinal : r \in keyRow[d]} = {i \in 0..Cardinality(Column) : i < Cardinality(keyRow[d])}
                    /\ strategy[d] = "ROW_INDEX_FALLBACK" <=> keyRow[d] = {}
  BY DEF KeysAreOneConfiguration
<1>1. strategy[d] = "ROW_INDEX_FALLBACK" <=> keyRow[d] = {}
  BY DEF KeysInv, StrategyFits
<1>2. CASE keyRow[d] = {}
  <2>1. Cardinality(keyRow[d]) = 0
    BY <1>2, FS_EmptySet
  <2>2. Cardinality(Column) \in Nat
    BY DiscoveryConstants, FS_CardinalityType
  <2>3. {i \in 0..Cardinality(Column) : i < Cardinality(keyRow[d])} = {}
    BY <2>1, <2>2
  <2> QED
    BY <1>1, <1>2, <2>3
<1>3. ASSUME NEW k \in KeyChoice, NEW b \in 1..configs, keyRow[d] = RowsOf(k, b), UniqueRows(RowsOf(k, b))
      PROVE  /\ \A r, s \in keyRow[d] : r.by = s.by
             /\ {r.ordinal : r \in keyRow[d]} = {i \in 0..Cardinality(Column) : i < Cardinality(keyRow[d])}
  <2>1. b \in 1..MaxConfigs
    BY DiscoveryConstants DEF KeysInv, KeyTypes
  <2>2. /\ Cardinality(RowsOf(k, b)) = Len(k)
        /\ Cardinality(Column) \in Nat /\ Len(k) <= Cardinality(Column)
        /\ {r.ordinal : r \in RowsOf(k, b)} = 0..(Len(k) - 1)
    BY <1>3, <2>1, KeyRowCount
  <2>3. Len(k) \in Nat
    BY KeysAreSequences
  <2>4. {i \in 0..Cardinality(Column) : i < Len(k)} = 0..(Len(k) - 1)
    BY <2>2, <2>3
  <2>5. \A r \in RowsOf(k, b) : r.by = b
    BY <2>1, KeyRowFields
  <2> QED
    BY <1>3, <2>2, <2>4, <2>5
<1> QED
  BY <1>1, <1>2, <1>3 DEF KeysInv, KeyedOnce

\* The invariant says nothing of what else changes.
LEMMA KeysUntouched ==
  ASSUME KeysInv, UNCHANGED <<keys, keying, configs>>
  PROVE  KeysInv'
<1>1. UNCHANGED <<keyRow, strategy, keying, configs>>
  BY DEF keys
<1> QED
  BY <1>1 DEF KeysInv, KeyTypes, KeyedOnce, StrategyFits, LoadedHasKey, FoundOrReplaced

\* A transaction that becomes another, while the keys stay as they are.
LEMMA OneKeyingChanges ==
  ASSUME KeysInv, UNCHANGED <<keyRow, strategy, configs>>,
         NEW t \in Transaction, NEW work \in Work \cup {NoWork}, keying' = [keying EXCEPT ![t] = work],
         work # NoWork =>
           /\ work.strategy # "ROW_INDEX_FALLBACK" => strategy[work.dataset] # "ROW_INDEX_FALLBACK"
           /\ work.at = "write" => /\ \A r \in work.found : r.by <= configs
                                   /\ keyRow[work.dataset] \subseteq work.found
  PROVE  KeysInv'
<1>1. keying' \in [Transaction -> Work \cup {NoWork}]
  BY DEF KeysInv, KeyTypes
<1>2. keying'[t] = work /\ \A u \in Transaction \ {t} : keying'[u] = keying[u]
  BY DEF KeysInv, KeyTypes
<1>3. KeyTypes'
  BY <1>1 DEF KeysInv, KeyTypes
<1>4. KeyedOnce' /\ StrategyFits'
  BY DEF KeysInv, KeyedOnce, StrategyFits
<1>5. LoadedHasKey'
  BY <1>2 DEF KeysInv, LoadedHasKey
<1>6. FoundOrReplaced'
  BY <1>2 DEF KeysInv, FoundOrReplaced
<1> QED
  BY <1>3, <1>4, <1>5, <1>6 DEF KeysInv

\* A transaction that loads a dataset and what is asked for.
LEMMA LoadStep ==
  ASSUME KeysInv, UNCHANGED <<keyRow, strategy, configs>>,
         NEW t \in Transaction, NEW d \in Dataset, NEW k \in KeyChoice, NEW columns \in SUBSET Column,
         NEW next \in {"sample", "delete"}, keying' = [keying EXCEPT ![t] = Loaded(d, k, columns, next)]
  PROVE  KeysInv'
<1> DEFINE work == Loaded(d, k, columns, next)
<1>1. strategy[d] \in Strategy
  BY DEF KeysInv, KeyTypes
<1>2. /\ work \in Work
      /\ work.strategy = strategy[d] /\ work.dataset = d /\ work.at # "write"
  BY <1>1 DEF Loaded, Work
<1> HIDE DEF work
<1>3. keying' = [keying EXCEPT ![t] = work]
  BY DEF work
<1> QED
  BY <1>2, <1>3, OneKeyingChanges

LEMMA EndKeyingStep ==
  ASSUME KeysInv, UNCHANGED <<keyRow, strategy, configs>>,
         NEW t \in Transaction, keying' = [keying EXCEPT ![t] = NoWork]
  PROVE  KeysInv'
  BY OneKeyingChanges

\* The rows of a dataset were written by configurations there have been.
LEMMA RowsAreOfThePast ==
  ASSUME KeysInv, NEW d \in Dataset, NEW r \in keyRow[d]
  PROVE  r.by <= configs
<1>1. PICK k \in KeyChoice, b \in 1..configs : keyRow[d] = RowsOf(k, b)
  BY DEF KeysInv, KeyedOnce
<1>2. r.by = b
  BY <1>1 DEF RowsOf
<1> QED
  BY <1>2, DiscoveryConstants DEF KeysInv, KeyTypes

LEMMA DeleteStep ==
  ASSUME KeysInv, NEW t \in Transaction, DeleteKeys(t)
  PROVE  KeysInv'
<1> DEFINE d    == keying[t].dataset
           work == [keying[t] EXCEPT !.at = "write", !.found = keyRow[d]]
<1>1. keying[t] \in Work /\ keying[t] # NoWork
  BY DEF DeleteKeys, KeysInv, KeyTypes
<1>2. d \in Dataset /\ keyRow[d] \subseteq KeyRow
  BY <1>1 DEF Work, KeysInv, KeyTypes
<1>3. /\ work \in Work
      /\ work.strategy = keying[t].strategy /\ work.dataset = d
      /\ work.found = keyRow[d]
  BY <1>1, <1>2 DEF Work
<1>4. keying' = [keying EXCEPT ![t] = work]
  BY <1>1 DEF DeleteKeys, KeysInv, KeyTypes
<1>5. UNCHANGED <<keyRow, strategy, configs>>
  BY DEF DeleteKeys, keys
<1>6. \A r \in keyRow[d] : r.by <= configs
  BY <1>2, RowsAreOfThePast
<1>7. keying[t].strategy # "ROW_INDEX_FALLBACK" => strategy[d] # "ROW_INDEX_FALLBACK"
  BY <1>1 DEF KeysInv, LoadedHasKey
<1> HIDE DEF work
<1> QED
  BY <1>3, <1>4, <1>5, <1>6, <1>7, OneKeyingChanges

LEMMA SampledStep ==
  ASSUME KeysInv, NEW a \in Admin, Sampled(a)
  PROVE  KeysInv'
<1> DEFINE work == [keying[a] EXCEPT !.at = "delete"]
<1>0. a \in Transaction
  BY DEF Transaction
<1>1. keying[a] \in Work /\ keying[a] # NoWork
  BY <1>0 DEF Sampled, KeysInv, KeyTypes
<1>2. /\ work \in Work
      /\ work.strategy = keying[a].strategy /\ work.dataset = keying[a].dataset /\ work.at = "delete"
  BY <1>1 DEF Work
<1>3. keying' = [keying EXCEPT ![a] = work]
  BY <1>0, <1>1 DEF Sampled, KeysInv, KeyTypes
<1>4. UNCHANGED <<keyRow, strategy, configs>>
  BY DEF Sampled, keys
<1>5. keying[a].strategy # "ROW_INDEX_FALLBACK" => strategy[keying[a].dataset] # "ROW_INDEX_FALLBACK"
  BY <1>0, <1>1 DEF KeysInv, LoadedHasKey
<1> HIDE DEF work
<1> QED
  BY <1>0, <1>2, <1>3, <1>4, <1>5, OneKeyingChanges

\* What a transaction leaves of the keys is what it writes: if rows of another
\* configuration were left, the one with the ordinal 0 would be among them.
LEMMA NothingIsLeft ==
  ASSUME KeysInv, NEW t \in Transaction, keying[t] # NoWork, keying[t].at = "write",
         configs < MaxConfigs, UniqueRows(KeyRowsAfter(t))
  PROVE  KeyRowsAfter(t) = RowsOf(keying[t].key, configs + 1)
<1> DEFINE d   == keying[t].dataset
           new == RowsOf(keying[t].key, configs + 1)
<1>1. keying[t] \in Work /\ d \in Dataset /\ keying[t].key \in KeyChoice
  BY DEF KeysInv, KeyTypes, Work
<1>2. configs + 1 \in 1..MaxConfigs /\ configs \in Nat
  BY DiscoveryConstants DEF KeysInv, KeyTypes
<1>3. KeyRowsAfter(t) = (keyRow[d] \ keying[t].found) \cup new
  BY DEF KeyRowsAfter, RowsOf
<1>4. PICK z \in new : z.ordinal = 0 /\ z.by = configs + 1
  BY <1>1, <1>2, KeyRowFields
<1>5. ASSUME keyRow[d] \cap keying[t].found = {}
      PROVE  keyRow[d] = {}
  <2> SUFFICES ASSUME keyRow[d] # {}
               PROVE  FALSE
    OBVIOUS
  <2>1. PICK k \in KeyChoice, b \in 1..configs : keyRow[d] = RowsOf(k, b)
    BY <1>1 DEF KeysInv, KeyedOnce
  <2>2. b \in 1..MaxConfigs
    BY <1>2, DiscoveryConstants
  <2>3. PICK y \in keyRow[d] : y.ordinal = 0 /\ y.by = b
    BY <2>1, <2>2, KeyRowFields
  <2>4. y \in KeyRowsAfter(t) /\ z \in KeyRowsAfter(t)
    BY <1>3, <1>5, <2>3
  <2>5. y = z
    BY <1>4, <2>3, <2>4 DEF UniqueRows
  <2> QED
    BY <1>2, <1>4, <2>3, <2>5
<1>6. keyRow[d] \ keying[t].found = {}
  BY <1>5 DEF KeysInv, FoundOrReplaced
<1> QED
  BY <1>3, <1>6

LEMMA WriteStep ==
  ASSUME KeysInv, NEW t \in Transaction, WriteKeys(t)
  PROVE  KeysInv'
<1> DEFINE work == keying[t]
           d    == work.dataset
           b    == configs + 1
           rows == RowsOf(work.key, b)
           kind == KeyStrategy(Len(work.key))
<1>1. /\ work # NoWork /\ work.at = "write" /\ configs < MaxConfigs
      /\ UniqueRows(KeyRowsAfter(t))
      /\ configs' = b
      /\ keyRow' = [keyRow EXCEPT ![d] = KeyRowsAfter(t)]
      /\ keying' = [keying EXCEPT ![t] = NoWork]
  BY DEF WriteKeys
<1>2. work \in Work /\ d \in Dataset /\ work.key \in KeyChoice
  BY <1>1 DEF KeysInv, KeyTypes, Work
<1>3. b \in 1..MaxConfigs /\ configs \in Nat /\ MaxConfigs \in Nat
  BY <1>1, DiscoveryConstants DEF KeysInv, KeyTypes
<1>4. KeyRowsAfter(t) = rows
  BY <1>1, NothingIsLeft
<1>5. rows \subseteq KeyRow /\ rows # {} /\ \A r \in rows : r.by = b
  BY <1>2, <1>3, KeyRowFields
<1>6. /\ keyRow' \in [Dataset -> SUBSET KeyRow]
      /\ keyRow'[d] = rows /\ \A e \in Dataset \ {d} : keyRow'[e] = keyRow[e]
  BY <1>1, <1>2, <1>4, <1>5 DEF KeysInv, KeyTypes
<1>7. kind \in Strategy /\ kind # "ROW_INDEX_FALLBACK"
  BY <1>2, KeysAreSequences DEF KeyStrategy, Strategy
<1>8. /\ strategy' \in [Dataset -> Strategy]
      /\ strategy'[d] # "ROW_INDEX_FALLBACK" /\ \A e \in Dataset \ {d} : strategy'[e] = strategy[e]
  <2>1. CASE kind = work.strategy /\ UNCHANGED strategy
    BY <1>1, <1>7, <2>1 DEF KeysInv, KeyTypes, LoadedHasKey
  <2>2. CASE strategy' = [strategy EXCEPT ![d] = kind]
    BY <1>2, <1>7, <2>2 DEF KeysInv, KeyTypes
  <2> QED
    BY <2>1, <2>2 DEF WriteKeys
<1>9. /\ keying' \in [Transaction -> Work \cup {NoWork}]
      /\ keying'[t] = NoWork /\ \A u \in Transaction \ {t} : keying'[u] = keying[u]
  BY <1>1 DEF KeysInv, KeyTypes
<1> HIDE DEF rows, kind
<1>10. KeyTypes'
  BY <1>1, <1>3, <1>6, <1>8, <1>9 DEF KeyTypes
<1>11. KeyedOnce'
  <2> SUFFICES ASSUME NEW e \in Dataset
               PROVE  \/ keyRow'[e] = {}
                      \/ \E k \in KeyChoice, c \in 1..configs' : keyRow'[e] = RowsOf(k, c) /\ UniqueRows(RowsOf(k, c))
    BY DEF KeyedOnce
  <2>1. CASE e = d
    <3>1. keyRow'[e] = RowsOf(work.key, b) /\ UniqueRows(RowsOf(work.key, b))
      BY <1>1, <1>4, <1>6, <2>1 DEF rows
    <3>2. b \in 1..configs'
      BY <1>1, <1>3
    <3> QED
      BY <1>2, <3>1, <3>2
  <2>2. CASE e # d /\ keyRow[e] # {}
    <3>1. PICK k \in KeyChoice, c \in 1..configs : keyRow[e] = RowsOf(k, c) /\ UniqueRows(RowsOf(k, c))
      BY <2>2 DEF KeysInv, KeyedOnce
    <3>2. c \in 1..configs'
      BY <1>1, <1>3
    <3> QED
      BY <1>6, <2>2, <3>1, <3>2
  <2> QED
    BY <1>6, <2>1, <2>2
<1>12. StrategyFits'
  BY <1>5, <1>6, <1>8 DEF KeysInv, StrategyFits
<1>13. LoadedHasKey'
  <2> SUFFICES ASSUME NEW u \in Transaction, keying'[u] # NoWork, keying'[u].strategy # "ROW_INDEX_FALLBACK"
               PROVE  strategy'[keying'[u].dataset] # "ROW_INDEX_FALLBACK"
    BY DEF LoadedHasKey
  <2>1. keying'[u] = keying[u] /\ keying[u] \in Work
    BY <1>9 DEF KeysInv, KeyTypes
  <2>2. keying[u].dataset \in Dataset
    BY <2>1 DEF Work
  <2>3. strategy[keying[u].dataset] # "ROW_INDEX_FALLBACK"
    BY <2>1 DEF KeysInv, LoadedHasKey
  <2> QED
    BY <1>8, <2>1, <2>2, <2>3
<1>14. FoundOrReplaced'
  <2> SUFFICES ASSUME NEW u \in Transaction, keying'[u] # NoWork, keying'[u].at = "write"
               PROVE  /\ \A r \in keying'[u].found : r.by <= configs'
                      /\ \/ keyRow'[keying'[u].dataset] \subseteq keying'[u].found
                         \/ keyRow'[keying'[u].dataset] \cap keying'[u].found = {}
    BY DEF FoundOrReplaced
  <2>1. keying'[u] = keying[u] /\ keying[u] \in Work
    BY <1>9 DEF KeysInv, KeyTypes
  <2>2. keying[u].dataset \in Dataset /\ keying[u].found \subseteq KeyRow
    BY <2>1 DEF Work
  <2>3. /\ \A r \in keying[u].found : r.by <= configs
        /\ \/ keyRow[keying[u].dataset] \subseteq keying[u].found
           \/ keyRow[keying[u].dataset] \cap keying[u].found = {}
    BY <2>1 DEF KeysInv, FoundOrReplaced
  <2>4. \A r \in keying[u].found : r.by \in Nat /\ r.by <= configs' /\ r.by # b
    BY <1>1, <1>3, <2>2, <2>3 DEF KeyRow
  <2>5. CASE keying[u].dataset = d
    BY <1>5, <1>6, <2>1, <2>4, <2>5
  <2>6. CASE keying[u].dataset # d
    BY <1>6, <2>1, <2>2, <2>3, <2>4, <2>6
  <2> QED
    BY <2>5, <2>6
<1> QED
  BY <1>10, <1>11, <1>12, <1>13, <1>14 DEF KeysInv

-----------------------------------------------------------------------------
(* The walk: as long as nothing disturbs it, what it has seen is catalogued *)
(* as it is in the source, and what it has not seen is still to be read.    *)

CatalogueTypes ==
  /\ source \in [Dataset -> SUBSET Column]
  /\ changes \in 0..MaxChanges
  /\ schemaRow \in [Schema -> RowState]
  /\ datasetRow \in [Dataset -> RowState]
  /\ columnRow \in [Dataset -> [Column -> RowState]]
  /\ walk \in [Walk -> WalkState]

Working == {"schemas", "datasets", "keys"}

\* What a walk has to do and has seen, by its step.
WellShaped(w) ==
  /\ w.step \in {"idle", "list"} => w.toList = {} /\ w.toRead = {} /\ w.schemas = {} /\ w.datasets = {}
  /\ w.step = "schemas" => w.toRead = {}
  /\ w.status = "COMPLETED" => w.step = "idle"

WalkShape == \A j \in Walk : WellShaped(walk[j])

\* Beside a walk that is undisturbed no other has listed the schemas.
Alone == \A j \in Walk : walk[j].undisturbed => \A i \in Walk \ {j} : walk[i].step \in {"idle", "list"}

\* A walk is undisturbed from the moment it has listed the schemas, and stays
\* so when it has completed.
Lasting(w) == w.undisturbed => w.step # "list" /\ (w.step = "idle" => w.status = "COMPLETED")

UndisturbedLasts == \A j \in Walk : Lasting(walk[j])

SourceSchemas == {SchemaOf[d] : d \in {e \in Dataset : source[e] # {}}}

SchemaMirrored(s) == schemaRow[s] = "active" /\ <<"connection", s>> \in edges

DatasetMirrored(d) ==
  /\ datasetRow[d] = "active" /\ ActiveColumns(d) = source[d]
  /\ <<SchemaOf[d], d>> \in edges /\ {d} \X source[d] \subseteq edges

ProgressOf(j) ==
  /\ walk[j].toList \cup walk[j].schemas = SourceSchemas
  /\ \A s \in walk[j].schemas : SchemaMirrored(s)
  /\ \A d \in walk[j].datasets : source[d] # {} /\ DatasetMirrored(d)
  /\ \A d \in walk[j].toRead : source[d] # {}
  /\ \A d \in Dataset : source[d] # {} /\ SchemaOf[d] \in walk[j].schemas => d \in walk[j].datasets \cup walk[j].toRead

WalkProgress == \A j \in Walk : walk[j].undisturbed /\ walk[j].step \in Working => ProgressOf(j)

\* What an undisturbed walk is to commit is what the source has.
ReadOfSource(j) == keying[j].dataset \in walk[j].toRead /\ keying[j].columns = source[keying[j].dataset]

KeysOfSource == \A j \in Walk : walk[j].undisturbed /\ walk[j].step = "keys" => ReadOfSource(j)

CatalogueIsSource ==
  /\ \A s \in Schema : schemaRow[s] = "active" <=> s \in SourceSchemas
  /\ \A d \in Dataset : datasetRow[d] = "active" <=> source[d] # {}
  /\ \A s \in SourceSchemas : SchemaMirrored(s)
  /\ \A d \in Dataset : source[d] # {} => DatasetMirrored(d)

WalkMirrors == \A j \in Walk :
  walk[j].undisturbed /\ walk[j].step \in {"complete", "idle"} => CatalogueIsSource

WalksInv ==
  /\ CatalogueTypes /\ WalkShape /\ Alone /\ UndisturbedLasts
  /\ WalkProgress /\ KeysOfSource /\ WalkMirrors

DiscoveryInv == KeysInv /\ WalksInv

\* What the invariant says of a walk that has completed is what the property says.
LEMMA MirrorIsWhatIsMeant == WalksInv => CompletedWalkMirrorsSource
<1> SUFFICES ASSUME WalksInv, NEW j \in Walk, walk[j].status = "COMPLETED", walk[j].undisturbed
             PROVE  /\ \A s \in Schema : schemaRow[s] = "active" <=> \E d \in Dataset : SchemaOf[d] = s /\ source[d] # {}
                    /\ \A d \in Dataset :
                         /\ datasetRow[d] = "active" <=> source[d] # {}
                         /\ source[d] # {} => ActiveColumns(d) = source[d]
                         /\ source[d] # {} => {<<"connection", SchemaOf[d]>>, <<SchemaOf[d], d>>} \subseteq edges
                         /\ {d} \X source[d] \subseteq edges
  BY DEF CompletedWalkMirrorsSource
<1>1. walk[j].step = "idle"
  BY DEF WalksInv, WalkShape, WellShaped
<1>2. CatalogueIsSource
  BY <1>1 DEF WalksInv, WalkMirrors
<1>3. \A s \in Schema : s \in SourceSchemas <=> \E d \in Dataset : SchemaOf[d] = s /\ source[d] # {}
  BY DEF SourceSchemas
<1>4. ASSUME NEW d \in Dataset, source[d] # {}
      PROVE  /\ ActiveColumns(d) = source[d]
             /\ {<<"connection", SchemaOf[d]>>, <<SchemaOf[d], d>>} \subseteq edges
             /\ {d} \X source[d] \subseteq edges
  <2>1. SchemaOf[d] \in SourceSchemas
    BY <1>4 DEF SourceSchemas
  <2> QED
    BY <1>2, <1>4, <2>1 DEF CatalogueIsSource, SchemaMirrored, DatasetMirrored
<1>5. ASSUME NEW d \in Dataset, source[d] = {}
      PROVE  {d} \X source[d] \subseteq edges
  BY <1>5
<1> QED
  BY <1>2, <1>3, <1>4, <1>5 DEF CatalogueIsSource

\* One walk changes.
LEMMA WalkChanges ==
  ASSUME CatalogueTypes, NEW j \in Walk, NEW w \in WalkState, walk' = [walk EXCEPT ![j] = w]
  PROVE  /\ walk' \in [Walk -> WalkState]
         /\ walk'[j] = w
         /\ \A i \in Walk \ {j} : walk'[i] = walk[i]
  BY DEF CatalogueTypes

\* The sources and the catalogue stay as they are, and with them what is said
\* of a walk.
LEMMA CatalogueStays ==
  ASSUME UNCHANGED <<source, catalogue, edges>>
  PROVE  /\ SourceSchemas' = SourceSchemas
         /\ CatalogueIsSource' <=> CatalogueIsSource
         /\ \A s : SchemaMirrored(s)' <=> SchemaMirrored(s)
         /\ \A d : DatasetMirrored(d)' <=> DatasetMirrored(d)
<1>1. UNCHANGED <<source, schemaRow, datasetRow, columnRow, edges>>
  BY DEF catalogue
<1>2. SourceSchemas' = SourceSchemas
  BY <1>1 DEF SourceSchemas
<1>3. ASSUME NEW s
      PROVE  SchemaMirrored(s)' <=> SchemaMirrored(s)
  BY <1>1 DEF SchemaMirrored
<1>4. ASSUME NEW d
      PROVE  DatasetMirrored(d)' <=> DatasetMirrored(d)
  BY <1>1 DEF DatasetMirrored, ActiveColumns
<1>5. CatalogueIsSource' <=> CatalogueIsSource
  BY <1>1, <1>2, <1>3, <1>4 DEF CatalogueIsSource
<1> QED
  BY <1>2, <1>3, <1>4, <1>5

\* A walk that comes to w, and the catalogue stays as it is.
LEMMA OneWalkMoves ==
  ASSUME DiscoveryInv, NEW j \in Walk, NEW w \in WalkState, walk' = [walk EXCEPT ![j] = w],
         UNCHANGED <<source, changes, catalogue, edges>>,
         \A i \in Walk \ {j} : keying'[i] = keying[i],
         WellShaped(w), Lasting(w),
         w.step \in {"idle", "list"} \/ walk[j].step \notin {"idle", "list"},
         w.undisturbed =>
           /\ walk[j].undisturbed
           /\ w.step \in Working =>
                /\ walk[j].step \in Working
                /\ w.toList = walk[j].toList /\ w.toRead = walk[j].toRead
                /\ w.schemas = walk[j].schemas /\ w.datasets = walk[j].datasets
           /\ w.step \in {"complete", "idle"} => walk[j].step \in {"complete", "idle"}
           /\ w.step = "keys" => keying'[j].dataset \in w.toRead /\ keying'[j].columns = source[keying'[j].dataset]
  PROVE  WalksInv'
<1>1. WalksInv /\ CatalogueTypes
  BY DEF DiscoveryInv, WalksInv
<1>2. /\ walk' \in [Walk -> WalkState]
      /\ walk'[j] = w
      /\ \A i \in Walk \ {j} : walk'[i] = walk[i]
  BY <1>1, WalkChanges
<1>3. /\ SourceSchemas' = SourceSchemas
      /\ CatalogueIsSource' <=> CatalogueIsSource
      /\ \A s : SchemaMirrored(s)' <=> SchemaMirrored(s)
      /\ \A d : DatasetMirrored(d)' <=> DatasetMirrored(d)
  BY CatalogueStays
<1>4. CatalogueTypes'
  BY <1>1, <1>2 DEF CatalogueTypes, catalogue
<1>5. WalkShape' /\ UndisturbedLasts'
  BY <1>1, <1>2 DEF WalksInv, WalkShape, UndisturbedLasts, Lasting, WellShaped
<1>6. Alone'
  BY <1>1, <1>2 DEF WalksInv, Alone
<1>7. WalkProgress'
  <2> SUFFICES ASSUME NEW i \in Walk, walk'[i].undisturbed, walk'[i].step \in Working
               PROVE  ProgressOf(i)'
    BY DEF WalkProgress
  <2>1. /\ walk[i].undisturbed /\ walk[i].step \in Working
        /\ walk'[i].toList = walk[i].toList /\ walk'[i].toRead = walk[i].toRead
        /\ walk'[i].schemas = walk[i].schemas /\ walk'[i].datasets = walk[i].datasets
    BY <1>2
  <2>2. ProgressOf(i)
    BY <1>1, <2>1 DEF WalksInv, WalkProgress
  <2> QED
    BY <1>3, <2>1, <2>2 DEF ProgressOf
<1>8. KeysOfSource'
  <2> SUFFICES ASSUME NEW i \in Walk, walk'[i].undisturbed, walk'[i].step = "keys"
               PROVE  ReadOfSource(i)'
    BY DEF KeysOfSource
  <2>1. CASE i = j
    BY <1>2, <2>1 DEF ReadOfSource
  <2>2. CASE i # j
    BY <1>1, <1>2, <2>2 DEF WalksInv, KeysOfSource, ReadOfSource
  <2> QED
    BY <2>1, <2>2
<1>9. WalkMirrors'
  BY <1>1, <1>2, <1>3 DEF WalksInv, WalkMirrors
<1> QED
  BY <1>4, <1>5, <1>6, <1>7, <1>8, <1>9 DEF WalksInv

\* A walk that has listed the schemas is the only one that can be undisturbed.
LEMMA OthersAreDisturbed ==
  ASSUME WalksInv, NEW j \in Walk, walk[j].step \notin {"idle", "list"}
  PROVE  \A i \in Walk \ {j} : ~walk[i].undisturbed
  BY DEF WalksInv, Alone

\* An empty walk, with a status.
LEMMA EmptyWalk ==
  ASSUME NEW status \in JobStatus
  PROVE  /\ [NoWalk EXCEPT !.status = status] \in WalkState
         /\ WellShaped([NoWalk EXCEPT !.status = status])
         /\ [NoWalk EXCEPT !.status = status].step = "idle"
         /\ ~[NoWalk EXCEPT !.status = status].undisturbed
  BY DEF NoWalk, WalkState, WalkStep, WellShaped

LEMMA CompleteWalk ==
  ASSUME NEW undisturbed \in BOOLEAN
  PROVE  LET w == [NoWalk EXCEPT !.status = "COMPLETED", !.undisturbed = undisturbed] IN
         /\ w \in WalkState /\ WellShaped(w) /\ w.step = "idle" /\ w.status = "COMPLETED"
         /\ w.undisturbed = undisturbed
  BY DEF NoWalk, WalkState, WalkStep, JobStatus, WellShaped

\* Steps of a job that are none of its walk: they change its status.
LEMMA StatusStep ==
  ASSUME DiscoveryInv, NEW j \in Walk, AskDiscovery(j) \/ CreateJob(j) \/ RequestCancel(j) \/ SweepJob(j)
  PROVE  WalksInv'
<1>1. walk \in [Walk -> WalkState] /\ walk[j] \in WalkState
  BY DEF DiscoveryInv, WalksInv, CatalogueTypes
<1>2. WellShaped(walk[j]) /\ Lasting(walk[j])
  BY DEF DiscoveryInv, WalksInv, WalkShape, UndisturbedLasts
<1>3. walk[j].undisturbed /\ walk[j].step = "keys" => ReadOfSource(j)
  BY DEF DiscoveryInv, WalksInv, KeysOfSource
<1>4. UNCHANGED <<source, changes, catalogue, edges, keying>>
  BY DEF AskDiscovery, CreateJob, RequestCancel, SweepJob
<1>5. PICK status \in JobStatus \ {"COMPLETED"}, cancel \in BOOLEAN :
        /\ walk' = [walk EXCEPT ![j] = [walk[j] EXCEPT !.status = status, !.cancel = cancel]]
        /\ walk[j].status # "COMPLETED"
  <2>1. CASE AskDiscovery(j)
    <3>1. walk' = [walk EXCEPT ![j] = [walk[j] EXCEPT !.status = "asked", !.cancel = walk[j].cancel]]
      BY <1>1, <2>1 DEF AskDiscovery, WalkState
    <3> QED
      BY <1>1, <2>1, <3>1 DEF AskDiscovery, WalkState, JobStatus
  <2>2. CASE CreateJob(j)
    <3>1. walk' = [walk EXCEPT ![j] = [walk[j] EXCEPT !.status = "QUEUED", !.cancel = walk[j].cancel]]
      BY <1>1, <2>2 DEF CreateJob, WalkState
    <3> QED
      BY <1>1, <2>2, <3>1 DEF CreateJob, WalkState, JobStatus
  <2>3. CASE RequestCancel(j)
    <3> DEFINE s == IF walk[j].status = "QUEUED" THEN "CANCELLED" ELSE walk[j].status
    <3>1. walk' = [walk EXCEPT ![j] = [walk[j] EXCEPT !.status = s, !.cancel = TRUE]]
      BY <1>1, <2>3 DEF RequestCancel, WalkState
    <3>2. s \in JobStatus \ {"COMPLETED"} /\ walk[j].status # "COMPLETED"
      BY <2>3 DEF RequestCancel, InFlight, JobStatus
    <3> HIDE DEF s
    <3> QED
      BY <3>1, <3>2
  <2>4. CASE SweepJob(j)
    <3>1. walk' = [walk EXCEPT ![j] = [walk[j] EXCEPT !.status = "FAILED", !.cancel = walk[j].cancel]]
      BY <1>1, <2>4 DEF SweepJob, WalkState
    <3> QED
      BY <1>1, <2>4, <3>1 DEF SweepJob, WalkState, JobStatus
  <2> QED
    BY <2>1, <2>2, <2>3, <2>4
<1> DEFINE w == [walk[j] EXCEPT !.status = status, !.cancel = cancel]
<1>6. /\ w \in WalkState /\ w.status = status
      /\ w.step = walk[j].step /\ w.undisturbed = walk[j].undisturbed
      /\ w.toList = walk[j].toList /\ w.toRead = walk[j].toRead
      /\ w.schemas = walk[j].schemas /\ w.datasets = walk[j].datasets
  BY <1>1, <1>5 DEF WalkState
<1>7. walk' = [walk EXCEPT ![j] = w]
  BY <1>5
<1> HIDE DEF w
<1>8. WellShaped(w)
  BY <1>2, <1>5, <1>6 DEF WellShaped
<1>9. Lasting(w)
  BY <1>2, <1>5, <1>6 DEF Lasting
<1> QED
  BY <1>3, <1>4, <1>6, <1>7, <1>8, <1>9, OneWalkMoves DEF ReadOfSource

LEMMA StartStep ==
  ASSUME DiscoveryInv, NEW j \in Walk, Start(j)
  PROVE  WalksInv'
<1> DEFINE w == [walk[j] EXCEPT !.status = "RUNNING", !.step = "list"]
<1>1. walk \in [Walk -> WalkState] /\ walk[j] \in WalkState
  BY DEF DiscoveryInv, WalksInv, CatalogueTypes
<1>2. WellShaped(walk[j]) /\ Lasting(walk[j])
  BY DEF DiscoveryInv, WalksInv, WalkShape, UndisturbedLasts
<1>3. walk[j].status = "QUEUED" /\ walk[j].step = "idle"
  BY DEF Start, At
<1>4. walk' = [walk EXCEPT ![j] = w]
  BY <1>1 DEF Start, WalkState
<1>5. /\ w \in WalkState /\ w.status = "RUNNING" /\ w.step = "list"
      /\ w.undisturbed = walk[j].undisturbed
      /\ w.toList = walk[j].toList /\ w.toRead = walk[j].toRead
      /\ w.schemas = walk[j].schemas /\ w.datasets = walk[j].datasets
  BY <1>1 DEF WalkState, WalkStep, JobStatus
<1>6. ~w.undisturbed
  BY <1>2, <1>3, <1>5 DEF Lasting
<1> HIDE DEF w
<1>7. WellShaped(w) /\ Lasting(w)
  BY <1>2, <1>3, <1>5, <1>6 DEF WellShaped, Lasting
<1>8. UNCHANGED <<source, changes, catalogue, edges, keying>>
  BY DEF Start
<1> QED
  BY <1>4, <1>5, <1>6, <1>7, <1>8, OneWalkMoves

\* A walk that ends, whether it completes or not.
LEMMA EndStep ==
  ASSUME DiscoveryInv, NEW j \in Walk,
         ListSchemasFails(j) \/ SeeCancel(j) \/ Complete(j) \/ WalkDies(j)
  PROVE  WalksInv'
<1>1. walk \in [Walk -> WalkState] /\ walk[j] \in WalkState
  BY DEF DiscoveryInv, WalksInv, CatalogueTypes
<1>2. ASSUME NEW status \in JobStatus, walk' = [walk EXCEPT ![j] = [NoWalk EXCEPT !.status = status]]
      PROVE  \E w \in WalkState :
               /\ walk' = [walk EXCEPT ![j] = w] /\ WellShaped(w) /\ w.step = "idle" /\ Lasting(w)
               /\ w.undisturbed => walk[j].undisturbed /\ walk[j].step = "complete"
  <2> DEFINE w == [NoWalk EXCEPT !.status = status]
  <2>1. w \in WalkState /\ WellShaped(w) /\ w.step = "idle" /\ ~w.undisturbed
    BY EmptyWalk
  <2>2. walk' = [walk EXCEPT ![j] = w]
    BY <1>2
  <2> HIDE DEF w
  <2> QED
    BY <2>1, <2>2 DEF Lasting
<1>3. PICK w \in WalkState :
        /\ walk' = [walk EXCEPT ![j] = w] /\ WellShaped(w) /\ w.step = "idle" /\ Lasting(w)
        /\ w.undisturbed => walk[j].undisturbed /\ walk[j].step = "complete"
  <2>1. CASE ListSchemasFails(j)
    BY <1>2, <2>1 DEF ListSchemasFails, JobStatus
  <2>2. CASE SeeCancel(j)
    BY <1>2, <2>2 DEF SeeCancel, JobStatus
  <2>3. CASE WalkDies(j)
    <3>1. walk[j].status \in JobStatus
      BY <1>1 DEF WalkState
    <3> QED
      BY <1>2, <2>3, <3>1 DEF WalkDies
  <2>4. CASE Complete(j)
    <3> DEFINE w == [NoWalk EXCEPT !.status = "COMPLETED", !.undisturbed = walk[j].undisturbed]
    <3>1. walk[j].undisturbed \in BOOLEAN
      BY <1>1 DEF WalkState
    <3>2. /\ w \in WalkState /\ WellShaped(w) /\ w.step = "idle" /\ w.status = "COMPLETED"
          /\ w.undisturbed = walk[j].undisturbed
      BY <3>1, CompleteWalk
    <3>3. walk' = [walk EXCEPT ![j] = w] /\ walk[j].step = "complete"
      BY <2>4 DEF Complete, At
    <3> HIDE DEF w
    <3> QED
      BY <3>2, <3>3 DEF Lasting
  <2> QED
    BY <2>1, <2>2, <2>3, <2>4
<1>4. UNCHANGED <<source, changes, catalogue, edges>>
  BY DEF ListSchemasFails, SeeCancel, Complete, WalkDies
<1>5. \A i \in Walk \ {j} : keying'[i] = keying[i]
  BY DEF ListSchemasFails, SeeCancel, Complete, WalkDies, DiscoveryInv, KeysInv, KeyTypes, Transaction
<1> QED
  BY <1>3, <1>4, <1>5, OneWalkMoves DEF Working

\* The walk looks at its next schema, or gives a dataset up.
LEMMA LoopStep ==
  ASSUME DiscoveryInv, NEW j \in Walk, NextSchema(j) \/ DatasetFails(j)
  PROVE  WalksInv'
<1>1. walk \in [Walk -> WalkState] /\ walk[j] \in WalkState
  BY DEF DiscoveryInv, WalksInv, CatalogueTypes
<1>2. WellShaped(walk[j]) /\ walk[j].step = "datasets"
  BY DEF DiscoveryInv, WalksInv, WalkShape, NextSchema, DatasetFails, At
<1>3. UNCHANGED <<source, changes, catalogue, edges, keying>>
  BY DEF NextSchema, DatasetFails
<1>4. CASE NextSchema(j)
  <2> DEFINE w == [walk[j] EXCEPT !.step = "schemas"]
  <2>1. walk' = [walk EXCEPT ![j] = w] /\ walk[j].toRead = {}
    BY <1>1, <1>4 DEF NextSchema, WalkState
  <2>2. /\ w \in WalkState /\ w.status = walk[j].status /\ w.step = "schemas"
        /\ w.undisturbed = walk[j].undisturbed
        /\ w.toList = walk[j].toList /\ w.toRead = walk[j].toRead
        /\ w.schemas = walk[j].schemas /\ w.datasets = walk[j].datasets
    BY <1>1 DEF WalkState, WalkStep
  <2> HIDE DEF w
  <2>3. WellShaped(w) /\ Lasting(w)
    BY <1>2, <2>1, <2>2 DEF WellShaped, Lasting
  <2> QED
    BY <1>2, <1>3, <2>1, <2>2, <2>3, OneWalkMoves DEF Working
<1>5. CASE DatasetFails(j)
  <2>1. PICK d \in walk[j].toRead :
          walk' = [walk EXCEPT ![j].toRead = @ \ {d}, ![j].undisturbed = FALSE]
    BY <1>5 DEF DatasetFails
  <2> DEFINE w == [walk[j] EXCEPT !.toRead = @ \ {d}, !.undisturbed = FALSE]
  <2>2. walk' = [walk EXCEPT ![j] = w]
    BY <1>1, <2>1 DEF WalkState
  <2>3. w \in WalkState /\ w.status = walk[j].status /\ w.step = "datasets" /\ ~w.undisturbed
    BY <1>1, <1>2 DEF WalkState
  <2> HIDE DEF w
  <2>4. WellShaped(w) /\ Lasting(w)
    BY <1>2, <2>3 DEF WellShaped, Lasting
  <2> QED
    BY <1>2, <1>3, <2>2, <2>3, <2>4, OneWalkMoves
<1> QED
  BY <1>4, <1>5

\* The dataset whose keys are to be written is one of those that are left.
LEMMA BeginUpsertStep ==
  ASSUME DiscoveryInv, NEW j \in Walk, BeginUpsert(j)
  PROVE  WalksInv'
<1> DEFINE w == [walk[j] EXCEPT !.step = "keys"]
<1>1. walk \in [Walk -> WalkState] /\ walk[j] \in WalkState
  BY DEF DiscoveryInv, WalksInv, CatalogueTypes
<1>2. WellShaped(walk[j]) /\ walk[j].step = "datasets"
  BY DEF DiscoveryInv, WalksInv, WalkShape, BeginUpsert, At
<1>3. walk' = [walk EXCEPT ![j] = w]
  BY <1>1 DEF BeginUpsert, WalkState
<1>4. /\ w \in WalkState /\ w.status = walk[j].status /\ w.step = "keys"
      /\ w.undisturbed = walk[j].undisturbed
      /\ w.toList = walk[j].toList /\ w.toRead = walk[j].toRead
      /\ w.schemas = walk[j].schemas /\ w.datasets = walk[j].datasets
  BY <1>1 DEF WalkState, WalkStep
<1> HIDE DEF w
<1>5. WellShaped(w) /\ Lasting(w)
  BY <1>2, <1>4 DEF WellShaped, Lasting
<1>6. UNCHANGED <<source, changes, catalogue, edges>>
  BY DEF BeginUpsert
<1>7. j \in Transaction /\ keying \in [Transaction -> Work \cup {NoWork}]
  BY DEF DiscoveryInv, KeysInv, KeyTypes, Transaction
<1>8. PICK d \in walk[j].toRead : \E k \in Reported(source[d]) :
        keying' = [keying EXCEPT ![j] = Loaded(d, k, source[d], "delete")]
  BY DEF BeginUpsert
<1>9. keying'[j].dataset = d /\ keying'[j].columns = source[d]
  BY <1>7, <1>8 DEF Loaded
<1>10. \A i \in Walk \ {j} : keying'[i] = keying[i]
  BY <1>7, <1>8 DEF Transaction
<1> QED
  BY <1>2, <1>3, <1>4, <1>5, <1>6, <1>8, <1>9, <1>10, OneWalkMoves DEF Working

\* A walk that changes the catalogue: the others are disturbed already.
LEMMA BusyWalkMoves ==
  ASSUME WalksInv, NEW j \in Walk, walk[j].step \notin {"idle", "list"},
         NEW w \in WalkState, walk' = [walk EXCEPT ![j] = w],
         CatalogueTypes', WellShaped(w), w.step \in {"schemas", "datasets", "complete"},
         w.undisturbed =>
           /\ walk[j].undisturbed
           /\ w.step # "complete" => ProgressOf(j)'
           /\ w.step = "complete" => CatalogueIsSource'
  PROVE  WalksInv'
<1>1. /\ walk' \in [Walk -> WalkState]
      /\ walk'[j] = w
      /\ \A i \in Walk \ {j} : walk'[i] = walk[i]
  BY WalkChanges DEF WalksInv
<1>2. \A i \in Walk \ {j} : ~walk'[i].undisturbed
  BY <1>1, OthersAreDisturbed
<1>3. WalkShape' /\ UndisturbedLasts'
  BY <1>1, <1>2 DEF WalksInv, WalkShape, UndisturbedLasts, Lasting, WellShaped
<1>4. Alone'
  BY <1>1, <1>2 DEF WalksInv, Alone
<1>5. WalkProgress' /\ KeysOfSource' /\ WalkMirrors'
  BY <1>1, <1>2 DEF WalkProgress, KeysOfSource, WalkMirrors, Working
<1> QED
  BY <1>3, <1>4, <1>5 DEF WalksInv

\* The walk lists the schemas: it is undisturbed if no other is at work.
LEMMA ListSchemasStep ==
  ASSUME DiscoveryInv, NEW j \in Walk, ListSchemas(j)
  PROVE  WalksInv'
<1> DEFINE alone == \A k \in Walk \ {j} : walk[k].step = "idle"
           w == [walk[j] EXCEPT !.step = "schemas", !.toList = SourceSchemas, !.undisturbed = alone]
<1>1. walk \in [Walk -> WalkState] /\ walk[j] \in WalkState /\ walk[j].step = "list"
  BY DEF DiscoveryInv, WalksInv, CatalogueTypes, ListSchemas, At
<1>2. WellShaped(walk[j])
  BY DEF DiscoveryInv, WalksInv, WalkShape
<1>3. SourceSchemas \subseteq Schema
  BY DiscoveryConstants DEF SourceSchemas
<1>4. /\ walk' = [i \in Walk |-> IF i = j THEN w ELSE [walk[i] EXCEPT !.undisturbed = FALSE]]
      /\ UNCHANGED <<source, changes, catalogue, edges>>
  BY DEF ListSchemas, SourceSchemas, At
<1>5. alone \in BOOLEAN
  OBVIOUS
<1>a. alone => \A k \in Walk \ {j} : walk[k].step = "idle"
  OBVIOUS
<1> HIDE DEF alone
<1>6. /\ w \in WalkState /\ w.status = walk[j].status /\ w.step = "schemas" /\ w.undisturbed = alone
      /\ w.toList = SourceSchemas /\ w.toRead = {} /\ w.schemas = {} /\ w.datasets = {}
  BY <1>1, <1>2, <1>3, <1>5 DEF WalkState, WalkStep, WellShaped
<1> HIDE DEF w
<1>7. ASSUME NEW i \in Walk \ {j}
      PROVE  /\ [walk[i] EXCEPT !.undisturbed = FALSE] \in WalkState
             /\ walk'[i].status = walk[i].status /\ walk'[i].step = walk[i].step
             /\ walk'[i].toList = walk[i].toList /\ walk'[i].toRead = walk[i].toRead
             /\ walk'[i].schemas = walk[i].schemas /\ walk'[i].datasets = walk[i].datasets
             /\ ~walk'[i].undisturbed
  <2>1. walk[i] \in WalkState
    BY <1>1
  <2>2. walk'[i] = [walk[i] EXCEPT !.undisturbed = FALSE]
    BY <1>4
  <2> QED
    BY <2>1, <2>2 DEF WalkState
<1>8. walk' \in [Walk -> WalkState] /\ walk'[j] = w
  BY <1>4, <1>6, <1>7
<1>9. CatalogueTypes'
  BY <1>4, <1>8 DEF DiscoveryInv, WalksInv, CatalogueTypes, catalogue
<1>10. WalkShape' /\ UndisturbedLasts'
  <2>1. WellShaped(w) /\ Lasting(w)
    BY <1>1, <1>2, <1>6 DEF WellShaped, Lasting
  <2>2. ASSUME NEW i \in Walk \ {j}
        PROVE  WellShaped(walk'[i]) /\ Lasting(walk'[i])
    <3>1. WellShaped(walk[i])
      BY DEF DiscoveryInv, WalksInv, WalkShape
    <3>2. Lasting(walk'[i])
      BY <1>7 DEF Lasting
    <3>3. WellShaped(walk'[i])
      BY <1>7, <3>1 DEF WellShaped
    <3> QED
      BY <3>2, <3>3
  <2>3. \A i \in Walk : WellShaped(walk'[i]) /\ Lasting(walk'[i])
    BY <1>8, <2>1, <2>2
  <2> QED
    BY <2>3 DEF WalkShape, UndisturbedLasts, WellShaped, Lasting
<1>11. Alone'
  <2> SUFFICES ASSUME NEW k \in Walk, walk'[k].undisturbed, NEW i \in Walk \ {k}
               PROVE  walk'[i].step \in {"idle", "list"}
    BY DEF Alone
  <2>1. k = j
    BY <1>7
  <2>2. alone /\ i # j
    BY <1>6, <1>8, <2>1
  <2> QED
    BY <1>a, <1>7, <2>2
<1>12. SourceSchemas' = SourceSchemas
  BY <1>4 DEF SourceSchemas
<1>13. WalkProgress'
  BY <1>6, <1>7, <1>8, <1>12 DEF WalkProgress, ProgressOf
<1>14. KeysOfSource' /\ WalkMirrors'
  BY <1>6, <1>7, <1>8 DEF KeysOfSource, WalkMirrors
<1> QED
  BY <1>9, <1>10, <1>11, <1>13, <1>14 DEF WalksInv

LEMMA UpsertSchemaStep ==
  ASSUME DiscoveryInv, NEW j \in Walk, UpsertSchema(j)
  PROVE  WalksInv'
<1>1. walk \in [Walk -> WalkState] /\ walk[j] \in WalkState /\ walk[j].step = "schemas"
  BY DEF DiscoveryInv, WalksInv, CatalogueTypes, UpsertSchema, At
<1>2. WalksInv /\ WellShaped(walk[j]) /\ walk[j].toRead = {}
  BY <1>1 DEF DiscoveryInv, WalksInv, WalkShape, WellShaped
<1>3. UNCHANGED <<source, changes, datasetRow, columnRow>>
  BY DEF UpsertSchema
<1>4. PICK s \in walk[j].toList :
        /\ schemaRow' = [schemaRow EXCEPT ![s] = "active"]
        /\ edges' = edges \cup {<<"connection", s>>}
        /\ \/ walk' = [walk EXCEPT ![j].toList = @ \ {s}, ![j].schemas = @ \cup {s}, ![j].step = "datasets",
                         ![j].toRead = {d \in Dataset : SchemaOf[d] = s /\ source[d] # {}}]
           \/ walk' = [walk EXCEPT ![j].toList = @ \ {s}, ![j].schemas = @ \cup {s}, ![j].undisturbed = FALSE]
  BY DEF UpsertSchema
<1>5. s \in Schema /\ walk[j].toList \subseteq Schema /\ walk[j].schemas \subseteq Schema
  BY <1>1 DEF WalkState
<1>6. schemaRow' \in [Schema -> RowState] /\ schemaRow'[s] = "active"
      /\ \A r \in Schema \ {s} : schemaRow'[r] = schemaRow[r]
  BY <1>4, <1>5 DEF DiscoveryInv, WalksInv, CatalogueTypes, RowState
<1>7. CASE walk' = [walk EXCEPT ![j].toList = @ \ {s}, ![j].schemas = @ \cup {s}, ![j].undisturbed = FALSE]
  <2> DEFINE w == [walk[j] EXCEPT !.toList = @ \ {s}, !.schemas = @ \cup {s}, !.undisturbed = FALSE]
  <2>1. walk' = [walk EXCEPT ![j] = w]
    BY <1>1, <1>7 DEF WalkState
  <2>2. w \in WalkState /\ w.step = "schemas" /\ w.toRead = {} /\ w.status = walk[j].status /\ ~w.undisturbed
    BY <1>1, <1>2, <1>5 DEF WalkState
  <2> HIDE DEF w
  <2>3. WellShaped(w)
    BY <1>1, <1>2, <2>2 DEF WellShaped
  <2>4. walk' \in [Walk -> WalkState]
    BY <1>1, <2>1, <2>2
  <2>5. CatalogueTypes'
    BY <1>2, <1>3, <1>6, <2>4 DEF WalksInv, CatalogueTypes
  <2> QED
    BY <1>1, <1>2, <2>1, <2>2, <2>3, <2>5, BusyWalkMoves
<1>8. CASE walk' = [walk EXCEPT ![j].toList = @ \ {s}, ![j].schemas = @ \cup {s}, ![j].step = "datasets",
                      ![j].toRead = {d \in Dataset : SchemaOf[d] = s /\ source[d] # {}}]
  <2> DEFINE toRead == {d \in Dataset : SchemaOf[d] = s /\ source[d] # {}}
             w == [walk[j] EXCEPT !.toList = @ \ {s}, !.schemas = @ \cup {s}, !.step = "datasets", !.toRead = toRead]
  <2>0. toRead \subseteq Dataset
    OBVIOUS
  <2>1. walk' = [walk EXCEPT ![j] = w]
    BY <1>1, <1>8 DEF WalkState
  <2>a. \A d : d \in toRead <=> d \in Dataset /\ SchemaOf[d] = s /\ source[d] # {}
    OBVIOUS
  <2> HIDE DEF toRead
  <2>2. /\ w \in WalkState /\ w.step = "datasets" /\ w.status = walk[j].status
        /\ w.undisturbed = walk[j].undisturbed
        /\ w.toList = walk[j].toList \ {s} /\ w.schemas = walk[j].schemas \cup {s}
        /\ w.toRead = toRead /\ w.datasets = walk[j].datasets
    BY <1>1, <1>5, <2>0 DEF WalkState, WalkStep
  <2> HIDE DEF w
  <2>3. WellShaped(w)
    BY <1>1, <1>2, <2>2 DEF WellShaped
  <2>4. walk' \in [Walk -> WalkState] /\ walk'[j] = w
    BY <1>1, <2>1, <2>2
  <2>5. CatalogueTypes'
    BY <1>2, <1>3, <1>6, <2>4 DEF WalksInv, CatalogueTypes
  <2>6. ASSUME w.undisturbed
        PROVE  ProgressOf(j)'
    <3>1. ProgressOf(j)
      BY <1>1, <1>2, <2>2, <2>6 DEF WalksInv, WalkProgress, Working
    <3>2. SourceSchemas' = SourceSchemas
      BY <1>3 DEF SourceSchemas
    <3>3. w.toList \cup w.schemas = SourceSchemas
      BY <1>4, <2>2, <3>1 DEF ProgressOf
    <3>4. \A r \in w.schemas : SchemaMirrored(r)'
      BY <1>4, <1>5, <1>6, <2>2, <3>1 DEF ProgressOf, SchemaMirrored
    <3>5. \A d \in w.datasets : source'[d] # {} /\ DatasetMirrored(d)'
      BY <1>3, <1>4, <2>2, <3>1 DEF ProgressOf, DatasetMirrored, ActiveColumns
    <3>6. \A d \in w.toRead : source'[d] # {}
      BY <1>3, <2>a, <2>2
    <3>7. \A d \in Dataset : source'[d] # {} /\ SchemaOf[d] \in w.schemas => d \in w.datasets \cup w.toRead
      BY <1>2, <1>3, <2>a, <2>2, <3>1 DEF ProgressOf
    <3> QED
      BY <2>4, <3>2, <3>3, <3>4, <3>5, <3>6, <3>7 DEF ProgressOf
  <2> QED
    BY <1>1, <1>2, <2>1, <2>2, <2>3, <2>5, <2>6, BusyWalkMoves
<1> QED
  BY <1>4, <1>7, <1>8

\* A dataset is reconciled with what has been read of it: both when it has no
\* primary key and when it has one.
LEMMA DatasetUpserted ==
  ASSUME DiscoveryInv, NEW j \in Walk, walk[j].step \in {"datasets", "keys"}, NEW d \in Dataset, NEW columns \in SUBSET Column,
         UNCHANGED <<source, changes, schemaRow>>,
         datasetRow' = [datasetRow EXCEPT ![d] = "active"],
         columnRow' = [columnRow EXCEPT ![d] = Reconciled(d, columns)],
         edges' = edges \cup {<<SchemaOf[d], d>>} \cup {<<d, c>> : c \in columns},
         walk' = [walk EXCEPT ![j] = [walk[j] EXCEPT !.step = "datasets", !.toRead = @ \ {d}, !.datasets = @ \cup {d}]],
         walk[j].undisturbed => d \in walk[j].toRead /\ columns = source[d]
  PROVE  WalksInv'
<1> DEFINE w == [walk[j] EXCEPT !.step = "datasets", !.toRead = @ \ {d}, !.datasets = @ \cup {d}]
<1>1. walk \in [Walk -> WalkState] /\ walk[j] \in WalkState
  BY DEF DiscoveryInv, WalksInv, CatalogueTypes
<1>2. WalksInv /\ WellShaped(walk[j])
  BY DEF DiscoveryInv, WalksInv, WalkShape
<1>3. /\ w \in WalkState /\ w.step = "datasets" /\ w.status = walk[j].status
      /\ w.undisturbed = walk[j].undisturbed
      /\ w.toList = walk[j].toList /\ w.schemas = walk[j].schemas
      /\ w.toRead = walk[j].toRead \ {d} /\ w.datasets = walk[j].datasets \cup {d}
  BY <1>1 DEF WalkState, WalkStep
<1>4. walk' = [walk EXCEPT ![j] = w]
  OBVIOUS
<1> HIDE DEF w
<1>5. WellShaped(w)
  BY <1>2, <1>3 DEF WellShaped
<1>6. walk' \in [Walk -> WalkState] /\ walk'[j] = w
  BY <1>1, <1>3, <1>4
<1>7. datasetRow' \in [Dataset -> RowState] /\ datasetRow'[d] = "active"
      /\ \A e \in Dataset \ {d} : datasetRow'[e] = datasetRow[e]
  BY <1>2 DEF WalksInv, CatalogueTypes, RowState
<1>8. Reconciled(d, columns) \in [Column -> RowState]
  <2>1. \A c \in Column : columnRow[d][c] \in RowState
    BY <1>2 DEF WalksInv, CatalogueTypes
  <2> QED
    BY <2>1 DEF Reconciled, RowState
<1>9. columnRow' \in [Dataset -> [Column -> RowState]] /\ columnRow'[d] = Reconciled(d, columns)
      /\ \A e \in Dataset \ {d} : columnRow'[e] = columnRow[e]
  BY <1>2, <1>8 DEF WalksInv, CatalogueTypes
<1>10. CatalogueTypes'
  BY <1>2, <1>6, <1>7, <1>9 DEF WalksInv, CatalogueTypes
<1>11. ASSUME w.undisturbed
       PROVE  ProgressOf(j)'
  <2>1. ProgressOf(j) /\ d \in walk[j].toRead /\ columns = source[d]
    BY <1>2, <1>3, <1>11 DEF WalksInv, WalkProgress, Working
  <2>2. SourceSchemas' = SourceSchemas
    BY DEF SourceSchemas
  <2>3. \A s \in w.schemas : SchemaMirrored(s)'
    BY <1>3, <2>1 DEF ProgressOf, SchemaMirrored
  <2>4. DatasetMirrored(d)'
    <3>1. ActiveColumns(d)' = source[d]
      <4>1. \A c \in Column : columnRow'[d][c] = "active" <=> c \in source[d]
        BY <1>9, <2>1 DEF Reconciled
      <4>2. source[d] \subseteq Column
        BY <1>2 DEF WalksInv, CatalogueTypes
      <4> QED
        BY <4>1, <4>2 DEF ActiveColumns
    <3>2. <<SchemaOf[d], d>> \in edges'
      OBVIOUS
    <3>3. {d} \X source[d] \subseteq edges'
      BY <2>1
    <3> QED
      BY <1>7, <3>1, <3>2, <3>3 DEF DatasetMirrored
  <2>5. \A e \in walk[j].datasets \ {d} : DatasetMirrored(e)'
    <3> SUFFICES ASSUME NEW e \in walk[j].datasets \ {d}
                 PROVE  DatasetMirrored(e)'
      OBVIOUS
    <3>1. e \in Dataset \ {d}
      BY <1>1 DEF WalkState
    <3>2. DatasetMirrored(e)
      BY <2>1 DEF ProgressOf
    <3> QED
      BY <1>7, <1>9, <3>1, <3>2 DEF DatasetMirrored, ActiveColumns
  <2>6. \A e \in w.datasets : source'[e] # {} /\ DatasetMirrored(e)'
    BY <1>3, <2>1, <2>4, <2>5 DEF ProgressOf
  <2>7. \A e \in w.toRead : source'[e] # {}
    BY <1>3, <2>1 DEF ProgressOf
  <2>8. \A e \in Dataset : source'[e] # {} /\ SchemaOf[e] \in w.schemas => e \in w.datasets \cup w.toRead
    BY <1>3, <2>1 DEF ProgressOf
  <2>9. w.toList \cup w.schemas = SourceSchemas
    BY <1>3, <2>1 DEF ProgressOf
  <2> QED
    BY <1>6, <2>2, <2>3, <2>6, <2>7, <2>8, <2>9 DEF ProgressOf
<1> QED
  BY <1>2, <1>3, <1>4, <1>5, <1>10, <1>11, BusyWalkMoves

LEMMA UpsertStep ==
  ASSUME DiscoveryInv, NEW j \in Walk, UpsertDataset(j) \/ CommitUpsert(j)
  PROVE  WalksInv'
<1>1. walk \in [Walk -> WalkState] /\ walk[j] \in WalkState
  BY DEF DiscoveryInv, WalksInv, CatalogueTypes
<1>2. CASE UpsertDataset(j)
  <2>1. PICK d \in walk[j].toRead :
          /\ datasetRow' = [datasetRow EXCEPT ![d] = "active"]
          /\ columnRow' = [columnRow EXCEPT ![d] = Reconciled(d, source[d])]
          /\ edges' = edges \cup {<<SchemaOf[d], d>>} \cup {<<d, c>> : c \in source[d]}
          /\ walk' = [walk EXCEPT ![j].toRead = @ \ {d}, ![j].datasets = @ \cup {d}]
    BY <1>2 DEF UpsertDataset
  <2>2. d \in Dataset
    BY <1>1 DEF WalkState
  <2>3. source[d] \in SUBSET Column
    BY <2>2 DEF DiscoveryInv, WalksInv, CatalogueTypes
  <2>4. walk[j].step = "datasets" /\ UNCHANGED <<source, changes, schemaRow>>
    BY <1>2 DEF UpsertDataset, At
  <2>5. walk' = [walk EXCEPT ![j] = [walk[j] EXCEPT !.step = "datasets", !.toRead = @ \ {d}, !.datasets = @ \cup {d}]]
    BY <1>1, <2>1, <2>4 DEF WalkState
  <2> QED
    BY <2>1, <2>2, <2>3, <2>4, <2>5, DatasetUpserted
<1>3. CASE CommitUpsert(j)
  <2> DEFINE d       == keying[j].dataset
             columns == keying[j].columns
  <2>1. /\ WriteKeys(j) /\ walk[j].step = "keys"
        /\ datasetRow' = [datasetRow EXCEPT ![d] = "active"]
        /\ columnRow' = [columnRow EXCEPT ![d] = Reconciled(d, columns)]
        /\ edges' = edges \cup {<<SchemaOf[d], d>>} \cup {<<d, c>> : c \in columns}
        /\ walk' = [walk EXCEPT ![j].step = "datasets", ![j].toRead = @ \ {d}, ![j].datasets = @ \cup {d}]
        /\ UNCHANGED <<source, changes, schemaRow>>
    BY <1>3 DEF CommitUpsert, At
  <2>2. keying[j] \in Work
    BY <2>1 DEF WriteKeys, DiscoveryInv, KeysInv, KeyTypes, Transaction
  <2>3. d \in Dataset /\ columns \in SUBSET Column
    BY <2>2 DEF Work
  <2>4. walk[j].undisturbed => d \in walk[j].toRead /\ columns = source[d]
    BY <2>1 DEF DiscoveryInv, WalksInv, KeysOfSource, ReadOfSource
  <2> HIDE DEF d, columns
  <2>5. walk' = [walk EXCEPT ![j] = [walk[j] EXCEPT !.step = "datasets", !.toRead = @ \ {d}, !.datasets = @ \cup {d}]]
    BY <1>1, <2>1 DEF WalkState
  <2> QED
    BY <2>1, <2>3, <2>4, <2>5, DatasetUpserted
<1> QED
  BY <1>2, <1>3

\* What has not been seen is deactivated: what is left is what the source has.
LEMMA DeactivateStep ==
  ASSUME DiscoveryInv, NEW j \in Walk, DeactivateMissing(j)
  PROVE  WalksInv'
<1> DEFINE w == [walk[j] EXCEPT !.step = "complete"]
<1>1. walk \in [Walk -> WalkState] /\ walk[j] \in WalkState
  BY DEF DiscoveryInv, WalksInv, CatalogueTypes
<1>2. WalksInv /\ WellShaped(walk[j])
  BY DEF DiscoveryInv, WalksInv, WalkShape
<1>3. /\ walk[j].step = "schemas" /\ walk[j].toList = {}
      /\ schemaRow' = Unseen(schemaRow, walk[j].schemas)
      /\ datasetRow' = Unseen(datasetRow, walk[j].datasets)
      /\ UNCHANGED <<source, changes, columnRow, edges>>
  BY DEF DeactivateMissing, At
<1>4. walk' = [walk EXCEPT ![j] = w]
  BY <1>1 DEF DeactivateMissing, WalkState
<1>5. /\ w \in WalkState /\ w.step = "complete" /\ w.status = walk[j].status
      /\ w.undisturbed = walk[j].undisturbed
  BY <1>1 DEF WalkState, WalkStep
<1> HIDE DEF w
<1>6. WellShaped(w)
  BY <1>2, <1>3, <1>5 DEF WellShaped
<1>7. walk' \in [Walk -> WalkState]
  BY <1>1, <1>4, <1>5
<1>8. schemaRow \in [Schema -> RowState] /\ datasetRow \in [Dataset -> RowState]
  BY <1>2 DEF WalksInv, CatalogueTypes
<1>9. /\ schemaRow' \in [Schema -> RowState]
      /\ \A s \in Schema : schemaRow'[s] = "active" <=> schemaRow[s] = "active" /\ s \in walk[j].schemas
  BY <1>3, <1>8 DEF Unseen, RowState
<1>10. /\ datasetRow' \in [Dataset -> RowState]
       /\ \A d \in Dataset : datasetRow'[d] = "active" <=> datasetRow[d] = "active" /\ d \in walk[j].datasets
  BY <1>3, <1>8 DEF Unseen, RowState
<1>11. CatalogueTypes'
  BY <1>2, <1>3, <1>7, <1>9, <1>10 DEF WalksInv, CatalogueTypes
<1>12. ASSUME w.undisturbed
       PROVE  CatalogueIsSource'
  <2>1. ProgressOf(j)
    BY <1>2, <1>3, <1>5, <1>12 DEF WalksInv, WalkProgress, Working
  <2>2. walk[j].toRead = {} /\ walk[j].schemas = SourceSchemas
    BY <1>2, <1>3, <2>1 DEF WellShaped, ProgressOf
  <2>3. \A d \in Dataset : d \in walk[j].datasets <=> source[d] # {}
    <3>1. \A d \in Dataset : source[d] # {} => SchemaOf[d] \in SourceSchemas
      BY DEF SourceSchemas
    <3> QED
      BY <2>1, <2>2, <3>1 DEF ProgressOf
  <2>4. SourceSchemas' = SourceSchemas /\ SourceSchemas \subseteq Schema
    BY <1>3, DiscoveryConstants DEF SourceSchemas
  <2>5. \A s \in Schema : schemaRow'[s] = "active" <=> s \in SourceSchemas
    BY <1>9, <2>1, <2>2 DEF ProgressOf, SchemaMirrored
  <2>6. \A d \in Dataset : datasetRow'[d] = "active" <=> source[d] # {}
    BY <1>10, <2>1, <2>3 DEF ProgressOf, DatasetMirrored
  <2>7. \A s \in SourceSchemas : SchemaMirrored(s)'
    BY <1>3, <2>1, <2>2, <2>4, <2>5 DEF ProgressOf, SchemaMirrored
  <2>8. \A d \in Dataset : source[d] # {} => DatasetMirrored(d)'
    BY <1>3, <2>1, <2>3, <2>6 DEF ProgressOf, DatasetMirrored, ActiveColumns
  <2> QED
    BY <1>3, <2>4, <2>5, <2>6, <2>7, <2>8 DEF CatalogueIsSource
<1> QED
  BY <1>2, <1>3, <1>4, <1>5, <1>6, <1>11, <1>12, BusyWalkMoves

\* Somebody else writes the catalogue, or the source changes: no walk is
\* undisturbed.
LEMMA DisturbStep ==
  ASSUME DiscoveryInv, (\E d \in Dataset : SetActive(d)) \/ SourceChanges
  PROVE  WalksInv'
<1>1. walk \in [Walk -> WalkState] /\ WalksInv /\ MaxChanges \in Nat
  BY DiscoveryConstants DEF DiscoveryInv, WalksInv, CatalogueTypes
<1>2. Disturbs(Walk) /\ changes' = changes + 1 /\ changes < MaxChanges
  BY DEF SetActive, SourceChanges
<1>3. ASSUME NEW i \in Walk
      PROVE  /\ walk'[i] \in WalkState
             /\ walk'[i].status = walk[i].status /\ walk'[i].step = walk[i].step
             /\ walk'[i].toList = walk[i].toList /\ walk'[i].toRead = walk[i].toRead
             /\ walk'[i].schemas = walk[i].schemas /\ walk'[i].datasets = walk[i].datasets
             /\ ~walk'[i].undisturbed
  <2>1. walk[i] \in WalkState
    BY <1>1
  <2>2. walk'[i] = [walk[i] EXCEPT !.undisturbed = FALSE]
    BY <1>2 DEF Disturbs
  <2> QED
    BY <2>1, <2>2 DEF WalkState
<1>4. walk' \in [Walk -> WalkState]
  BY <1>2, <1>3 DEF Disturbs
<1>5. changes' \in 0..MaxChanges
  BY <1>1, <1>2 DEF WalksInv, CatalogueTypes
<1>6. CatalogueTypes'
  <2>1. ASSUME NEW d \in Dataset, SetActive(d)
        PROVE  CatalogueTypes'
    <3> DEFINE row == IF datasetRow[d] = "active" THEN "inactive" ELSE "active"
    <3>1. datasetRow' = [datasetRow EXCEPT ![d] = row]
      BY <1>1, <2>1 DEF SetActive, WalksInv, CatalogueTypes
    <3>2. row \in RowState
      BY DEF RowState
    <3>3. datasetRow' \in [Dataset -> RowState]
      BY <1>1, <3>1, <3>2 DEF WalksInv, CatalogueTypes
    <3> QED
      BY <1>1, <1>4, <1>5, <2>1, <3>3 DEF SetActive, WalksInv, CatalogueTypes
  <2>2. CASE SourceChanges
    <3>1. PICK d \in Dataset, columns \in SUBSET Column : source' = [source EXCEPT ![d] = columns]
      BY <2>2 DEF SourceChanges
    <3>2. source' \in [Dataset -> SUBSET Column]
      BY <1>1, <3>1 DEF WalksInv, CatalogueTypes
    <3> QED
      BY <1>1, <1>4, <1>5, <2>2, <3>2 DEF SourceChanges, WalksInv, CatalogueTypes, catalogue
  <2> QED
    BY <2>1, <2>2
<1>7. WalkShape' /\ UndisturbedLasts'
  <2>1. \A i \in Walk : WellShaped(walk'[i]) /\ Lasting(walk'[i])
    BY <1>1, <1>3 DEF WalksInv, WalkShape, WellShaped, Lasting
  <2> QED
    BY <2>1 DEF WalkShape, UndisturbedLasts, WellShaped, Lasting
<1>8. Alone' /\ WalkProgress' /\ KeysOfSource' /\ WalkMirrors'
  BY <1>3 DEF Alone, WalkProgress, KeysOfSource, WalkMirrors
<1> QED
  BY <1>6, <1>7, <1>8 DEF WalksInv

\* A transaction of a request, or the DELETE of one of a walk: what a walk is
\* to commit stays what it has read.
LEMMA WalksUntouched ==
  ASSUME DiscoveryInv, UNCHANGED <<source, changes, catalogue, edges, walk>>,
         \A j \in Walk : walk[j].step = "keys" /\ walk[j].undisturbed =>
           keying'[j].dataset = keying[j].dataset /\ keying'[j].columns = keying[j].columns
  PROVE  WalksInv'
<1>1. WalksInv
  BY DEF DiscoveryInv
<1>2. /\ SourceSchemas' = SourceSchemas
      /\ CatalogueIsSource' <=> CatalogueIsSource
      /\ \A s : SchemaMirrored(s)' <=> SchemaMirrored(s)
      /\ \A d : DatasetMirrored(d)' <=> DatasetMirrored(d)
  BY CatalogueStays
<1>3. CatalogueTypes'
  BY <1>1 DEF WalksInv, CatalogueTypes, catalogue
<1>4. WalkShape' /\ UndisturbedLasts' /\ Alone'
  BY <1>1 DEF WalksInv, WalkShape, UndisturbedLasts, Alone, WellShaped, Lasting
<1>5. WalkProgress'
  BY <1>1, <1>2 DEF WalksInv, WalkProgress, ProgressOf
<1>6. KeysOfSource'
  BY <1>1 DEF WalksInv, KeysOfSource, ReadOfSource
<1>7. WalkMirrors'
  BY <1>1, <1>2 DEF WalksInv, WalkMirrors
<1> QED
  BY <1>3, <1>4, <1>5, <1>6, <1>7 DEF WalksInv

-----------------------------------------------------------------------------
(* The catalogue: every action keeps both halves of its invariant.         *)

LEMMA DiscoveryStart == DiscoveryInit => DiscoveryInv
<1> SUFFICES ASSUME DiscoveryInit PROVE DiscoveryInv
  OBVIOUS
<1>0. 0 \in 0..MaxChanges /\ 0 \in 0..MaxConfigs
  BY DiscoveryConstants
<1>1. /\ NoWalk \in WalkState /\ WellShaped(NoWalk) /\ Lasting(NoWalk)
      /\ ~NoWalk.undisturbed /\ NoWalk.step = "idle"
  BY DEF NoWalk, WalkState, WalkStep, JobStatus, WellShaped, Lasting
<1>2. walk = [j \in Walk |-> NoWalk]
  BY DEF DiscoveryInit
<1>3. KeysInv
  <2>1. /\ keyRow = [d \in Dataset |-> {}]
        /\ strategy = [d \in Dataset |-> "ROW_INDEX_FALLBACK"]
        /\ keying = [t \in Transaction |-> NoWork]
        /\ configs = 0
    BY DEF DiscoveryInit
  <2> QED
    BY <1>0, <2>1 DEF KeysInv, KeyTypes, KeyedOnce, StrategyFits, LoadedHasKey, FoundOrReplaced, Strategy
<1>4. CatalogueTypes
  <2>1. PICK r \in {"absent", "active"} :
          /\ schemaRow = [s \in Schema |-> r]
          /\ datasetRow = [d \in Dataset |-> r]
          /\ columnRow = [d \in Dataset |-> [c \in Column |-> r]]
    BY DEF DiscoveryInit
  <2>2. source \in [Dataset -> SUBSET Column] /\ changes = 0
    BY DEF DiscoveryInit
  <2> QED
    BY <1>0, <1>1, <1>2, <2>1, <2>2 DEF CatalogueTypes, RowState
<1>5. \A j \in Walk : walk[j] = NoWalk
  BY <1>2
<1>6. WalkShape /\ UndisturbedLasts
  BY <1>1, <1>5 DEF WalkShape, UndisturbedLasts
<1>7. Alone /\ WalkProgress /\ KeysOfSource /\ WalkMirrors
  BY <1>1, <1>5 DEF Alone, WalkProgress, KeysOfSource, WalkMirrors
<1> QED
  BY <1>3, <1>4, <1>6, <1>7 DEF DiscoveryInv, WalksInv

\* The steps of a walk and of its job.
LEMMA WalkStepKeeps ==
  ASSUME DiscoveryInv, NEW j \in Walk,
         \/ AskDiscovery(j) \/ CreateJob(j) \/ RequestCancel(j) \/ SweepJob(j)
         \/ Start(j) \/ ListSchemas(j) \/ ListSchemasFails(j) \/ SeeCancel(j) \/ UpsertSchema(j) \/ NextSchema(j)
         \/ DatasetFails(j) \/ UpsertDataset(j) \/ BeginUpsert(j) \/ CommitUpsert(j)
         \/ DeactivateMissing(j) \/ Complete(j) \/ WalkDies(j)
  PROVE  DiscoveryInv'
<1>0. KeysInv /\ j \in Transaction
  BY DEF DiscoveryInv, Transaction
<1>1. WalksInv'
  BY StatusStep, StartStep, EndStep, LoopStep, BeginUpsertStep, ListSchemasStep, UpsertSchemaStep,
     UpsertStep, DeactivateStep
<1>2. KeysInv'
  <2>1. CASE BeginUpsert(j)
    <3>0. PICK d \in walk[j].toRead : \E k \in Reported(source[d]) :
            keying' = [keying EXCEPT ![j] = Loaded(d, k, source[d], "delete")]
      BY <2>1 DEF BeginUpsert
    <3>1. PICK k \in Reported(source[d]) :
            keying' = [keying EXCEPT ![j] = Loaded(d, k, source[d], "delete")]
      BY <3>0
    <3>2. walk[j] \in WalkState
      BY DEF DiscoveryInv, WalksInv, CatalogueTypes
    <3>3. d \in Dataset /\ k \in KeyChoice
      BY <3>2 DEF WalkState, Reported
    <3>4. source[d] \in SUBSET Column
      BY <3>3 DEF DiscoveryInv, WalksInv, CatalogueTypes
    <3>5. UNCHANGED <<keyRow, strategy, configs>>
      BY <2>1 DEF BeginUpsert, keys
    <3> QED
      BY <1>0, <3>1, <3>3, <3>4, <3>5, LoadStep
  <2>2. CASE CommitUpsert(j)
    BY <1>0, <2>2, WriteStep DEF CommitUpsert
  <2>3. CASE WalkDies(j)
    BY <1>0, <2>3, EndKeyingStep DEF WalkDies, keys
  <2>4. CASE UNCHANGED <<keys, keying, configs>>
    BY <1>0, <2>4, KeysUntouched
  <2>5. \/ BeginUpsert(j) \/ CommitUpsert(j) \/ WalkDies(j)
        \/ UNCHANGED <<keys, keying, configs>>
    BY DEF AskDiscovery, CreateJob, RequestCancel, SweepJob, Start, ListSchemas, ListSchemasFails, SeeCancel,
           UpsertSchema, NextSchema, DatasetFails, UpsertDataset, DeactivateMissing, Complete
  <2> QED
    BY <2>1, <2>2, <2>3, <2>4, <2>5
<1> QED
  BY <1>1, <1>2 DEF DiscoveryInv

\* The steps of requests for keys, and the DELETE of any key transaction.
LEMMA KeyStepKeeps ==
  ASSUME DiscoveryInv,
         \/ \E t \in Transaction : DeleteKeys(t)
         \/ \E a \in Admin : AskKeys(a) \/ ConfirmKey(a) \/ Sampled(a) \/ CommitKeys(a) \/ KeysFail(a)
  PROVE  DiscoveryInv'
<1>0. KeysInv /\ keying \in [Transaction -> Work \cup {NoWork}]
  BY DEF DiscoveryInv, KeysInv, KeyTypes
<1>1. ASSUME NEW t \in Transaction, DeleteKeys(t)
      PROVE  DiscoveryInv'
  <2>1. KeysInv'
    BY <1>0, <1>1, DeleteStep
  <2>2. keying[t] \in Work
    BY <1>0, <1>1 DEF DeleteKeys
  <2>3. keying'[t].dataset = keying[t].dataset /\ keying'[t].columns = keying[t].columns
    BY <1>0, <1>1, <2>2 DEF DeleteKeys, Work
  <2>4. \A u \in Transaction \ {t} : keying'[u] = keying[u]
    BY <1>0, <1>1 DEF DeleteKeys
  <2>5. UNCHANGED <<source, changes, catalogue, edges, walk>>
    BY <1>1 DEF DeleteKeys
  <2>6. WalksInv'
    BY <2>3, <2>4, <2>5, WalksUntouched DEF Transaction
  <2> QED
    BY <2>1, <2>6 DEF DiscoveryInv
<1>2. ASSUME NEW a \in Admin, AskKeys(a) \/ ConfirmKey(a) \/ Sampled(a) \/ CommitKeys(a) \/ KeysFail(a)
      PROVE  DiscoveryInv'
  <2>1. a \in Transaction /\ a \notin Walk
    BY DiscoveryConstants DEF Transaction
  <2>2. UNCHANGED <<source, changes, catalogue, edges, walk>>
    BY <1>2 DEF AskKeys, ConfirmKey, Sampled, CommitKeys, KeysFail
  <2>3. \A j \in Walk : keying'[j] = keying[j]
    <3>1. PICK work : keying' = [keying EXCEPT ![a] = work]
      <4>1. CASE Sampled(a)
        <5>1. keying' = [keying EXCEPT ![a] = [keying[a] EXCEPT !.at = "delete"]]
          BY <1>0, <2>1, <4>1 DEF Sampled
        <5> QED
          BY <5>1
      <4> QED
        BY <1>2, <4>1 DEF AskKeys, ConfirmKey, CommitKeys, WriteKeys, KeysFail
    <3> QED
      BY <1>0, <2>1, <3>1 DEF Transaction
  <2>4. WalksInv'
    BY <2>2, <2>3, WalksUntouched
  <2>5. KeysInv'
    <3>1. ASSUME NEW d \in Dataset, NEW k \in Reported(ActiveColumns(d)), NEW next \in {"sample", "delete"},
                 keying' = [keying EXCEPT ![a] = Loaded(d, k, {}, next)], UNCHANGED <<keyRow, strategy, configs>>
          PROVE  KeysInv'
      <4>1. k \in KeyChoice /\ {} \in SUBSET Column
        BY DEF Reported
      <4> QED
        BY <1>0, <2>1, <3>1, <4>1, LoadStep
    <3>2. CASE AskKeys(a)
      <4>1. UNCHANGED <<keyRow, strategy, configs>>
        BY <3>2 DEF AskKeys, keys
      <4> QED
        BY <3>1, <3>2, <4>1 DEF AskKeys
    <3>3. CASE ConfirmKey(a)
      <4>1. UNCHANGED <<keyRow, strategy, configs>>
        BY <3>3 DEF ConfirmKey, keys
      <4> QED
        BY <3>1, <3>3, <4>1 DEF ConfirmKey
    <3>4. CASE Sampled(a)
      BY <1>0, <3>4, SampledStep
    <3>5. CASE CommitKeys(a)
      BY <1>0, <2>1, <3>5, WriteStep DEF CommitKeys
    <3>6. CASE KeysFail(a)
      BY <1>0, <2>1, <3>6, EndKeyingStep DEF KeysFail, keys
    <3> QED
      BY <1>2, <3>2, <3>3, <3>4, <3>5, <3>6
  <2> QED
    BY <2>4, <2>5 DEF DiscoveryInv
<1> QED
  BY <1>1, <1>2

LEMMA DiscoveryStep == DiscoveryInv /\ [DiscoveryNext]_discoveryVars => DiscoveryInv'
<1> SUFFICES ASSUME DiscoveryInv, [DiscoveryNext]_discoveryVars
             PROVE  DiscoveryInv'
  OBVIOUS
<1>1. CASE (\E d \in Dataset : SetActive(d)) \/ SourceChanges
  <2>1. UNCHANGED <<keys, keying, configs>>
    BY <1>1 DEF SetActive, SourceChanges
  <2> QED
    BY <1>1, <2>1, KeysUntouched, DisturbStep DEF DiscoveryInv
<1>2. CASE UNCHANGED discoveryVars
  <2>1. UNCHANGED <<source, changes, catalogue, keys, edges, walk, keying, configs>>
    BY <1>2 DEF discoveryVars
  <2> QED
    BY <2>1, KeysUntouched, WalksUntouched DEF DiscoveryInv
<1> QED
  BY <1>1, <1>2, WalkStepKeeps, KeyStepKeeps DEF DiscoveryNext

-----------------------------------------------------------------------------
(* The whole: a step is one of one part.                                   *)

AdministrationInv == RegistryInv /\ DiscoveryInv /\ AccessInv /\ RulesInv

LEMMA AdministrationStart == Init => AdministrationInv
  BY RegistryStart, DiscoveryStart, AccessStart, RulesStart DEF Init, AdministrationInv

LEMMA PartsStep ==
  ASSUME [Next]_vars
  PROVE  /\ [RegistryNext]_registryVars /\ [DiscoveryNext]_discoveryVars
         /\ [AccessNext]_accessVars /\ [RulesNext]_rulesVars
<1>1. UNCHANGED vars => UNCHANGED registryVars /\ UNCHANGED discoveryVars
                        /\ UNCHANGED accessVars /\ UNCHANGED rulesVars
  BY DEF vars
<1> QED
  BY <1>1 DEF Next

LEMMA AdministrationStep == AdministrationInv /\ [Next]_vars => AdministrationInv'
  BY PartsStep, RegistryStep, DiscoveryStep, AccessStep, RulesStep DEF AdministrationInv

LEMMA AdministrationAlways == Spec => []AdministrationInv
  BY AdministrationStart, AdministrationStep, PTL DEF Spec

\* Every variable of the four parts has its type, in every state.
THEOREM TypeCorrect == Spec => []TypeOK
<1>1. AdministrationInv => TypeOK
  <2> SUFFICES ASSUME AdministrationInv PROVE TypeOK
    OBVIOUS
  <2>1. RegistryTypeOK /\ AccessTypeOK /\ RulesTypeOK
    BY DEF AdministrationInv, RegistryInv, AccessInv, RulesInv
  <2>2. DiscoveryTypeOK
    BY DEF AdministrationInv, DiscoveryInv, KeysInv, KeyTypes, WalksInv, CatalogueTypes, DiscoveryTypeOK
  <2> QED
    BY <2>1, <2>2 DEF TypeOK
<1> QED
  BY <1>1, AdministrationAlways, PTL

\* A connection that is committed has a credential the vault knows, however many
\* requests store, commit and die (connections/service.py).
THEOREM CommittedCredentialResolves == Spec => []CredentialsResolve
<1>1. AdministrationInv => CredentialsResolve
  BY DEF AdministrationInv, RegistryInv
<1> QED
  BY <1>1, AdministrationAlways, PTL

\* The key columns of a dataset are those of one configuration, however many
\* walks and requests replace them (datasets/key_resolution.py).
THEOREM KeyIsOneConfiguration == Spec => []KeysAreOneConfiguration
<1>1. AdministrationInv => KeysAreOneConfiguration
  BY KeyedOnceIsOneConfiguration DEF AdministrationInv, DiscoveryInv
<1> QED
  BY <1>1, AdministrationAlways, PTL

\* A walk that has completed undisturbed has made the catalogue what the source
\* is, for any number of walks, schemas, datasets and columns (discovery/tasks.py).
THEOREM CompletedWalkIsFaithful == Spec => []CompletedWalkMirrorsSource
<1>1. AdministrationInv => CompletedWalkMirrorsSource
  BY MirrorIsWhatIsMeant DEF AdministrationInv, DiscoveryInv
<1> QED
  BY <1>1, AdministrationAlways, PTL

\* A promotion commits the status and the assignment together, whatever else is
\* done to the rule meanwhile (rules/service.py, promote_rule).
THEOREM PromotionCommitsWhole == Spec => []PromotionIsWhole
<1>1. AdministrationInv => PromotionIsWhole
  BY DEF AdministrationInv, RulesInv
<1> QED
  BY <1>1, AdministrationAlways, PTL

\* A login has one live token or one request that is about to issue it, however
\* often a token is sent (auth/refresh_tokens.py, consume).
THEOREM TokenIsRotated == Spec => []OneLiveTokenPerSession
<1>1. AdministrationInv => OneLiveTokenPerSession
  BY OneTokenOrRequest DEF AdministrationInv
<1> QED
  BY <1>1, AdministrationAlways, PTL

=============================================================================
