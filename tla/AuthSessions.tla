---------------------------- MODULE AuthSessions ----------------------------
(***************************************************************************)
(* Who a device is, and the chain of refresh tokens it holds: register and *)
(* token, Sign in with Apple, refresh.  Every request is one transaction   *)
(* at READ COMMITTED and stands where it may wait for another: the row of  *)
(* its device, the identity of its Apple subject, the rows of the tokens   *)
(* it marks.                                                               *)
(***************************************************************************)
EXTENDS Naturals, Sequences, FiniteSets

CONSTANTS
  Clients,      \* requests in flight, one at a time each
  Devices,
  Subjects,     \* Apple accounts
  MaxSignIns,   \* bound: requests started
  NoOne

ASSUME AuthAssumption ==
  MaxSignIns \in Nat /\ NoOne \notin Clients \cup Devices \cup Subjects /\ NoOne \notin Nat

VARIABLES
  device,       \* committed auth_devices: the user of a device
  identity,     \* committed auth_identities: the user of a subject
  token,        \* committed auth_refresh_tokens, in the order of their commits
  deviceHolder, identityHolder, tokenHolder,   \* row and index locks
  request, at,  \* what a client asked for, and where its transaction stands
  drawn,        \* user ids drawn so far: they are numbered
  asked,        \* requests started
  answers,      \* history: who was told to be whom
  ended,        \* history: tokens a detected reuse has met, once it is answered
  overtaken     \* history: users whose device a second request lost the insert of

authDb == <<device, identity, token, deviceHolder, identityHolder, tokenHolder>>
authVars == <<authDb, request, at, drawn, asked, answers, ended, overtaken>>

-----------------------------------------------------------------------------

Accounts == Nat \ {0}
Tokens == 1..MaxSignIns

Token == [user : Accounts, device : Devices, used : BOOLEAN, revoked : BOOLEAN]

\* binds and links are the uncommitted rows of the device and of the identity, chain
\* the tokens a reuse revokes, met those there were when the request came in.
Request ==
  [device : Devices \cup {NoOne}, subject : Subjects \cup {NoOne}, token : Nat \cup {NoOne},
   user : Accounts \cup {NoOne}, binds : Accounts \cup {NoOne}, links : Accounts \cup {NoOne},
   chain : SUBSET Nat, met : SUBSET Nat]
NoRequest ==
  [device |-> NoOne, subject |-> NoOne, token |-> NoOne, user |-> NoOne,
   binds |-> NoOne, links |-> NoOne, chain |-> {}, met |-> {}]

Places == {"idle", "look", "touch", "provision", "resolve", "link", "identify", "bind", "issue",
           "present", "use", "reuse", "revoke", "refuse"}

Issued == DOMAIN token
Chain(u, d) == {t \in Issued : token[t].user = u /\ token[t].device = d}

AuthInit ==
  /\ device = [d \in Devices |-> NoOne]
  /\ identity = [s \in Subjects |-> NoOne]
  /\ token = <<>>
  /\ deviceHolder = [d \in Devices |-> NoOne]
  /\ identityHolder = [s \in Subjects |-> NoOne]
  /\ tokenHolder = [t \in Tokens |-> NoOne]
  /\ request = [c \in Clients |-> NoRequest]
  /\ at = [c \in Clients |-> "idle"]
  /\ drawn = 0 /\ asked = 0
  /\ answers = {} /\ ended = {} /\ overtaken = {}

Grantable(holder, c) == holder \in {NoOne, c}
Moves(c, label) == at' = [at EXCEPT ![c] = label]
Forgotten(holders, c) == [k \in DOMAIN holders |-> IF holders[k] = c THEN NoOne ELSE holders[k]]

Close(c) ==
  /\ deviceHolder' = Forgotten(deviceHolder, c)
  /\ identityHolder' = Forgotten(identityHolder, c)
  /\ tokenHolder' = Forgotten(tokenHolder, c)
  /\ request' = [request EXCEPT ![c] = NoRequest]
  /\ Moves(c, "idle")
  /\ UNCHANGED <<drawn, asked>>

-----------------------------------------------------------------------------
(* The user of a device.                                                   *)

Ask(c, what, label) ==
  /\ at[c] = "idle" /\ asked < MaxSignIns
  /\ request' = [request EXCEPT ![c] = what]
  /\ Moves(c, label)
  /\ asked' = asked + 1
  /\ UNCHANGED <<authDb, drawn, answers, ended, overtaken>>

\* POST /register and /token share one path; a device without an id gets a new one.
Register(c, d) == Ask(c, [NoRequest EXCEPT !.device = d], "look")

SignInWithApple(c, d, s) == Ask(c, [NoRequest EXCEPT !.device = d, !.subject = s], "resolve")

FindDevice(c) ==
  LET d == request[c].device IN
  /\ at[c] = "look"
  /\ IF device[d] = NoOne
     THEN Moves(c, "provision") /\ UNCHANGED request
     ELSE Moves(c, "touch") /\ request' = [request EXCEPT ![c].user = device[d]]
  /\ UNCHANGED <<authDb, drawn, asked, answers, ended, overtaken>>

\* Past the device: a sign-in links its subject, a registration is issued its pair.
Identified(c) == Moves(c, IF request[c].subject = NoOne THEN "issue" ELSE "link")

\* Variant: a known device is not written to.
TouchNothing(c) ==
  /\ at[c] = "touch" /\ Identified(c)
  /\ UNCHANGED <<authDb, request, drawn, asked, answers, ended, overtaken>>

\* UPDATE last_seen_at: whoever comes second to a known device waits here.
Touch(c) ==
  LET d == request[c].device IN
  /\ at[c] = "touch" /\ Grantable(deviceHolder[d], c)
  /\ deviceHolder' = [deviceHolder EXCEPT ![d] = c]
  /\ Identified(c)
  /\ UNCHANGED <<device, identity, token, identityHolder, tokenHolder, request, drawn, asked, answers, ended, overtaken>>

\* INSERT .. ON CONFLICT DO NOTHING and the second read, which takes the winner.
Provision(c) ==
  LET d == request[c].device IN
  /\ at[c] = "provision" /\ Grantable(deviceHolder[d], c)
  /\ drawn' = drawn + 1
  /\ IF device[d] = NoOne
     THEN /\ deviceHolder' = [deviceHolder EXCEPT ![d] = c]
          /\ request' = [request EXCEPT ![c].binds = drawn', ![c].user = drawn']
          /\ UNCHANGED overtaken
     ELSE /\ request' = [request EXCEPT ![c].user = device[d]]
          /\ overtaken' = overtaken \cup {device[d]}
          /\ UNCHANGED deviceHolder
  /\ Identified(c)
  /\ UNCHANGED <<device, identity, token, identityHolder, tokenHolder, asked, answers, ended>>

-----------------------------------------------------------------------------
(* Sign in with Apple.                                                     *)

ResolveApple(c) ==
  LET s == request[c].subject IN
  /\ at[c] = "resolve"
  /\ IF identity[s] = NoOne
     THEN Moves(c, "look") /\ UNCHANGED request
     ELSE Moves(c, "bind") /\ request' = [request EXCEPT ![c].user = identity[s]]
  /\ UNCHANGED <<authDb, drawn, asked, answers, ended, overtaken>>

\* The device's user is linked unless it has an Apple identity already.
ChooseAccount(c) ==
  LET u == request[c].user IN
  /\ at[c] = "link"
  /\ \/ /\ \A s \in Subjects : identity[s] # u
        /\ UNCHANGED <<request, drawn>>
     \/ /\ \E s \in Subjects : identity[s] = u
        /\ drawn' = drawn + 1
        /\ request' = [request EXCEPT ![c].user = drawn']
  /\ Moves(c, "identify")
  /\ UNCHANGED <<authDb, asked, answers, ended, overtaken>>

\* Variant: the row is not read again after the insert.
IdentifyBlindly(c) ==
  LET r == request[c] IN
  /\ at[c] = "identify" /\ Grantable(identityHolder[r.subject], c)
  /\ IF identity[r.subject] = NoOne
     THEN /\ identityHolder' = [identityHolder EXCEPT ![r.subject] = c]
          /\ request' = [request EXCEPT ![c].links = r.user]
     ELSE UNCHANGED <<identityHolder, request>>
  /\ Moves(c, "bind")
  /\ UNCHANGED <<device, identity, token, deviceHolder, tokenHolder, drawn, asked, answers, ended, overtaken>>

\* The first sign-in of a subject inserts its identity; a concurrent one takes the winner.
Identify(c) ==
  LET r == request[c] IN
  /\ at[c] = "identify" /\ Grantable(identityHolder[r.subject], c)
  /\ IF identity[r.subject] = NoOne
     THEN /\ identityHolder' = [identityHolder EXCEPT ![r.subject] = c]
          /\ request' = [request EXCEPT ![c].links = r.user]
     ELSE /\ request' = [request EXCEPT ![c].user = identity[r.subject]]
          /\ UNCHANGED identityHolder
  /\ Moves(c, "bind")
  /\ UNCHANGED <<device, identity, token, deviceHolder, tokenHolder, drawn, asked, answers, ended, overtaken>>

\* The subject's user wins the device.
BindDevice(c) ==
  LET d == request[c].device IN
  /\ at[c] = "bind" /\ Grantable(deviceHolder[d], c)
  /\ deviceHolder' = [deviceHolder EXCEPT ![d] = c]
  /\ request' = [request EXCEPT ![c].binds = request[c].user]
  /\ Moves(c, "issue")
  /\ UNCHANGED <<device, identity, token, identityHolder, tokenHolder, drawn, asked, answers, ended, overtaken>>

-----------------------------------------------------------------------------
(* Refresh.                                                                *)

\* A token is presented that a client was given: used, revoked or neither.
Present(c, t) == t \in Issued /\ Ask(c, [NoRequest EXCEPT !.token = t, !.met = Issued], "present")

\* A token may also be past its expiry, and is then refused like a revoked one.
ReadToken(c) ==
  LET r == request[c]  row == token[r.token] IN
  /\ at[c] = "present"
  /\ \/ /\ row.used /\ Moves(c, "reuse")
        /\ request' = [request EXCEPT ![c].user = row.user, ![c].device = row.device]
        /\ UNCHANGED <<deviceHolder, identityHolder, tokenHolder, drawn, asked>>
     \/ /\ ~row.used /\ ~row.revoked /\ Moves(c, "use")
        /\ request' = [request EXCEPT ![c].user = row.user, ![c].device = row.device]
        /\ UNCHANGED <<deviceHolder, identityHolder, tokenHolder, drawn, asked>>
     \/ ~row.used /\ Close(c)
  /\ UNCHANGED <<device, identity, token, answers, ended, overtaken>>

\* UPDATE used_at by id, whatever the row has become since it was read.
UseToken(c) ==
  LET t == request[c].token IN
  /\ at[c] = "use" /\ Grantable(tokenHolder[t], c)
  /\ tokenHolder' = [tokenHolder EXCEPT ![t] = c]
  /\ Moves(c, "issue")
  /\ UNCHANGED <<device, identity, token, deviceHolder, identityHolder, request, drawn, asked, answers, ended, overtaken>>

\* The rows the revocation finds, then the wait for those that are locked.
FindChain(c) ==
  LET r == request[c] IN
  /\ at[c] = "reuse"
  /\ request' = [request EXCEPT ![c].chain = {t \in Chain(r.user, r.device) : ~token[t].revoked}]
  /\ Moves(c, "revoke")
  /\ UNCHANGED <<authDb, drawn, asked, answers, ended, overtaken>>

RevokeChain(c) ==
  LET chain == request[c].chain IN
  /\ at[c] = "revoke" /\ \A t \in chain : Grantable(tokenHolder[t], c)
  /\ tokenHolder' = [t \in Tokens |-> IF t \in chain THEN c ELSE tokenHolder[t]]
  /\ Moves(c, "refuse")
  /\ UNCHANGED <<device, identity, token, deviceHolder, identityHolder, request, drawn, asked, answers, ended, overtaken>>

\* Variant: the refusal is raised inside the transaction, and undoes it.
RefuseUncommitted(c) ==
  /\ at[c] = "refuse"
  /\ ended' = ended \cup (request[c].met \cap Chain(request[c].user, request[c].device))
  /\ UNCHANGED <<device, identity, token, answers, overtaken>>
  /\ Close(c)

\* The revocation is committed before the request is refused with 401.
RefuseReuse(c) ==
  /\ at[c] = "refuse"
  /\ token' = [t \in Issued |-> IF t \in request[c].chain THEN [token[t] EXCEPT !.revoked = TRUE]
                                                          ELSE token[t]]
  /\ ended' = ended \cup (request[c].met \cap Chain(request[c].user, request[c].device))
  /\ UNCHANGED <<device, identity, answers, overtaken>>
  /\ Close(c)

\* The new pair and everything the transaction has written.
IssuePair(c) ==
  LET r == request[c] IN
  /\ at[c] = "issue"
  /\ device' = IF r.binds = NoOne THEN device ELSE [device EXCEPT ![r.device] = r.binds]
  /\ identity' = IF r.links = NoOne THEN identity ELSE [identity EXCEPT ![r.subject] = r.links]
  /\ token' = Append([t \in Issued |-> IF t = r.token THEN [token[t] EXCEPT !.used = TRUE] ELSE token[t]],
                     [user |-> r.user, device |-> r.device, used |-> FALSE, revoked |-> FALSE])
  /\ answers' = IF r.token = NoOne
                THEN answers \cup {[device |-> r.device, subject |-> r.subject, user |-> r.user]}
                ELSE answers
  /\ UNCHANGED <<ended, overtaken>>
  /\ Close(c)

\* A crash, a lost connection, a request that is given up.
Lose(c) == at[c] # "idle" /\ UNCHANGED <<device, identity, token, answers, ended, overtaken>> /\ Close(c)

AuthRequest(c) ==
  \/ \E d \in Devices : Register(c, d) \/ \E s \in Subjects : SignInWithApple(c, d, s)
  \/ \E t \in Tokens : Present(c, t)

AuthStep(c) == \/ FindDevice(c) \/ Touch(c) \/ Provision(c)
               \/ ResolveApple(c) \/ ChooseAccount(c) \/ Identify(c) \/ BindDevice(c)
               \/ ReadToken(c) \/ UseToken(c) \/ FindChain(c) \/ RevokeChain(c) \/ RefuseReuse(c)
               \/ IssuePair(c)

AuthNext == \E c \in Clients : AuthRequest(c) \/ AuthStep(c) \/ Lose(c)

AuthSpec == AuthInit /\ [][AuthNext]_authVars

-----------------------------------------------------------------------------
(* Properties.                                                             *)

AuthTypeOK ==
  /\ device \in [Devices -> Accounts \cup {NoOne}]
  /\ identity \in [Subjects -> Accounts \cup {NoOne}]
  /\ token \in Seq(Token)
  /\ deviceHolder \in [Devices -> Clients \cup {NoOne}]
  /\ identityHolder \in [Subjects -> Clients \cup {NoOne}]
  /\ tokenHolder \in [Tokens -> Clients \cup {NoOne}]
  /\ request \in [Clients -> Request] /\ at \in [Clients -> Places]
  /\ drawn \in Nat /\ overtaken \subseteq Accounts /\ ended \subseteq Issued /\ asked \in 0..MaxSignIns

\* One Apple account is one user on every device, and a device that nobody has signed
\* in on with Apple is one user, whatever requests overlapped.
AnswersAgree ==
  \A a, b \in answers :
    /\ a.subject = b.subject /\ a.subject # NoOne => a.user = b.user
    /\ a.device = b.device /\ a.user # b.user =>
         \E x \in answers : x.device = a.device /\ x.subject # NoOne

\* An account with an Apple identity is not linked with a second one: the write to a known
\* device keeps two first sign-ins on it apart.  (It does not where the device itself was
\* registered by an overlapping request: losing an insert locks nothing.)
OneIdentityPerAccount ==
  \A s, t \in Subjects :
    identity[s] = identity[t] /\ identity[s] \notin overtaken \cup {NoOne} => s = t

\* Whom a request is signed on as does not depend on which requests overlap it.
IdentitiesAgree == AnswersAgree /\ OneIdentityPerAccount

\* Reuse detection: once the request that repeated a used token has been refused, the tokens
\* its device held when the request came in are revoked for good.
ReuseEndsTheChain == \A t \in ended : token[t].revoked

-----------------------------------------------------------------------------
(* The inductive invariant behind the properties.                          *)

\* What a request has found out where it stands.
InPlace(c) ==
  LET r == request[c] IN
  /\ at[c] = "idle" => r = NoRequest
  /\ at[c] \in {"look", "touch", "provision", "resolve", "link", "identify", "bind", "issue"}
       => r.device \in Devices
  /\ at[c] \in {"look", "touch", "provision", "resolve", "link", "identify", "bind"} => r.token = NoOne
  /\ at[c] \in {"resolve", "link", "identify", "bind"} => r.subject \in Subjects
  /\ at[c] \in {"touch", "link", "identify", "bind", "issue", "use"} => r.user \in Accounts
  /\ at[c] \in {"use", "reuse", "revoke", "refuse"} => r.device \in Devices
  /\ at[c] \in {"present", "use", "reuse", "revoke", "refuse"} => r.token \in Issued
  /\ r.token # NoOne => r.subject = NoOne /\ r.binds = NoOne /\ r.links = NoOne
  /\ r.met \subseteq Issued

\* The device a request will bind is locked by it, for the user it is answered with.
BindsLocked(c) ==
  LET r == request[c] IN
  /\ r.binds # NoOne =>
       /\ at[c] \in {"link", "identify", "bind", "issue"}
       /\ r.device \in Devices /\ deviceHolder[r.device] = c
  /\ at[c] = "issue" => r.binds \in {NoOne, r.user}
  /\ at[c] = "issue" /\ r.subject # NoOne => r.binds = r.user

\* The identity a request will link is locked by it and free; without one to link, the
\* request has the user the subject is linked with.
LinksLocked(c) ==
  LET r == request[c] IN
  /\ r.links # NoOne =>
       /\ at[c] \in {"bind", "issue"} /\ r.subject \in Subjects /\ r.links = r.user
       /\ identityHolder[r.subject] = c /\ identity[r.subject] = NoOne
  /\ at[c] \in {"bind", "issue"} /\ r.subject # NoOne /\ r.links = NoOne =>
       identity[r.subject] = r.user

\* Somebody has signed in on d with Apple.
Signed(d) == \E x \in answers : x.device = d /\ x.subject # NoOne

\* A registration is of the device's user, or makes it.
RegistersUser(c) ==
  LET r == request[c] IN
  at[c] \in {"touch", "issue"} /\ r.token = NoOne /\ r.subject = NoOne =>
    IF r.binds = NoOne THEN Signed(r.device) \/ device[r.device] = r.user
    ELSE device[r.device] = NoOne

\* No request but c and no row has the user of c.
Private(c) ==
  /\ \A d \in Devices : device[d] # request[c].user
  /\ \A s \in Subjects : identity[s] # request[c].user
  /\ \A b \in Clients \ {c} : request[b].token = NoOne => request[b].user # request[c].user

Unlinked(u) == \A s \in Subjects : identity[s] # u

\* What keeps two requests from linking one user: the device, or that only one has the user.
LinksAlone(c) ==
  LET r == request[c] IN
  /\ at[c] \in {"link", "identify"} \/ r.links # NoOne =>
       deviceHolder[r.device] = c \/ r.user \in overtaken \/ Private(c)
  /\ at[c] = "identify" \/ r.links # NoOne => Unlinked(r.user) \/ r.user \in overtaken

\* A reuse revokes all there was of its chain when it came in.
Revokes(c) ==
  LET r == request[c] IN
  at[c] \in {"revoke", "refuse"} =>
    \A t \in r.met \cap Chain(r.user, r.device) : t \in r.chain \/ token[t].revoked

\* Users are numbered in the order they are drawn.
Drawn ==
  /\ \A d \in Devices : device[d] # NoOne => device[d] <= drawn
  /\ \A s \in Subjects : identity[s] # NoOne => identity[s] <= drawn
  /\ \A c \in Clients : request[c].user # NoOne => request[c].user <= drawn
  /\ \A i \in Issued : token[i].user <= drawn

\* u is the user of d, or of a request about d.
LivesOn(u, d) ==
  \/ device[d] = u
  \/ \E c \in Clients : request[c].token = NoOne /\ request[c].device = d /\ request[c].user = u

\* Until it is linked with an Apple account, a user lives on one device.
OneHome ==
  \A u \in 1 .. drawn : Unlinked(u) =>
    \A d, e \in Devices : LivesOn(u, d) /\ LivesOn(u, e) => d = e

\* An answer stays true: for good of an Apple account, and of a device until somebody
\* signs in on it.
AnswersHold ==
  \A a \in answers :
    /\ a.device \in Devices /\ a.subject \in Subjects \cup {NoOne} /\ a.user \in Accounts
    /\ a.subject # NoOne => identity[a.subject] = a.user
    /\ Signed(a.device) \/ device[a.device] = a.user

Tells(c) ==
  /\ InPlace(c) /\ BindsLocked(c) /\ LinksLocked(c) /\ RegistersUser(c) /\ LinksAlone(c)
  /\ Revokes(c)

AuthInv ==
  /\ AuthTypeOK /\ Drawn /\ OneHome /\ AnswersHold /\ OneIdentityPerAccount /\ ReuseEndsTheChain
  /\ \A c \in Clients : Tells(c)

=============================================================================
