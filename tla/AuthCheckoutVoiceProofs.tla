----------------------- MODULE AuthCheckoutVoiceProofs ------------------------
(***************************************************************************)
(* Proofs about three components whose requests wait for each other's rows *)
(* and locks: AuthSessions, VoiceSession and CardCheckout.  They share a   *)
(* module and no state; no proof cites a fact of another component.        *)
(***************************************************************************)
EXTENDS AuthSessions, VoiceSession, CardCheckout, FiniteSetTheorems, TLAPS

-----------------------------------------------------------------------------
(***************************************************************************)
(* Proofs about AuthSessions, for any number of clients, devices and Apple *)
(* accounts: every answer about who somebody is stays true, and a detected *)
(* reuse ends its chain.                                                   *)
(***************************************************************************)

(* Who is who.                                                             *)

LEMMA TokenRow ==
  ASSUME AuthTypeOK
  PROVE  /\ Issued = 1 .. Len(token) /\ Len(token) \in Nat /\ Issued \subseteq Nat
         /\ \A i \in Issued : token[i] \in Token
  BY DEF AuthTypeOK, Issued

LEMMA AuthInitKeeps == AuthInit => AuthInv
<1> SUFFICES ASSUME AuthInit
             PROVE  AuthInv
  OBVIOUS
<1>1. Issued = {} /\ token \in Seq(Token)
  BY DEF AuthInit, Issued
<1>2. NoRequest \in Request
  BY DEF NoRequest, Request
<1>3. AuthTypeOK
  BY <1>1, <1>2, AuthAssumption DEF AuthInit, AuthTypeOK, Places
<1>4. ASSUME NEW c \in Clients
      PROVE  Tells(c)
  BY <1>1, <1>4, AuthAssumption
     DEF AuthInit, Tells, InPlace, BindsLocked, LinksLocked, RegistersUser, LinksAlone, Revokes, NoRequest
<1>5. Drawn /\ AnswersHold /\ OneIdentityPerAccount /\ ReuseEndsTheChain
  BY <1>1 DEF AuthInit, Drawn, NoRequest, AnswersHold, OneIdentityPerAccount, ReuseEndsTheChain
<1>6. OneHome
  BY DEF AuthInit, OneHome
<1> QED
  BY <1>3, <1>4, <1>5, <1>6 DEF AuthInv

\* A token keeps its owner and stays revoked, and a new one has a user there is.
TokensLast ==
  /\ Issued \subseteq Issued'
  /\ \A i \in Issued : /\ token'[i].user = token[i].user /\ token'[i].device = token[i].device
                       /\ token[i].revoked => token'[i].revoked
  /\ \A i \in Issued' \ Issued : token'[i].user <= drawn

\* Where the user of a request comes from, after a step of the request: it is the one it was,
\* the device's, an Apple account's or a new one.
Origin(c) ==
  \/ request'[c].token # NoOne \/ request'[c].user = NoOne
  \/ /\ request[c].token = NoOne
     /\ request'[c].device = request[c].device /\ request'[c].user = request[c].user
  \/ \E d \in Devices : d = request'[c].device /\ device[d] = request'[c].user
  \/ \E s \in Subjects : identity[s] = request'[c].user
  \/ request'[c].user = drawn + 1 /\ drawn' = drawn + 1

\* A step of one request that binds no device and links no account; tokens may be issued,
\* used and revoked.
Unbound(c) ==
  /\ UNCHANGED <<device, identity, answers>>
  /\ request' = [request EXCEPT ![c] = request'[c]] /\ at' = [at EXCEPT ![c] = at'[c]]
  /\ overtaken \subseteq overtaken' /\ drawn' \in {drawn, drawn + 1}
  /\ \A b \in Clients \ {c} :
       /\ \A d \in Devices : deviceHolder[d] = b => deviceHolder'[d] = b
       /\ \A s \in Subjects : identityHolder[s] = b => identityHolder'[s] = b
  /\ Origin(c) /\ TokensLast

\* A step of one request that commits nothing.
Uncommitted(c) == UNCHANGED <<token, ended>> /\ Unbound(c)

LEMMA PrivateStays ==
  ASSUME AuthInv, NEW c \in Clients, Unbound(c), NEW b \in Clients \ {c},
         Private(b), request[b].token = NoOne, request[b].user \in Accounts
  PROVE  Private(b)'
<1>1. request'[b] = request[b] /\ \A a \in Clients \ {c} : request'[a] = request[a]
  BY DEF Unbound, AuthInv, AuthTypeOK
<1>2. request[b].user <= drawn /\ drawn \in Nat /\ request[b].user # NoOne
  BY AuthAssumption DEF AuthInv, Drawn, AuthTypeOK, Accounts
<1>3. request'[c].token = NoOne => request'[c].user # request[b].user
  <2> SUFFICES ASSUME request'[c].token = NoOne, request'[c].user = request[b].user
               PROVE  FALSE
    OBVIOUS
  <2>1. request'[c].user # NoOne /\ request'[c].user # drawn + 1
    BY <1>2 DEF Accounts
  <2>2. \A d \in Devices : device[d] # request'[c].user
    BY DEF Private
  <2>3. \A i \in Subjects : identity[i] # request'[c].user
    BY DEF Private
  <2>4. ~(request[c].token = NoOne /\ request'[c].user = request[c].user)
    BY DEF Private
  <2> QED
    BY <2>1, <2>2, <2>3, <2>4 DEF Unbound, Origin
<1> QED
  BY <1>1, <1>3 DEF Unbound, Private

LEMMA OthersTell ==
  ASSUME AuthInv, NEW c \in Clients, Unbound(c), NEW b \in Clients \ {c}
  PROVE  Tells(b)'
<1>1. /\ request'[b] = request[b] /\ at'[b] = at[b] /\ Tells(b) /\ TokensLast
      /\ UNCHANGED <<device, identity, answers>> /\ overtaken \subseteq overtaken'
      /\ \A d \in Devices : deviceHolder[d] = b => deviceHolder'[d] = b
      /\ \A s \in Subjects : identityHolder[s] = b => identityHolder'[s] = b
  BY DEF Unbound, AuthInv, AuthTypeOK
<1>2. InPlace(b)' /\ BindsLocked(b)' /\ LinksLocked(b)'
  BY <1>1 DEF Tells, InPlace, BindsLocked, LinksLocked, TokensLast
<1>3. RegistersUser(b)' /\ Revokes(b)'
  BY <1>1 DEF Tells, InPlace, RegistersUser, Signed, Revokes, Chain, TokensLast
<1>4. LinksAlone(b)'
  <2>1. at[b] \in {"link", "identify"} \/ request[b].links # NoOne =>
          request[b].token = NoOne /\ request[b].user \in Accounts /\ request[b].device \in Devices
    BY <1>1 DEF Tells, InPlace, LinksLocked
  <2>2. at[b] \in {"link", "identify"} \/ request[b].links # NoOne =>
          (Private(b) => Private(b)')
    BY <2>1, PrivateStays
  <2> QED
    BY <1>1, <2>1, <2>2 DEF Tells, LinksAlone, Unlinked
<1> QED
  BY <1>2, <1>3, <1>4 DEF Tells

LEMMA HomesStay ==
  ASSUME AuthInv, NEW c \in Clients, Unbound(c)
  PROVE  OneHome'
<1> SUFFICES ASSUME NEW u \in 1 .. drawn', Unlinked(u),
                    NEW d \in Devices, NEW e \in Devices, LivesOn(u, d)', LivesOn(u, e)'
             PROVE  d = e
  BY DEF OneHome, Unbound, Unlinked
<1>1. /\ device' = device /\ drawn \in Nat /\ u \in Nat /\ u # NoOne
      /\ \A b \in Clients \ {c} : request'[b] = request[b]
  BY AuthAssumption DEF Unbound, AuthInv, AuthTypeOK
<1>2. CASE u = drawn + 1
  <2>1. (\A i \in Devices : device[i] # u) /\ \A b \in Clients : request[b].user # u
    BY <1>1, <1>2 DEF AuthInv, Drawn
  <2> QED
    BY <1>1, <2>1 DEF LivesOn
<1>3. CASE u # drawn + 1
  <2>1. u \in 1 .. drawn
    BY <1>1, <1>3 DEF Unbound
  <2>2. \A i \in Devices : LivesOn(u, i)' => LivesOn(u, i)
    BY <1>1, <1>3 DEF LivesOn, Unbound, Origin, Unlinked
  <2> QED
    BY <2>1, <2>2 DEF AuthInv, OneHome
<1> QED
  BY <1>2, <1>3

LEMMA UnboundKeeps ==
  ASSUME AuthInv, NEW c \in Clients, Unbound(c), AuthTypeOK', Tells(c)', ReuseEndsTheChain',
         request'[c].user # NoOne => request'[c].user <= drawn'
  PROVE  AuthInv'
<1>1. \A b \in Clients : Tells(b)'
  BY OthersTell
<1>2. Drawn'
  <2>1. drawn \in Nat /\ drawn <= drawn' /\ drawn' \in Nat
    BY DEF Unbound, AuthInv, AuthTypeOK
  <2>2. \A b \in Clients : request'[b].user # NoOne => request'[b].user <= drawn'
    <3> SUFFICES ASSUME NEW b \in Clients \ {c}, request'[b].user # NoOne
                 PROVE  request'[b].user <= drawn'
      OBVIOUS
    <3>1. request'[b] = request[b] /\ request[b].user \in Nat /\ request[b].user <= drawn
      BY DEF Unbound, AuthInv, AuthTypeOK, Drawn, Request, Accounts
    <3> QED
      BY <2>1, <3>1
  <2>3. /\ \A d \in Devices : device[d] # NoOne => device[d] \in Nat /\ device[d] <= drawn
        /\ \A s \in Subjects : identity[s] # NoOne => identity[s] \in Nat /\ identity[s] <= drawn
        /\ \A i \in Issued : token[i].user <= drawn /\ token[i].user \in Nat
    BY TokenRow DEF AuthInv, AuthTypeOK, Drawn, Accounts, Token
  <2>4. UNCHANGED <<device, identity>> /\ TokensLast
    BY DEF Unbound
  <2>5. \A i \in Issued' : token'[i].user <= drawn'
    <3> SUFFICES ASSUME NEW i \in Issued'
                 PROVE  token'[i].user <= drawn'
      OBVIOUS
    <3>1. token' \in Seq(Token) /\ i \in DOMAIN token'
      BY DEF AuthTypeOK, Issued
    <3>2. token'[i] \in Token
      BY <3>1
    <3>3. token'[i].user \in Nat
      BY <3>2 DEF Token, Accounts
    <3>4. token'[i].user <= drawn
      BY <2>3, <2>4 DEF TokensLast
    <3> QED
      BY <2>1, <3>3, <3>4
  <2> QED
    BY <2>1, <2>2, <2>3, <2>4, <2>5 DEF Drawn
<1>3. AnswersHold'
  BY DEF Unbound, AuthInv, AnswersHold, Signed
<1>4. OneIdentityPerAccount'
  BY DEF Unbound, AuthInv, OneIdentityPerAccount
<1> QED
  BY <1>1, <1>2, <1>3, <1>4, HomesStay DEF AuthInv

\* What is left to show of a step that commits nothing: that its request is well.
LEMMA UncommittedKeeps ==
  ASSUME AuthInv, NEW c \in Clients, Uncommitted(c), AuthTypeOK', Tells(c)',
         request'[c].user # NoOne => request'[c].user <= drawn'
  PROVE  AuthInv'
<1>1. ReuseEndsTheChain'
  BY DEF Uncommitted, AuthInv, ReuseEndsTheChain
<1> QED
  BY <1>1, UnboundKeeps DEF Uncommitted

-----------------------------------------------------------------------------
(* The steps that commit nothing.                                          *)

\* What every such step changes.
LEMMA StepTypes ==
  ASSUME AuthTypeOK, NEW c \in Clients, NEW new \in Request, NEW l \in Places,
         request' = [request EXCEPT ![c] = new], at' = [at EXCEPT ![c] = l],
         UNCHANGED <<device, identity, token, ended>>,
         deviceHolder' \in [Devices -> Clients \cup {NoOne}],
         identityHolder' \in [Subjects -> Clients \cup {NoOne}],
         tokenHolder' \in [Tokens -> Clients \cup {NoOne}],
         overtaken' \subseteq Accounts, asked' \in 0 .. MaxSignIns, drawn' \in {drawn, drawn + 1}
  PROVE  /\ AuthTypeOK' /\ request'[c] = new /\ at'[c] = l /\ Issued' = Issued
         /\ request' = [request EXCEPT ![c] = request'[c]] /\ at' = [at EXCEPT ![c] = at'[c]]
  BY DEF AuthTypeOK, Issued

\* The transaction is given up, or ends without a write.
LEMMA LoseKeeps ==
  ASSUME AuthInv, NEW c \in Clients, Close(c),
         UNCHANGED <<device, identity, token, answers, ended, overtaken>>
  PROVE  AuthInv'
<1>1. /\ request' = [request EXCEPT ![c] = NoRequest] /\ at' = [at EXCEPT ![c] = "idle"]
      /\ UNCHANGED <<drawn, asked>> /\ NoRequest \in Request /\ "idle" \in Places
  BY DEF Close, Moves, NoRequest, Request, Places
<1>2. /\ deviceHolder' = [d \in Devices |-> IF deviceHolder[d] = c THEN NoOne ELSE deviceHolder[d]]
      /\ identityHolder' = [s \in Subjects |-> IF identityHolder[s] = c THEN NoOne ELSE identityHolder[s]]
      /\ tokenHolder' = [t \in Tokens |-> IF tokenHolder[t] = c THEN NoOne ELSE tokenHolder[t]]
  BY DEF Close, Forgotten, AuthInv, AuthTypeOK
<1>3. /\ deviceHolder' \in [Devices -> Clients \cup {NoOne}]
      /\ identityHolder' \in [Subjects -> Clients \cup {NoOne}]
      /\ tokenHolder' \in [Tokens -> Clients \cup {NoOne}]
  BY <1>2 DEF AuthInv, AuthTypeOK
<1>4. /\ AuthTypeOK' /\ request'[c] = NoRequest /\ at'[c] = "idle"
      /\ request' = [request EXCEPT ![c] = request'[c]] /\ at' = [at EXCEPT ![c] = at'[c]]
  BY <1>1, <1>3, StepTypes DEF AuthInv, AuthTypeOK
<1>5. Uncommitted(c)
  BY <1>1, <1>2, <1>4 DEF Uncommitted, Unbound, TokensLast, Issued, Origin, NoRequest
<1>6. Tells(c)'
  BY <1>4 DEF Tells, InPlace, BindsLocked, LinksLocked, RegistersUser, LinksAlone, Revokes, NoRequest
<1> QED
  BY <1>4, <1>5, <1>6, UncommittedKeeps DEF NoRequest

\* A request that comes in.
Opens(c, what, label) ==
  /\ Ask(c, what, label)
  /\ what.user = NoOne /\ what.binds = NoOne /\ what.links = NoOne /\ what.met \subseteq Issued
  /\ label \in {"look", "resolve"} => what.device \in Devices /\ what.token = NoOne
  /\ label = "resolve" => what.subject \in Subjects
  /\ label = "present" => what.token \in Issued /\ what.subject = NoOne

Asks(c) ==
  \E what \in Request, label \in {"look", "resolve", "present"} : Opens(c, what, label)

LEMMA AskKeeps ==
  ASSUME AuthInv, NEW c \in Clients, AuthRequest(c)
  PROVE  AuthInv'
<1>1. Asks(c)
  <2>1. ASSUME NEW d \in Devices, Register(c, d)
        PROVE  Asks(c)
    <3> DEFINE what == [NoRequest EXCEPT !.device = d]
    <3>1. /\ what \in Request /\ what.user = NoOne /\ what.binds = NoOne /\ what.links = NoOne
          /\ what.met = {} /\ what.device = d /\ what.token = NoOne
      BY DEF NoRequest, Request
    <3>2. Ask(c, what, "look")
      BY <2>1 DEF Register
    <3> HIDE DEF what
    <3> QED
      BY <3>1, <3>2 DEF Asks, Opens
  <2>2. ASSUME NEW d \in Devices, NEW s \in Subjects, SignInWithApple(c, d, s)
        PROVE  Asks(c)
    <3> DEFINE what == [NoRequest EXCEPT !.device = d, !.subject = s]
    <3>1. /\ what \in Request /\ what.user = NoOne /\ what.binds = NoOne /\ what.links = NoOne
          /\ what.met = {} /\ what.device = d /\ what.token = NoOne /\ what.subject = s
      BY DEF NoRequest, Request
    <3>2. Ask(c, what, "resolve")
      BY <2>2 DEF SignInWithApple
    <3> HIDE DEF what
    <3> QED
      BY <3>1, <3>2 DEF Asks, Opens
  <2>3. ASSUME NEW t \in Tokens, Present(c, t)
        PROVE  Asks(c)
    <3> DEFINE what == [NoRequest EXCEPT !.token = t, !.met = Issued]
    <3>1. t \in Issued /\ Ask(c, what, "present")
      BY <2>3 DEF Present
    <3>2. Issued \subseteq Nat
      BY TokenRow DEF AuthInv
    <3>3. /\ what \in Request /\ what.user = NoOne /\ what.binds = NoOne /\ what.links = NoOne
          /\ what.met = Issued /\ what.token = t /\ what.subject = NoOne
      BY <3>1, <3>2 DEF NoRequest, Request
    <3> HIDE DEF what
    <3> QED
      BY <3>1, <3>3 DEF Asks, Opens
  <2> QED
    BY <2>1, <2>2, <2>3 DEF AuthRequest
<1>2. PICK what \in Request, label \in {"look", "resolve", "present"} : Opens(c, what, label)
  BY <1>1 DEF Asks
<1>3. /\ request' = [request EXCEPT ![c] = what] /\ at' = [at EXCEPT ![c] = label]
      /\ asked' = asked + 1 /\ asked < MaxSignIns /\ label \in Places
      /\ UNCHANGED <<device, identity, token, deviceHolder, identityHolder, tokenHolder>>
      /\ UNCHANGED <<drawn, answers, ended, overtaken>>
  BY <1>2 DEF Opens, Ask, Moves, authDb, Places
<1>4. asked' \in 0 .. MaxSignIns
  BY <1>3, AuthAssumption DEF AuthInv, AuthTypeOK
<1>5. /\ AuthTypeOK' /\ request'[c] = what /\ at'[c] = label /\ Issued' = Issued
      /\ request' = [request EXCEPT ![c] = request'[c]] /\ at' = [at EXCEPT ![c] = at'[c]]
  BY <1>3, <1>4, StepTypes DEF AuthInv, AuthTypeOK
<1>6. Uncommitted(c)
  BY <1>2, <1>3, <1>5 DEF Opens, Uncommitted, Unbound, TokensLast, Origin
<1>7. Tells(c)'
  BY <1>2, <1>3, <1>5
     DEF Opens, Tells, InPlace, BindsLocked, LinksLocked, RegistersUser, LinksAlone, Revokes
<1> QED
  BY <1>2, <1>5, <1>6, <1>7, UncommittedKeeps DEF Opens

LEMMA FindDeviceKeeps ==
  ASSUME AuthInv, NEW c \in Clients, FindDevice(c)
  PROVE  AuthInv'
<1> DEFINE r == request[c]
           d == r.device
           l == IF device[d] = NoOne THEN "provision" ELSE "touch"
           new == IF device[d] = NoOne THEN r ELSE [r EXCEPT !.user = device[d]]
<1>1. /\ at[c] = "look" /\ request' = [request EXCEPT ![c] = new] /\ at' = [at EXCEPT ![c] = l]
      /\ UNCHANGED <<device, identity, token, deviceHolder, identityHolder, tokenHolder>>
      /\ UNCHANGED <<drawn, asked, answers, ended, overtaken>>
  BY DEF FindDevice, Moves, authDb, AuthInv, AuthTypeOK
<1>2. /\ r \in Request /\ d \in Devices /\ r.token = NoOne /\ r.binds = NoOne /\ r.links = NoOne
      /\ r.met \subseteq Issued /\ Tells(c) /\ device[d] \in Accounts \cup {NoOne}
      /\ \A e \in Devices : device[e] # NoOne => device[e] <= drawn
      /\ r.user # NoOne => r.user <= drawn
  BY <1>1 DEF AuthInv, AuthTypeOK, Tells, InPlace, BindsLocked, LinksLocked, Drawn
<1>3. /\ new \in Request /\ new.device = d /\ new.token = NoOne /\ new.binds = NoOne
      /\ new.links = NoOne /\ new.met = r.met /\ new.subject = r.subject
      /\ \/ l = "provision" /\ new.user = r.user
         \/ l = "touch" /\ new.user = device[d] /\ device[d] # NoOne
  BY <1>2 DEF Request
<1>4. l \in Places
  BY DEF Places
<1> HIDE DEF new, l
<1>5. /\ AuthTypeOK' /\ request'[c] = new /\ at'[c] = l /\ Issued' = Issued
      /\ request' = [request EXCEPT ![c] = request'[c]] /\ at' = [at EXCEPT ![c] = at'[c]]
  BY <1>1, <1>3, <1>4, StepTypes DEF AuthInv, AuthTypeOK
<1>6. Uncommitted(c)
  BY <1>1, <1>2, <1>3, <1>5 DEF Uncommitted, Unbound, TokensLast, Origin
<1>7. Tells(c)'
  BY <1>1, <1>2, <1>3, <1>5
     DEF Tells, InPlace, BindsLocked, LinksLocked, RegistersUser, LinksAlone, Revokes
<1> QED
  BY <1>1, <1>2, <1>3, <1>5, <1>6, <1>7, UncommittedKeeps

\* The write to a known device.
LEMMA TouchKeeps ==
  ASSUME AuthInv, NEW c \in Clients, Touch(c)
  PROVE  AuthInv'
<1> DEFINE r == request[c]
           d == r.device
           l == IF r.subject = NoOne THEN "issue" ELSE "link"
<1>1. /\ at[c] = "touch" /\ request' = request /\ at' = [at EXCEPT ![c] = l]
      /\ deviceHolder[d] \in {NoOne, c} /\ deviceHolder' = [deviceHolder EXCEPT ![d] = c]
      /\ UNCHANGED <<device, identity, token, identityHolder, tokenHolder>>
      /\ UNCHANGED <<drawn, asked, answers, ended, overtaken>>
  BY DEF Touch, Identified, Moves, Grantable
<1>2. /\ r \in Request /\ d \in Devices /\ r.token = NoOne /\ r.binds = NoOne /\ r.links = NoOne
      /\ r.met \subseteq Issued /\ Tells(c) /\ r.user \in Accounts /\ request' = [request EXCEPT ![c] = r]
      /\ r.user # NoOne => r.user <= drawn
      /\ r.subject \in Subjects \cup {NoOne}
  BY <1>1 DEF AuthInv, AuthTypeOK, Tells, InPlace, BindsLocked, LinksLocked, Drawn, Request
<1>3. l \in Places /\ l \in {"issue", "link"} /\ (l = "issue" <=> r.subject = NoOne)
  BY DEF Places
<1> HIDE DEF l
<1>4. deviceHolder' \in [Devices -> Clients \cup {NoOne}] /\ deviceHolder'[d] = c
      /\ \A e \in Devices, b \in Clients \ {c} : deviceHolder[e] = b => deviceHolder'[e] = b
  BY <1>1, <1>2, AuthAssumption DEF AuthInv, AuthTypeOK
<1>5. /\ AuthTypeOK' /\ request'[c] = r /\ at'[c] = l /\ Issued' = Issued
      /\ request' = [request EXCEPT ![c] = request'[c]] /\ at' = [at EXCEPT ![c] = at'[c]]
  BY <1>1, <1>2, <1>3, <1>4, StepTypes DEF AuthInv, AuthTypeOK
<1>6. Uncommitted(c)
  BY <1>1, <1>2, <1>4, <1>5 DEF Uncommitted, Unbound, TokensLast, Origin
<1>7. Tells(c)'
  BY <1>1, <1>2, <1>3, <1>4, <1>5
     DEF Tells, InPlace, BindsLocked, LinksLocked, RegistersUser, Signed, LinksAlone, Revokes
<1> QED
  BY <1>1, <1>2, <1>5, <1>6, <1>7, UncommittedKeeps

LEMMA ProvisionKeeps ==
  ASSUME AuthInv, NEW c \in Clients, Provision(c)
  PROVE  AuthInv'
<1> DEFINE r == request[c]
           d == r.device
           l == IF r.subject = NoOne THEN "issue" ELSE "link"
           new == IF device[d] = NoOne THEN [r EXCEPT !.binds = drawn + 1, !.user = drawn + 1]
                                       ELSE [r EXCEPT !.user = device[d]]
<1>1. /\ at[c] = "provision" /\ request' = [request EXCEPT ![c] = new] /\ at' = [at EXCEPT ![c] = l]
      /\ deviceHolder[d] \in {NoOne, c} /\ drawn' = drawn + 1
      /\ UNCHANGED <<device, identity, token, identityHolder, tokenHolder>>
      /\ UNCHANGED <<asked, answers, ended>>
  BY DEF Provision, Identified, Moves, Grantable
<1>2. /\ r \in Request /\ d \in Devices /\ r.token = NoOne /\ r.binds = NoOne /\ r.links = NoOne
      /\ r.met \subseteq Issued /\ Tells(c) /\ device[d] \in Accounts \cup {NoOne} /\ drawn \in Nat
      /\ device[d] # NoOne => device[d] <= drawn
      /\ r.subject \in Subjects \cup {NoOne}
  BY <1>1 DEF AuthInv, AuthTypeOK, Tells, InPlace, BindsLocked, LinksLocked, Drawn, Request
<1>3. drawn + 1 \in Accounts /\ drawn + 1 <= drawn + 1 /\ drawn + 1 # NoOne /\ (device[d] # NoOne => device[d] <= drawn + 1)
  BY <1>2, AuthAssumption DEF Accounts
<1>4. l \in Places /\ l \in {"issue", "link"} /\ (l = "issue" <=> r.subject = NoOne)
  BY DEF Places
<1>5. /\ new \in Request /\ new.device = d /\ new.token = NoOne /\ new.subject = r.subject
      /\ new.links = NoOne /\ new.met = r.met /\ new.user \in Accounts /\ new.user <= drawn + 1
      /\ device[d] = NoOne => new.user = drawn + 1 /\ new.binds = drawn + 1
      /\ device[d] # NoOne => new.user = device[d] /\ new.binds = NoOne
  <2>1. CASE device[d] = NoOne
    BY <1>2, <1>3, <2>1 DEF Request
  <2>2. CASE device[d] # NoOne
    BY <1>2, <1>3, <2>2 DEF Request
  <2> QED
    BY <2>1, <2>2
<1>6. /\ deviceHolder' \in [Devices -> Clients \cup {NoOne}] /\ overtaken' \subseteq Accounts
      /\ \A e \in Devices, b \in Clients \ {c} : deviceHolder[e] = b => deviceHolder'[e] = b
      /\ overtaken \subseteq overtaken'
      /\ device[d] = NoOne => deviceHolder'[d] = c
      /\ device[d] # NoOne => device[d] \in overtaken'
  BY <1>1, <1>2, AuthAssumption DEF Provision, AuthInv, AuthTypeOK
<1> HIDE DEF new, l
<1>7. /\ AuthTypeOK' /\ request'[c] = new /\ at'[c] = l /\ Issued' = Issued
      /\ request' = [request EXCEPT ![c] = request'[c]] /\ at' = [at EXCEPT ![c] = at'[c]]
  BY <1>1, <1>4, <1>5, <1>6, StepTypes DEF AuthInv, AuthTypeOK
<1>8. Uncommitted(c)
  BY <1>1, <1>2, <1>5, <1>6, <1>7 DEF Uncommitted, Unbound, TokensLast, Origin
<1>9. Tells(c)'
  BY <1>1, <1>2, <1>3, <1>4, <1>5, <1>6, <1>7
     DEF Tells, InPlace, BindsLocked, LinksLocked, RegistersUser, LinksAlone, Revokes
<1> QED
  BY <1>1, <1>5, <1>7, <1>8, <1>9, UncommittedKeeps

LEMMA ResolveAppleKeeps ==
  ASSUME AuthInv, NEW c \in Clients, ResolveApple(c)
  PROVE  AuthInv'
<1> DEFINE r == request[c]
           s == r.subject
           l == IF identity[s] = NoOne THEN "look" ELSE "bind"
           new == IF identity[s] = NoOne THEN r ELSE [r EXCEPT !.user = identity[s]]
<1>1. /\ at[c] = "resolve" /\ request' = [request EXCEPT ![c] = new] /\ at' = [at EXCEPT ![c] = l]
      /\ UNCHANGED <<device, identity, token, deviceHolder, identityHolder, tokenHolder>>
      /\ UNCHANGED <<drawn, asked, answers, ended, overtaken>>
  BY DEF ResolveApple, Moves, authDb, AuthInv, AuthTypeOK
<1>2. /\ r \in Request /\ s \in Subjects /\ r.device \in Devices /\ r.token = NoOne
      /\ r.binds = NoOne /\ r.links = NoOne /\ r.met \subseteq Issued /\ Tells(c)
      /\ identity[s] \in Accounts \cup {NoOne} /\ (identity[s] # NoOne => identity[s] <= drawn)
      /\ r.user # NoOne => r.user <= drawn
  BY <1>1 DEF AuthInv, AuthTypeOK, Tells, InPlace, BindsLocked, LinksLocked, Drawn
<1>3. /\ new \in Request /\ new.device = r.device /\ new.token = NoOne /\ new.binds = NoOne
      /\ new.links = NoOne /\ new.met = r.met /\ new.subject = s
      /\ \/ l = "look" /\ new.user = r.user
         \/ l = "bind" /\ new.user = identity[s] /\ identity[s] # NoOne
  BY <1>2 DEF Request
<1>4. l \in Places
  BY DEF Places
<1> HIDE DEF new, l
<1>5. /\ AuthTypeOK' /\ request'[c] = new /\ at'[c] = l /\ Issued' = Issued
      /\ request' = [request EXCEPT ![c] = request'[c]] /\ at' = [at EXCEPT ![c] = at'[c]]
  BY <1>1, <1>3, <1>4, StepTypes DEF AuthInv, AuthTypeOK
<1>6. Uncommitted(c)
  BY <1>1, <1>2, <1>3, <1>5 DEF Uncommitted, Unbound, TokensLast, Origin
<1>7. Tells(c)'
  BY <1>1, <1>2, <1>3, <1>5
     DEF Tells, InPlace, BindsLocked, LinksLocked, RegistersUser, LinksAlone, Revokes
<1> QED
  BY <1>1, <1>2, <1>3, <1>5, <1>6, <1>7, UncommittedKeeps

\* A user drawn now is nobody else's.
LEMMA ChooseAccountKeeps ==
  ASSUME AuthInv, NEW c \in Clients, ChooseAccount(c)
  PROVE  AuthInv'
<1> DEFINE r == request[c]
<1>1. /\ at[c] = "link" /\ at' = [at EXCEPT ![c] = "identify"] /\ "identify" \in Places
      /\ UNCHANGED <<device, identity, token, deviceHolder, identityHolder, tokenHolder>>
      /\ UNCHANGED <<asked, answers, ended, overtaken>>
  BY DEF ChooseAccount, Moves, authDb, Places
<1>2. /\ r \in Request /\ r.device \in Devices /\ r.token = NoOne /\ r.links = NoOne
      /\ r.met \subseteq Issued /\ r.user \in Accounts /\ r.user <= drawn /\ drawn \in Nat
      /\ r.subject \in Subjects /\ Tells(c) /\ request = [request EXCEPT ![c] = r]
      /\ r.binds # NoOne => deviceHolder[r.device] = c
      /\ r.user # NoOne
  BY <1>1, AuthAssumption
     DEF AuthInv, AuthTypeOK, Tells, InPlace, BindsLocked, LinksLocked, Drawn, Accounts
<1>3. CASE request' = request /\ drawn' = drawn /\ Unlinked(r.user)
  <2>1. /\ AuthTypeOK' /\ request'[c] = r /\ at'[c] = "identify" /\ Issued' = Issued
        /\ request' = [request EXCEPT ![c] = request'[c]] /\ at' = [at EXCEPT ![c] = at'[c]]
    BY <1>1, <1>2, <1>3, StepTypes DEF AuthInv, AuthTypeOK
  <2>2. Uncommitted(c)
    BY <1>1, <1>2, <1>3, <2>1 DEF Uncommitted, Unbound, TokensLast, Origin
  <2>3. Private(c) => Private(c)'
    BY <1>1, <1>3 DEF Private
  <2>4. Tells(c)'
    BY <1>1, <1>2, <1>3, <2>1, <2>3
       DEF Tells, InPlace, BindsLocked, LinksLocked, RegistersUser, LinksAlone, Revokes, Unlinked
  <2> QED
    BY <1>2, <1>3, <2>1, <2>2, <2>4, UncommittedKeeps
<1>4. CASE drawn' = drawn + 1 /\ request' = [request EXCEPT ![c].user = drawn + 1]
  <2> DEFINE new == [r EXCEPT !.user = drawn + 1]
  <2>1. /\ new \in Request /\ new.device = r.device /\ new.token = NoOne /\ new.binds = r.binds
        /\ new.links = NoOne /\ new.met = r.met /\ new.subject = r.subject /\ new.user = drawn + 1
        /\ request' = [request EXCEPT ![c] = new] /\ drawn + 1 \in Accounts
    BY <1>2, <1>4 DEF Request, Accounts
  <2> HIDE DEF new
  <2>2. /\ AuthTypeOK' /\ request'[c] = new /\ at'[c] = "identify" /\ Issued' = Issued
        /\ request' = [request EXCEPT ![c] = request'[c]] /\ at' = [at EXCEPT ![c] = at'[c]]
        /\ \A b \in Clients \ {c} : request'[b] = request[b]
    <3>1. AuthTypeOK /\ "identify" \in Places
      BY DEF AuthInv, Places
    <3>2. /\ deviceHolder' \in [Devices -> Clients \cup {NoOne}]
          /\ identityHolder' \in [Subjects -> Clients \cup {NoOne}]
          /\ tokenHolder' \in [Tokens -> Clients \cup {NoOne}]
          /\ overtaken' \subseteq Accounts /\ asked' \in 0 .. MaxSignIns
      BY <1>1, <3>1 DEF AuthTypeOK
    <3>3. /\ AuthTypeOK' /\ request'[c] = new /\ at'[c] = "identify" /\ Issued' = Issued
          /\ request' = [request EXCEPT ![c] = request'[c]] /\ at' = [at EXCEPT ![c] = at'[c]]
      BY <1>1, <1>4, <2>1, <3>1, <3>2, StepTypes
    <3>4. \A b \in Clients \ {c} : request'[b] = request[b]
      BY <2>1, <3>1 DEF AuthTypeOK
    <3> QED
      BY <3>3, <3>4
  <2>3. Uncommitted(c)
    BY <1>1, <1>4, <2>1, <2>2 DEF Uncommitted, Unbound, TokensLast, Origin
  <2>4. /\ \A d \in Devices : device[d] # drawn + 1
        /\ \A s \in Subjects : identity[s] # drawn + 1
        /\ \A b \in Clients : request[b].user # drawn + 1
    BY <1>2, AuthAssumption DEF AuthInv, Drawn
  <2>5. Private(c)' /\ \A s \in Subjects : identity'[s] # new.user
    BY <1>1, <2>1, <2>2, <2>4 DEF Private
  <2>6. Tells(c)'
    BY <1>1, <1>2, <2>1, <2>2, <2>5
       DEF Tells, InPlace, BindsLocked, LinksLocked, RegistersUser, LinksAlone, Revokes, Unlinked
  <2> QED
    BY <1>2, <1>4, <2>1, <2>2, <2>3, <2>6, UncommittedKeeps
<1> QED
  BY <1>3, <1>4 DEF ChooseAccount, Unlinked

LEMMA IdentifyKeeps ==
  ASSUME AuthInv, NEW c \in Clients, Identify(c)
  PROVE  AuthInv'
<1> DEFINE r == request[c]
           s == r.subject
           new == IF identity[s] = NoOne THEN [r EXCEPT !.links = r.user]
                                         ELSE [r EXCEPT !.user = identity[s]]
<1>1. /\ at[c] = "identify" /\ request' = [request EXCEPT ![c] = new]
      /\ at' = [at EXCEPT ![c] = "bind"] /\ "bind" \in Places
      /\ identityHolder[s] \in {NoOne, c}
      /\ UNCHANGED <<device, identity, token, deviceHolder, tokenHolder>>
      /\ UNCHANGED <<drawn, asked, answers, ended, overtaken>>
  BY DEF Identify, Moves, Grantable, Places
<1>2. /\ r \in Request /\ s \in Subjects /\ r.device \in Devices /\ r.token = NoOne
      /\ r.links = NoOne /\ r.met \subseteq Issued /\ r.user \in Accounts /\ Tells(c)
      /\ identity[s] \in Accounts \cup {NoOne} /\ (identity[s] # NoOne => identity[s] <= drawn)
      /\ r.user # NoOne => r.user <= drawn
      /\ r.binds # NoOne => deviceHolder[r.device] = c
  BY <1>1 DEF AuthInv, AuthTypeOK, Tells, InPlace, BindsLocked, LinksLocked, Drawn
<1>3. /\ new \in Request /\ new.device = r.device /\ new.token = NoOne /\ new.binds = r.binds
      /\ new.met = r.met /\ new.subject = s
      /\ identity[s] = NoOne => new.user = r.user /\ new.links = r.user
      /\ identity[s] # NoOne => new.user = identity[s] /\ new.links = NoOne
  BY <1>2 DEF Request
<1>4. /\ identityHolder' \in [Subjects -> Clients \cup {NoOne}]
      /\ \A i \in Subjects, b \in Clients \ {c} : identityHolder[i] = b => identityHolder'[i] = b
      /\ identity[s] = NoOne => identityHolder'[s] = c
  BY <1>1, <1>2, AuthAssumption DEF Identify, AuthInv, AuthTypeOK
<1> HIDE DEF new
<1>5. /\ AuthTypeOK' /\ request'[c] = new /\ at'[c] = "bind" /\ Issued' = Issued
      /\ request' = [request EXCEPT ![c] = request'[c]] /\ at' = [at EXCEPT ![c] = at'[c]]
      /\ \A b \in Clients \ {c} : request'[b] = request[b]
  <2>1. AuthTypeOK /\ "bind" \in Places
    BY DEF AuthInv, Places
  <2>2. /\ deviceHolder' \in [Devices -> Clients \cup {NoOne}]
        /\ tokenHolder' \in [Tokens -> Clients \cup {NoOne}]
        /\ overtaken' \subseteq Accounts /\ asked' \in 0 .. MaxSignIns
    BY <1>1, <2>1 DEF AuthTypeOK
  <2>3. /\ AuthTypeOK' /\ request'[c] = new /\ at'[c] = "bind" /\ Issued' = Issued
        /\ request' = [request EXCEPT ![c] = request'[c]] /\ at' = [at EXCEPT ![c] = at'[c]]
    BY <1>1, <1>3, <1>4, <2>1, <2>2, StepTypes
  <2>4. \A b \in Clients \ {c} : request'[b] = request[b]
    BY <1>1, <2>1 DEF AuthTypeOK
  <2> QED
    BY <2>3, <2>4
<1>6. Uncommitted(c)
  BY <1>1, <1>2, <1>3, <1>4, <1>5 DEF Uncommitted, Unbound, TokensLast, Origin
<1>7. identity[s] = NoOne /\ Private(c) => Private(c)'
  BY <1>1, <1>3, <1>5 DEF Private
<1>8. Tells(c)'
  BY <1>1, <1>2, <1>3, <1>4, <1>5, <1>7
     DEF Tells, InPlace, BindsLocked, LinksLocked, RegistersUser, LinksAlone, Revokes, Unlinked
<1> QED
  BY <1>1, <1>2, <1>3, <1>5, <1>6, <1>8, UncommittedKeeps

LEMMA BindDeviceKeeps ==
  ASSUME AuthInv, NEW c \in Clients, BindDevice(c)
  PROVE  AuthInv'
<1> DEFINE r == request[c]
           d == r.device
           new == [r EXCEPT !.binds = r.user]
<1>1. /\ at[c] = "bind" /\ request' = [request EXCEPT ![c] = new]
      /\ at' = [at EXCEPT ![c] = "issue"] /\ "issue" \in Places
      /\ deviceHolder[d] \in {NoOne, c} /\ deviceHolder' = [deviceHolder EXCEPT ![d] = c]
      /\ UNCHANGED <<device, identity, token, identityHolder, tokenHolder>>
      /\ UNCHANGED <<drawn, asked, answers, ended, overtaken>>
  BY DEF BindDevice, Moves, Grantable, Places
<1>2. /\ r \in Request /\ r.subject \in Subjects /\ d \in Devices /\ r.token = NoOne
      /\ r.met \subseteq Issued /\ r.user \in Accounts /\ Tells(c)
      /\ r.user # NoOne => r.user <= drawn
  BY <1>1 DEF AuthInv, AuthTypeOK, Tells, InPlace, BindsLocked, LinksLocked, Drawn
<1>3. /\ new \in Request /\ new.device = d /\ new.token = NoOne /\ new.binds = r.user
      /\ new.links = r.links /\ new.met = r.met /\ new.subject = r.subject /\ new.user = r.user
  BY <1>2 DEF Request
<1>4. deviceHolder' \in [Devices -> Clients \cup {NoOne}] /\ deviceHolder'[d] = c
      /\ \A e \in Devices, b \in Clients \ {c} : deviceHolder[e] = b => deviceHolder'[e] = b
  BY <1>1, <1>2, AuthAssumption DEF AuthInv, AuthTypeOK
<1> HIDE DEF new
<1>5. /\ AuthTypeOK' /\ request'[c] = new /\ at'[c] = "issue" /\ Issued' = Issued
      /\ request' = [request EXCEPT ![c] = request'[c]] /\ at' = [at EXCEPT ![c] = at'[c]]
  BY <1>1, <1>3, <1>4, StepTypes DEF AuthInv, AuthTypeOK
<1>6. Uncommitted(c)
  BY <1>1, <1>2, <1>3, <1>4, <1>5 DEF Uncommitted, Unbound, TokensLast, Origin
<1>7. Tells(c)'
  BY <1>1, <1>2, <1>3, <1>4, <1>5, AuthAssumption
     DEF Tells, InPlace, BindsLocked, LinksLocked, RegistersUser, LinksAlone, Revokes, Unlinked
<1> QED
  BY <1>1, <1>2, <1>3, <1>5, <1>6, <1>7, UncommittedKeeps

LEMMA ReadTokenKeeps ==
  ASSUME AuthInv, NEW c \in Clients, ReadToken(c)
  PROVE  AuthInv'
<1> DEFINE r == request[c]
           row == token[r.token]
           new == [r EXCEPT !.user = row.user, !.device = row.device]
<1>1. CASE Close(c)
  BY <1>1, LoseKeeps DEF ReadToken
<1>2. ASSUME NEW l \in {"reuse", "use"}, Moves(c, l),
             request' = [request EXCEPT ![c].user = row.user, ![c].device = row.device],
             UNCHANGED <<deviceHolder, identityHolder, tokenHolder, drawn, asked>>
      PROVE  AuthInv'
  <2>1. /\ at[c] = "present" /\ request' = [request EXCEPT ![c] = new]
        /\ at' = [at EXCEPT ![c] = l] /\ l \in Places
        /\ UNCHANGED <<device, identity, token, deviceHolder, identityHolder, tokenHolder>>
        /\ UNCHANGED <<drawn, asked, answers, ended, overtaken>>
    BY <1>2 DEF ReadToken, Moves, Places
  <2>2. /\ r \in Request /\ r.token \in Issued /\ r.token \in Nat /\ r.met \subseteq Issued /\ Tells(c)
        /\ row \in Token /\ row.user <= drawn
    BY <2>1, TokenRow DEF AuthInv, AuthTypeOK, Tells, InPlace, Drawn
  <2>3. r.token # NoOne /\ r.subject = NoOne /\ r.binds = NoOne /\ r.links = NoOne
    BY <2>2, AuthAssumption DEF Tells, InPlace
  <2>4. /\ new \in Request /\ new.device = row.device /\ new.token = r.token /\ new.binds = NoOne
        /\ new.links = NoOne /\ new.subject = NoOne /\ new.met = r.met /\ new.user = row.user
        /\ row.device \in Devices /\ row.user \in Accounts
    BY <2>2, <2>3 DEF Request, Token
  <2> HIDE DEF new, row
  <2>5. /\ AuthTypeOK' /\ request'[c] = new /\ at'[c] = l /\ Issued' = Issued
        /\ request' = [request EXCEPT ![c] = request'[c]] /\ at' = [at EXCEPT ![c] = at'[c]]
    BY <2>1, <2>4, StepTypes DEF AuthInv, AuthTypeOK
  <2>6. Uncommitted(c)
    BY <2>1, <2>3, <2>4, <2>5 DEF Uncommitted, Unbound, TokensLast, Origin
  <2>7. Tells(c)'
    BY <2>1, <2>2, <2>3, <2>4, <2>5
       DEF Tells, InPlace, BindsLocked, LinksLocked, RegistersUser, LinksAlone, Revokes
  <2> QED
    BY <2>1, <2>2, <2>4, <2>5, <2>6, <2>7, UncommittedKeeps
<1> QED
  BY <1>1, <1>2 DEF ReadToken

LEMMA UseTokenKeeps ==
  ASSUME AuthInv, NEW c \in Clients, UseToken(c)
  PROVE  AuthInv'
<1> DEFINE r == request[c]
           t == r.token
<1>1. /\ at[c] = "use" /\ at' = [at EXCEPT ![c] = "issue"] /\ "issue" \in Places
      /\ tokenHolder[t] \in {NoOne, c} /\ tokenHolder' = [tokenHolder EXCEPT ![t] = c]
      /\ UNCHANGED <<device, identity, token, deviceHolder, identityHolder, request>>
      /\ UNCHANGED <<drawn, asked, answers, ended, overtaken>>
  BY DEF UseToken, Moves, Grantable, Places
<1>2. /\ r \in Request /\ t \in Issued /\ t # NoOne /\ r.met \subseteq Issued /\ Tells(c)
      /\ r.device \in Devices /\ r.user \in Accounts /\ request' = [request EXCEPT ![c] = r]
      /\ r.user # NoOne => r.user <= drawn
  BY <1>1, TokenRow, AuthAssumption DEF AuthInv, AuthTypeOK, Tells, InPlace, Drawn
<1>3. r.subject = NoOne /\ r.binds = NoOne /\ r.links = NoOne
  BY <1>2 DEF Tells, InPlace
<1>4. tokenHolder' \in [Tokens -> Clients \cup {NoOne}]
  BY <1>1 DEF AuthInv, AuthTypeOK
<1>5. /\ AuthTypeOK' /\ request'[c] = r /\ at'[c] = "issue" /\ Issued' = Issued
      /\ request' = [request EXCEPT ![c] = request'[c]] /\ at' = [at EXCEPT ![c] = at'[c]]
  BY <1>1, <1>2, <1>4, StepTypes DEF AuthInv, AuthTypeOK
<1>6. Uncommitted(c)
  BY <1>1, <1>2, <1>5 DEF Uncommitted, Unbound, TokensLast, Origin
<1>7. Tells(c)'
  BY <1>1, <1>2, <1>3, <1>5
     DEF Tells, InPlace, BindsLocked, LinksLocked, RegistersUser, LinksAlone, Revokes
<1> QED
  BY <1>1, <1>2, <1>5, <1>6, <1>7, UncommittedKeeps

\* What the revocation finds is all of the chain that is not revoked yet.
LEMMA FindChainKeeps ==
  ASSUME AuthInv, NEW c \in Clients, FindChain(c)
  PROVE  AuthInv'
<1> DEFINE r == request[c]
           chain == {t \in Chain(r.user, r.device) : ~token[t].revoked}
           new == [r EXCEPT !.chain = chain]
<1>1. /\ at[c] = "reuse" /\ request' = [request EXCEPT ![c] = new]
      /\ at' = [at EXCEPT ![c] = "revoke"] /\ "revoke" \in Places
      /\ UNCHANGED <<device, identity, token, deviceHolder, identityHolder, tokenHolder>>
      /\ UNCHANGED <<drawn, asked, answers, ended, overtaken>>
  BY DEF FindChain, Moves, authDb, Places
<1>2. /\ r \in Request /\ r.token \in Issued /\ r.token # NoOne /\ r.met \subseteq Issued /\ Tells(c)
      /\ r.device \in Devices /\ (r.user # NoOne => r.user <= drawn)
  BY <1>1, TokenRow, AuthAssumption DEF AuthInv, AuthTypeOK, Tells, InPlace, Drawn
<1>3. r.subject = NoOne /\ r.binds = NoOne /\ r.links = NoOne
  BY <1>2 DEF Tells, InPlace
<1>4. chain \subseteq Nat /\ \A t \in r.met \cap Chain(r.user, r.device) : t \in chain \/ token[t].revoked
  BY TokenRow DEF AuthInv, Chain
<1> HIDE DEF chain
<1>5. /\ new \in Request /\ new.device = r.device /\ new.token = r.token /\ new.binds = NoOne
      /\ new.links = NoOne /\ new.subject = NoOne /\ new.met = r.met /\ new.user = r.user
      /\ new.chain = chain
  BY <1>2, <1>3, <1>4 DEF Request
<1> HIDE DEF new
<1>6. /\ AuthTypeOK' /\ request'[c] = new /\ at'[c] = "revoke" /\ Issued' = Issued
      /\ request' = [request EXCEPT ![c] = request'[c]] /\ at' = [at EXCEPT ![c] = at'[c]]
  BY <1>1, <1>5, StepTypes DEF AuthInv, AuthTypeOK
<1>7. Uncommitted(c)
  BY <1>1, <1>2, <1>5, <1>6 DEF Uncommitted, Unbound, TokensLast, Origin
<1>8. Tells(c)'
  BY <1>1, <1>2, <1>4, <1>5, <1>6
     DEF Tells, InPlace, BindsLocked, LinksLocked, RegistersUser, LinksAlone, Revokes, Chain
<1> QED
  BY <1>1, <1>2, <1>5, <1>6, <1>7, <1>8, UncommittedKeeps

LEMMA RevokeChainKeeps ==
  ASSUME AuthInv, NEW c \in Clients, RevokeChain(c)
  PROVE  AuthInv'
<1> DEFINE r == request[c]
<1>1. /\ at[c] = "revoke" /\ at' = [at EXCEPT ![c] = "refuse"] /\ "refuse" \in Places
      /\ UNCHANGED <<device, identity, token, deviceHolder, identityHolder, request>>
      /\ UNCHANGED <<drawn, asked, answers, ended, overtaken>>
  BY DEF RevokeChain, Moves, Places
<1>2. /\ r \in Request /\ r.token \in Issued /\ r.token # NoOne /\ r.met \subseteq Issued /\ Tells(c)
      /\ r.device \in Devices /\ (r.user # NoOne => r.user <= drawn)
      /\ request' = [request EXCEPT ![c] = r]
  BY <1>1, TokenRow, AuthAssumption DEF AuthInv, AuthTypeOK, Tells, InPlace, Drawn
<1>3. r.subject = NoOne /\ r.binds = NoOne /\ r.links = NoOne
  BY <1>2 DEF Tells, InPlace
<1>4. tokenHolder' \in [Tokens -> Clients \cup {NoOne}]
  BY DEF RevokeChain, AuthInv, AuthTypeOK
<1>5. /\ AuthTypeOK' /\ request'[c] = r /\ at'[c] = "refuse" /\ Issued' = Issued
      /\ request' = [request EXCEPT ![c] = request'[c]] /\ at' = [at EXCEPT ![c] = at'[c]]
  BY <1>1, <1>2, <1>4, StepTypes DEF AuthInv, AuthTypeOK
<1>6. Uncommitted(c)
  BY <1>1, <1>2, <1>5 DEF Uncommitted, Unbound, TokensLast, Origin
<1>7. Tells(c)'
  BY <1>1, <1>2, <1>3, <1>5
     DEF Tells, InPlace, BindsLocked, LinksLocked, RegistersUser, LinksAlone, Revokes, Chain
<1> QED
  BY <1>1, <1>2, <1>5, <1>6, <1>7, UncommittedKeeps

-----------------------------------------------------------------------------
(* The commits.                                                            *)

\* The locks of the other requests outlive the end of a transaction.
LEMMA CloseFrees ==
  ASSUME AuthTypeOK, NEW c \in Clients, Close(c)
  PROVE  /\ request' = [request EXCEPT ![c] = NoRequest] /\ at' = [at EXCEPT ![c] = "idle"]
         /\ request'[c] = NoRequest /\ at'[c] = "idle" /\ UNCHANGED <<drawn, asked>>
         /\ request' \in [Clients -> Request] /\ at' \in [Clients -> Places]
         /\ deviceHolder' \in [Devices -> Clients \cup {NoOne}]
         /\ identityHolder' \in [Subjects -> Clients \cup {NoOne}]
         /\ tokenHolder' \in [Tokens -> Clients \cup {NoOne}]
         /\ \A b \in Clients \ {c} :
              /\ request'[b] = request[b] /\ at'[b] = at[b]
              /\ \A d \in Devices : deviceHolder[d] = b => deviceHolder'[d] = b
              /\ \A s \in Subjects : identityHolder[s] = b => identityHolder'[s] = b
<1>1. /\ request' = [request EXCEPT ![c] = NoRequest] /\ at' = [at EXCEPT ![c] = "idle"]
      /\ UNCHANGED <<drawn, asked>> /\ NoRequest \in Request /\ "idle" \in Places
  BY DEF Close, Moves, NoRequest, Request, Places
<1>2. /\ deviceHolder' = [d \in Devices |-> IF deviceHolder[d] = c THEN NoOne ELSE deviceHolder[d]]
      /\ identityHolder' = [s \in Subjects |-> IF identityHolder[s] = c THEN NoOne ELSE identityHolder[s]]
      /\ tokenHolder' = [t \in Tokens |-> IF tokenHolder[t] = c THEN NoOne ELSE tokenHolder[t]]
  BY DEF Close, Forgotten, AuthTypeOK
<1> QED
  BY <1>1, <1>2 DEF AuthTypeOK

LEMMA IdleTells ==
  ASSUME NEW c \in Clients, request'[c] = NoRequest, at'[c] = "idle"
  PROVE  Tells(c)'
BY DEF Tells, InPlace, BindsLocked, LinksLocked, RegistersUser, LinksAlone, Revokes, NoRequest

\* The tokens with some of them marked.
LEMMA Marked ==
  ASSUME AuthTypeOK, NEW rows \in [Issued -> Token]
  PROVE  rows \in Seq(Token) /\ Len(rows) = Len(token) /\ DOMAIN rows = Issued
<1>1. Issued = 1 .. Len(token) /\ Len(token) \in Nat
  BY TokenRow
<1> QED
  BY <1>1

\* The refusal of a reused token.
LEMMA RefuseReuseKeeps ==
  ASSUME AuthInv, NEW c \in Clients, RefuseReuse(c)
  PROVE  AuthInv'
<1> DEFINE r == request[c]
           row(t) == IF t \in r.chain THEN [token[t] EXCEPT !.revoked = TRUE] ELSE token[t]
           met == r.met \cap Chain(r.user, r.device)
<1>1. /\ at[c] = "refuse" /\ Close(c) /\ token' = [t \in Issued |-> row(t)] /\ ended' = ended \cup met
      /\ UNCHANGED <<device, identity, answers, overtaken>>
  BY DEF RefuseReuse
<1>2. AuthTypeOK /\ Tells(c) /\ ReuseEndsTheChain /\ ended \subseteq Issued /\ met \subseteq Issued
  BY DEF AuthInv, AuthTypeOK, Tells, InPlace, Chain
<1>3. /\ \A i \in Issued : /\ token[i] \in Token /\ row(i) \in Token
                           /\ row(i).user = token[i].user /\ row(i).device = token[i].device
                           /\ row(i).revoked <=> token[i].revoked \/ i \in r.chain
  BY <1>2, TokenRow DEF Token
<1>4. token' \in Seq(Token) /\ Issued' = Issued /\ \A i \in Issued : token'[i] = row(i)
  <2>1. [t \in Issued |-> row(t)] \in [Issued -> Token]
    BY <1>3
  <2> QED
    BY <1>1, <1>2, <2>1, Marked DEF Issued
<1> HIDE DEF row, met
<1>5. AuthTypeOK'
  BY <1>1, <1>2, <1>4, CloseFrees DEF AuthTypeOK
<1>6. Unbound(c)
  BY <1>1, <1>2, <1>3, <1>4, CloseFrees DEF Unbound, Origin, TokensLast, NoRequest, AuthTypeOK
<1>7. ReuseEndsTheChain'
  <2>1. \A t \in met : t \in r.chain \/ token[t].revoked
    BY <1>1, <1>2 DEF met, Tells, Revokes
  <2> QED
    BY <1>1, <1>2, <1>3, <1>4, <2>1 DEF ReuseEndsTheChain
<1>8. Tells(c)' /\ request'[c].user = NoOne
  <2>1. request'[c] = NoRequest /\ at'[c] = "idle"
    BY <1>1, <1>2, CloseFrees
  <2> QED
    BY <2>1, IdleTells DEF NoRequest
<1> QED
  BY <1>5, <1>6, <1>7, <1>8, UnboundKeeps

\* The tokens once a pair is issued: one may be marked as used, and one is new.
LEMMA PairIssued ==
  ASSUME AuthInv, NEW c \in Clients, IssuePair(c)
  PROVE  token' \in Seq(Token) /\ TokensLast /\ ReuseEndsTheChain' /\ ended' \subseteq Issued'
<1> DEFINE r == request[c]
           row(t) == IF t = r.token THEN [token[t] EXCEPT !.used = TRUE] ELSE token[t]
           rows == [t \in Issued |-> row(t)]
           pair == [user |-> r.user, device |-> r.device, used |-> FALSE, revoked |-> FALSE]
<1>1. at[c] = "issue" /\ token' = Append(rows, pair) /\ ended' = ended
  BY DEF IssuePair
<1>2. /\ AuthTypeOK /\ ReuseEndsTheChain /\ ended \subseteq Issued
      /\ pair \in Token /\ pair.user = r.user /\ r.user <= drawn
  BY <1>1, AuthAssumption DEF AuthInv, AuthTypeOK, Tells, InPlace, Drawn, Token, Accounts
<1>3. \A i \in Issued : /\ token[i] \in Token /\ row(i) \in Token
                        /\ row(i).user = token[i].user /\ row(i).device = token[i].device
                        /\ row(i).revoked = token[i].revoked
  BY <1>2, TokenRow DEF Token
<1> HIDE DEF row, pair
<1>4. rows \in Seq(Token) /\ Len(rows) = Len(token) /\ \A i \in Issued : rows[i] = row(i)
  BY <1>2, <1>3, Marked
<1>5. Issued = 1 .. Len(token) /\ Len(token) \in Nat
  BY <1>2, TokenRow
<1> HIDE DEF rows
<1>6. /\ token' \in Seq(Token) /\ Issued' = 1 .. Len(token) + 1
      /\ \A i \in Issued : token'[i] = row(i)
      /\ token'[Len(token) + 1] = pair
  BY <1>1, <1>2, <1>4, <1>5 DEF Issued
<1>7. TokensLast
  BY <1>2, <1>3, <1>5, <1>6 DEF TokensLast
<1> QED
  BY <1>1, <1>2, <1>3, <1>5, <1>6, <1>7 DEF ReuseEndsTheChain, TokensLast

\* A refresh is signed on as whom its token was issued to.
LEMMA RefreshKeeps ==
  ASSUME AuthInv, NEW c \in Clients, IssuePair(c), request[c].token # NoOne
  PROVE  AuthInv'
<1>1. AuthTypeOK /\ Tells(c) /\ Close(c) /\ UNCHANGED <<ended, overtaken>>
  BY DEF AuthInv, IssuePair
<1>2. UNCHANGED <<device, identity, answers>>
  BY <1>1 DEF IssuePair, Tells, InPlace
<1>3. token' \in Seq(Token) /\ TokensLast /\ ReuseEndsTheChain' /\ ended' \subseteq Issued'
  BY PairIssued
<1>4. AuthTypeOK'
  BY <1>1, <1>2, <1>3, CloseFrees DEF AuthTypeOK
<1>5. Unbound(c)
  BY <1>1, <1>2, <1>3, CloseFrees DEF Unbound, Origin, NoRequest, AuthTypeOK
<1>6. Tells(c)' /\ request'[c].user = NoOne
  <2>1. request'[c] = NoRequest /\ at'[c] = "idle"
    BY <1>1, CloseFrees
  <2> QED
    BY <2>1, IdleTells DEF NoRequest
<1> QED
  BY <1>3, <1>4, <1>5, <1>6, UnboundKeeps

\* What the commit of a registration or of a sign-in writes.
Writes(c) ==
  LET r == request[c] IN
  /\ r \in Request /\ r.token = NoOne /\ r.device \in Devices /\ r.user \in Accounts /\ r.user # NoOne
  /\ r.user \in 1 .. drawn /\ drawn \in Nat
  /\ r.binds # NoOne => r.binds = r.user /\ deviceHolder[r.device] = c
  /\ device' = IF r.binds = NoOne THEN device ELSE [device EXCEPT ![r.device] = r.user]
  /\ \/ r.links = NoOne
     \/ /\ r.links = r.user /\ r.subject \in Subjects
        /\ identityHolder[r.subject] = c /\ identity[r.subject] = NoOne
  /\ identity' = IF r.links = NoOne THEN identity ELSE [identity EXCEPT ![r.subject] = r.user]
  /\ r.subject # NoOne => r.subject \in Subjects /\ r.binds = r.user /\ identity'[r.subject] = r.user
  /\ r.subject = NoOne =>
       /\ r.binds = NoOne => Signed(r.device) \/ device[r.device] = r.user
       /\ r.binds # NoOne => device[r.device] = NoOne
  /\ answers' = answers \cup {[device |-> r.device, subject |-> r.subject, user |-> r.user]}
  /\ UNCHANGED <<drawn, overtaken>>
  /\ request' = [request EXCEPT ![c] = NoRequest] /\ request'[c].user = NoOne
  /\ \A b \in Clients \ {c} : request'[b] = request[b] /\ at'[b] = at[b]

LEMMA CommitWrites ==
  ASSUME AuthInv, NEW c \in Clients, IssuePair(c), request[c].token = NoOne
  PROVE  Writes(c)
<1> DEFINE r == request[c]
<1>1. /\ at[c] = "issue" /\ r \in Request /\ AuthTypeOK /\ Close(c)
      /\ InPlace(c) /\ BindsLocked(c) /\ LinksLocked(c) /\ RegistersUser(c)
  BY DEF IssuePair, AuthInv, AuthTypeOK, Tells
<1>2. r.device \in Devices /\ r.user \in Accounts /\ r.user # NoOne /\ r.user \in Nat /\ r.user > 0
  BY <1>1, AuthAssumption DEF InPlace, Accounts
<1>3. drawn \in Nat /\ r.user \in 1 .. drawn
  BY <1>1, <1>2 DEF AuthInv, AuthTypeOK, Drawn
<1>4. r.binds # NoOne => r.binds = r.user /\ deviceHolder[r.device] = c
  BY <1>1 DEF BindsLocked
<1>5. r.links = NoOne \/ /\ r.links = r.user /\ r.subject \in Subjects
                         /\ identityHolder[r.subject] = c /\ identity[r.subject] = NoOne
  BY <1>1 DEF LinksLocked
<1>6. /\ device' = IF r.binds = NoOne THEN device ELSE [device EXCEPT ![r.device] = r.user]
      /\ identity' = IF r.links = NoOne THEN identity ELSE [identity EXCEPT ![r.subject] = r.user]
      /\ answers' = answers \cup {[device |-> r.device, subject |-> r.subject, user |-> r.user]}
      /\ UNCHANGED overtaken
  BY <1>4, <1>5 DEF IssuePair
<1>7. r.subject # NoOne => r.subject \in Subjects /\ r.binds = r.user /\ identity'[r.subject] = r.user
  BY <1>1, <1>2, <1>5, <1>6 DEF Request, BindsLocked, LinksLocked, AuthTypeOK
<1>8. r.subject = NoOne => /\ r.binds = NoOne => Signed(r.device) \/ device[r.device] = r.user
                           /\ r.binds # NoOne => device[r.device] = NoOne
  BY <1>1 DEF RegistersUser
<1>9. /\ UNCHANGED drawn /\ request' = [request EXCEPT ![c] = NoRequest]
      /\ request'[c].user = NoOne
      /\ \A b \in Clients \ {c} : request'[b] = request[b] /\ at'[b] = at[b]
  BY <1>1, CloseFrees DEF NoRequest
<1> QED
  BY <1>1, <1>2, <1>3, <1>4, <1>5, <1>6, <1>7, <1>8, <1>9 DEF Writes

\* The device is the user's before and after, and so is the Apple account.
LEMMA CommitAnswers ==
  ASSUME AuthInv, NEW c \in Clients, Writes(c)
  PROVE  AnswersHold'
<1> DEFINE r == request[c]
           SignedNow(d) == \E x \in answers' : x.device = d /\ x.subject # NoOne
           mine == [device |-> r.device, subject |-> r.subject, user |-> r.user]
<1>1. device \in [Devices -> Accounts \cup {NoOne}] /\ identity \in [Subjects -> Accounts \cup {NoOne}]
  BY DEF AuthInv, AuthTypeOK
<1>2. \A d \in Devices : Signed(d) => SignedNow(d)
  BY DEF Writes, Signed
<1>3. r.subject # NoOne => SignedNow(r.device)
  <2>1. mine \in answers' /\ mine.device = r.device /\ mine.subject = r.subject
    BY DEF Writes
  <2> QED
    BY <2>1
<1>4. ASSUME NEW a \in answers
      PROVE  /\ a.device \in Devices /\ a.subject \in Subjects \cup {NoOne} /\ a.user \in Accounts
             /\ a.subject # NoOne => identity'[a.subject] = a.user
             /\ SignedNow(a.device) \/ device'[a.device] = a.user
  <2>1. /\ a.device \in Devices /\ a.subject \in Subjects \cup {NoOne} /\ a.user \in Accounts
        /\ a.user # NoOne
        /\ a.subject # NoOne => identity[a.subject] = a.user
        /\ Signed(a.device) \/ device[a.device] = a.user
    BY AuthAssumption DEF AuthInv, AnswersHold, Accounts
  <2>2. a.subject # NoOne => identity'[a.subject] = a.user
    BY <1>1, <2>1 DEF Writes
  <2>3. SignedNow(a.device) \/ device'[a.device] = a.user
    BY <1>1, <1>2, <1>3, <2>1 DEF Writes
  <2> QED
    BY <2>1, <2>2, <2>3
<1>5. /\ r.device \in Devices /\ r.subject \in Subjects \cup {NoOne} /\ r.user \in Accounts
      /\ r.subject # NoOne => identity'[r.subject] = r.user
      /\ SignedNow(r.device) \/ device'[r.device] = r.user
  BY <1>1, <1>2, <1>3 DEF Writes
<1>6. answers' = answers \cup {mine} /\ mine.device = r.device /\ mine.subject = r.subject
      /\ mine.user = r.user
  BY DEF Writes
<1> HIDE DEF mine
<1> QED
  BY <1>4, <1>5, <1>6 DEF AnswersHold, Signed

LEMMA CommitHomes ==
  ASSUME AuthInv, NEW c \in Clients, Writes(c)
  PROVE  OneHome'
<1> SUFFICES ASSUME NEW u \in 1 .. drawn, Unlinked(u)',
                    NEW d \in Devices, NEW e \in Devices, LivesOn(u, d)', LivesOn(u, e)'
             PROVE  d = e
  BY DEF OneHome, Writes, Unlinked, LivesOn
<1>1. device \in [Devices -> Accounts \cup {NoOne}] /\ identity \in [Subjects -> Accounts \cup {NoOne}]
  BY DEF AuthInv, AuthTypeOK
<1>2. u # NoOne
  BY AuthAssumption
<1>3. Unlinked(u)
  BY <1>1, <1>2 DEF Unlinked, Writes
<1>4. \A i \in Devices : LivesOn(u, i)' => LivesOn(u, i)
  BY <1>1, <1>2 DEF LivesOn, Writes
<1> QED
  BY <1>3, <1>4 DEF AuthInv, OneHome

\* Two requests never link one user: the lock of the user's device, on which both are, keeps
\* them apart.
LEMMA CommitUnlinks ==
  ASSUME AuthInv, NEW c \in Clients, Writes(c), NEW b \in Clients \ {c},
         at[b] = "identify" \/ request[b].links # NoOne, request[b].token = NoOne,
         request[b].device \in Devices
  PROVE  Unlinked(request[b].user)' \/ request[b].user \in overtaken
<1> DEFINE r == request[c]
           q == request[b]
<1> SUFFICES ASSUME q.user \notin overtaken
             PROVE  \A s \in Subjects : identity'[s] # q.user
  BY DEF Unlinked, Writes
<1>1. Unlinked(q.user) /\ (deviceHolder[q.device] = b \/ Private(b))
  BY DEF AuthInv, Tells, LinksAlone
<1>2. identity \in [Subjects -> Accounts \cup {NoOne}]
  BY DEF AuthInv, AuthTypeOK
<1>3. CASE r.links = NoOne \/ r.user # q.user
  BY <1>1, <1>2, <1>3 DEF Writes, Unlinked
<1>4. CASE r.links # NoOne /\ r.user = q.user
  <2>1. deviceHolder[r.device] = c \/ Private(c)
    BY <1>4 DEF AuthInv, Tells, LinksAlone
  <2>2. ~Private(b) /\ ~Private(c)
    BY <1>4 DEF Private, Writes
  <2>3. LivesOn(r.user, r.device) /\ LivesOn(r.user, q.device)
    BY <1>4 DEF LivesOn, Writes
  <2>4. r.device = q.device
    BY <1>1, <1>4, <2>3 DEF AuthInv, OneHome, Writes
  <2> QED
    BY <1>1, <2>1, <2>2, <2>4
<1> QED
  BY <1>3, <1>4

LEMMA CommitPrivate ==
  ASSUME AuthInv, NEW c \in Clients, Writes(c), NEW b \in Clients \ {c}, Private(b),
         request[b].user \in Accounts
  PROVE  Private(b)'
<1>1. /\ request'[b] = request[b] /\ request'[c].user = NoOne /\ request[b].user # NoOne
      /\ \A a \in Clients \ {c} : request'[a] = request[a]
      /\ request[c].user # request[b].user
  BY AuthAssumption DEF Writes, Private, Accounts
<1>2. \A d \in Devices : device'[d] # request[b].user
  BY <1>1 DEF Writes, Private, AuthInv, AuthTypeOK
<1>3. \A s \in Subjects : identity'[s] # request[b].user
  BY <1>1 DEF Writes, Private, AuthInv, AuthTypeOK
<1> QED
  BY <1>1, <1>2, <1>3 DEF Private

LEMMA CommitOthers ==
  ASSUME AuthInv, NEW c \in Clients, Writes(c), Close(c), TokensLast, NEW b \in Clients \ {c}
  PROVE  Tells(b)'
<1> DEFINE r == request[c]
           q == request[b]
<1>1. /\ request'[b] = q /\ at'[b] = at[b] /\ Tells(b) /\ TokensLast /\ UNCHANGED overtaken
      /\ q \in Request /\ AuthTypeOK
      /\ \A d \in Devices : deviceHolder[d] = b => deviceHolder'[d] = b
      /\ \A s \in Subjects : identityHolder[s] = b => identityHolder'[s] = b
  BY CloseFrees DEF AuthInv, AuthTypeOK, Writes
<1>2. InPlace(b) /\ BindsLocked(b) /\ LinksLocked(b) /\ RegistersUser(b) /\ Revokes(b)
  BY <1>1 DEF Tells
<1>3. InPlace(b)' /\ BindsLocked(b)'
  BY <1>1, <1>2 DEF InPlace, BindsLocked, TokensLast
<1>4. LinksLocked(b)'
  <2>1. q.links # NoOne => identity'[q.subject] = NoOne
    BY <1>1, <1>2 DEF LinksLocked, Writes, AuthTypeOK
  <2>2. at[b] \in {"bind", "issue"} /\ q.subject # NoOne /\ q.links = NoOne =>
          identity'[q.subject] = q.user
    <3> SUFFICES ASSUME at[b] \in {"bind", "issue"}, q.subject # NoOne, q.links = NoOne
                 PROVE  identity'[q.subject] = q.user
      OBVIOUS
    <3>1. /\ identity[q.subject] = q.user /\ q.user \in Accounts /\ q.user # NoOne
          /\ q.subject \in Subjects
      BY <1>1, <1>2, AuthAssumption DEF LinksLocked, InPlace, Request, Accounts
    <3> QED
      BY <1>1, <3>1 DEF Writes, AuthTypeOK
  <2> QED
    BY <1>1, <1>2, <2>1, <2>2 DEF LinksLocked
<1>5. RegistersUser(b)'
  <2> SUFFICES ASSUME at[b] \in {"touch", "issue"}, q.token = NoOne, q.subject = NoOne
               PROVE  IF q.binds = NoOne
                      THEN \/ \E x \in answers' : x.device = q.device /\ x.subject # NoOne
                           \/ device'[q.device] = q.user
                      ELSE device'[q.device] = NoOne
    BY <1>1 DEF RegistersUser, Signed
  <2>1. q.device \in Devices /\ q.user \in Accounts /\ q.user # NoOne
    BY <1>2, AuthAssumption DEF InPlace, Accounts
  <2>2. CASE q.binds = NoOne
    <3>1. CASE Signed(q.device)
      BY <2>2, <3>1 DEF Signed, Writes
    <3>2. CASE device[q.device] = q.user
      <4>1. CASE r.binds = NoOne \/ r.device # q.device
        BY <1>1, <2>1, <2>2, <3>2, <4>1 DEF Writes, AuthTypeOK
      <4>2. CASE r.binds # NoOne /\ r.device = q.device
        <5> DEFINE mine == [device |-> r.device, subject |-> r.subject, user |-> r.user]
        <5>1. r.subject # NoOne
          BY <2>1, <3>2, <4>2 DEF Writes
        <5>2. mine \in answers' /\ mine.device = q.device /\ mine.subject # NoOne
          BY <4>2, <5>1 DEF Writes
        <5> QED
          BY <2>2, <5>2
      <4> QED
        BY <4>1, <4>2
    <3> QED
      BY <1>2, <2>2, <3>1, <3>2 DEF RegistersUser
  <2>3. CASE q.binds # NoOne
    <3>1. device[q.device] = NoOne /\ deviceHolder[q.device] = b
      BY <1>2, <2>3 DEF RegistersUser, BindsLocked
    <3> QED
      BY <1>1, <2>1, <2>3, <3>1 DEF Writes, AuthTypeOK
  <2> QED
    BY <2>2, <2>3
<1>6. LinksAlone(b)'
  <2>1. at[b] \in {"link", "identify"} \/ q.links # NoOne =>
          q.token = NoOne /\ q.user \in Accounts /\ q.device \in Devices
    BY <1>2 DEF InPlace, LinksLocked
  <2>2. at[b] \in {"link", "identify"} \/ q.links # NoOne => (Private(b) => Private(b)')
    BY <2>1, CommitPrivate
  <2>3. at[b] = "identify" \/ q.links # NoOne => Unlinked(q.user)' \/ q.user \in overtaken
    BY <2>1, CommitUnlinks
  <2>4. at[b] = "identify" \/ q.links # NoOne =>
          (\A s \in Subjects : identity'[s] # q.user) \/ q.user \in overtaken
    BY <1>1, <2>3 DEF Unlinked
  <2> QED
    BY <1>1, <2>1, <2>2, <2>4 DEF Tells, LinksAlone, Unlinked
<1>7. Revokes(b)'
  BY <1>1, <1>2 DEF InPlace, Revokes, Chain, TokensLast
<1> QED
  BY <1>3, <1>4, <1>5, <1>6, <1>7 DEF Tells

LEMMA CommitKeeps ==
  ASSUME AuthInv, NEW c \in Clients, IssuePair(c), request[c].token = NoOne
  PROVE  AuthInv'
<1> DEFINE r == request[c]
<1>1. Writes(c) /\ Close(c) /\ AuthTypeOK /\ UNCHANGED <<ended, overtaken>>
  BY CommitWrites DEF IssuePair, AuthInv
<1>2. token' \in Seq(Token) /\ TokensLast /\ ReuseEndsTheChain' /\ ended' \subseteq Issued'
  BY PairIssued
<1>3. /\ device' \in [Devices -> Accounts \cup {NoOne}]
      /\ identity' \in [Subjects -> Accounts \cup {NoOne}]
  BY <1>1 DEF Writes, AuthTypeOK
<1>4. AuthTypeOK'
  BY <1>1, <1>2, <1>3, CloseFrees DEF AuthTypeOK
<1>5. Drawn'
  <2>1. drawn \in Nat /\ drawn' = drawn
    BY <1>1 DEF Writes
  <2>2. /\ \A d \in Devices : device'[d] # NoOne => device'[d] <= drawn
        /\ \A s \in Subjects : identity'[s] # NoOne => identity'[s] <= drawn
    BY <1>1 DEF Writes, AuthInv, AuthTypeOK, Drawn
  <2>3. \A b \in Clients : request'[b].user # NoOne => request'[b].user <= drawn
    BY <1>1 DEF Writes, AuthInv, Drawn
  <2>4. \A i \in Issued' : token'[i].user <= drawn
    BY <1>2 DEF TokensLast, AuthInv, Drawn
  <2> QED
    BY <2>1, <2>2, <2>3, <2>4 DEF Drawn
<1>6. OneIdentityPerAccount'
  <2> SUFFICES ASSUME NEW s \in Subjects, NEW t \in Subjects, identity'[s] = identity'[t],
                      identity'[s] \notin overtaken \cup {NoOne}, s # t
               PROVE  FALSE
    BY <1>1 DEF OneIdentityPerAccount
  <2>1. r.links # NoOne => Unlinked(r.user) \/ r.user \in overtaken
    BY DEF AuthInv, Tells, LinksAlone
  <2> QED
    BY <1>1, <2>1 DEF Writes, AuthInv, AuthTypeOK, OneIdentityPerAccount, Unlinked
<1>7. ASSUME NEW b \in Clients
      PROVE  Tells(b)'
  <2>1. CASE b = c
    BY <1>1, <2>1, CloseFrees, IdleTells
  <2>2. CASE b # c
    BY <1>1, <1>2, <2>2, CommitOthers
  <2> QED
    BY <2>1, <2>2
<1> QED
  BY <1>1, <1>2, <1>4, <1>5, <1>6, <1>7, CommitAnswers, CommitHomes DEF AuthInv

-----------------------------------------------------------------------------
(* The theorems.                                                           *)

LEMMA AuthNextKeeps == AuthInv /\ [AuthNext]_authVars => AuthInv'
<1> SUFFICES ASSUME AuthInv, [AuthNext]_authVars
             PROVE  AuthInv'
  OBVIOUS
<1>1. ASSUME NEW c \in Clients, AuthRequest(c)
      PROVE  AuthInv'
  BY <1>1, AskKeeps
<1>2. ASSUME NEW c \in Clients, AuthStep(c)
      PROVE  AuthInv'
  <2>1. CASE FindDevice(c) \/ Touch(c) \/ Provision(c)
    BY <2>1, FindDeviceKeeps, TouchKeeps, ProvisionKeeps
  <2>2. CASE ResolveApple(c) \/ ChooseAccount(c) \/ Identify(c) \/ BindDevice(c)
    BY <2>2, ResolveAppleKeeps, ChooseAccountKeeps, IdentifyKeeps, BindDeviceKeeps
  <2>3. CASE ReadToken(c) \/ UseToken(c) \/ FindChain(c) \/ RevokeChain(c) \/ RefuseReuse(c)
    BY <2>3, ReadTokenKeeps, UseTokenKeeps, FindChainKeeps, RevokeChainKeeps, RefuseReuseKeeps
  <2>4. CASE IssuePair(c)
    BY <2>4, RefreshKeeps, CommitKeeps
  <2> QED
    BY <1>2, <2>1, <2>2, <2>3, <2>4 DEF AuthStep
<1>3. ASSUME NEW c \in Clients, Lose(c)
      PROVE  AuthInv'
  BY <1>3, LoseKeeps DEF Lose
<1>4. CASE UNCHANGED authVars
  <2>1. UNCHANGED <<device, identity, token, deviceHolder, identityHolder, tokenHolder, request>>
        /\ UNCHANGED <<at, drawn, asked, answers, ended, overtaken>>
    BY <1>4 DEF authVars, authDb
  <2>2. AuthTypeOK' /\ Drawn' /\ AnswersHold' /\ OneIdentityPerAccount' /\ ReuseEndsTheChain'
    BY <2>1 DEF AuthInv, AuthTypeOK, Drawn, AnswersHold, Signed, OneIdentityPerAccount,
                ReuseEndsTheChain, Issued
  <2>3. OneHome'
    BY <2>1 DEF AuthInv, OneHome, Unlinked, LivesOn
  <2>4. ASSUME NEW c \in Clients
        PROVE  Tells(c)'
    BY <2>1 DEF AuthInv, Tells, InPlace, BindsLocked, LinksLocked, RegistersUser, Signed,
                LinksAlone, Private, Unlinked, Revokes, Chain, Issued
  <2> QED
    BY <2>2, <2>3, <2>4 DEF AuthInv
<1> QED
  BY <1>1, <1>2, <1>3, <1>4 DEF AuthNext

\* The inductive invariant holds in every state, whatever registrations, sign-ins and
\* refreshes overlap and however many are lost.
THEOREM AuthInvariant == AuthSpec => []AuthInv
<1>1. AuthInit => AuthInv
  BY AuthInitKeeps
<1>2. AuthInv /\ [AuthNext]_authVars => AuthInv'
  BY AuthNextKeeps
<1> QED
  BY <1>1, <1>2, PTL DEF AuthSpec

\* Every row, lock and request is what its type says.
THEOREM AuthTyped == AuthSpec => []AuthTypeOK
<1>1. AuthInv => AuthTypeOK
  BY DEF AuthInv
<1> QED
  BY <1>1, AuthInvariant, PTL

\* Answers to overlapping registrations and sign-ins agree about who is who, and no account is
\* linked with two Apple accounts (_provision_user and sign_in_with_apple).
THEOREM IdentitiesHold == AuthSpec => []IdentitiesAgree
<1>1. AuthInv => IdentitiesAgree
  <2> SUFFICES ASSUME AuthInv
               PROVE  AnswersAgree /\ OneIdentityPerAccount
    BY DEF IdentitiesAgree
  <2>1. ASSUME NEW a \in answers, NEW b \in answers
        PROVE  /\ a.subject = b.subject /\ a.subject # NoOne => a.user = b.user
               /\ a.device = b.device /\ a.user # b.user =>
                    \E x \in answers : x.device = a.device /\ x.subject # NoOne
    BY DEF AuthInv, AnswersHold, Signed
  <2> QED
    BY <2>1 DEF AuthInv, AnswersAgree
<1> QED
  BY <1>1, AuthInvariant, PTL

\* The chain a detected reuse met stays revoked once the reuse is refused (RefreshTokenService).
THEOREM ReuseRevokes == AuthSpec => []ReuseEndsTheChain
<1>1. AuthInv => ReuseEndsTheChain
  BY DEF AuthInv
<1> QED
  BY <1>1, AuthInvariant, PTL

-----------------------------------------------------------------------------
(***************************************************************************)
(* Proofs about VoiceSession, for any number of connections: the legs of a *)
(* chat run one at a time, a turn that is interrupted stops speaking, and  *)
(* an utterance in the queue waits for a turn that is running.             *)
(***************************************************************************)

(* The strengthening.                                                      *)

Talk == [alive : BOOLEAN, task : {"none", "spawned", "lock", "balance", "generate", "finish"},
         turn : BOOLEAN, owns : BOOLEAN, reason : BOOLEAN, queued : BOOLEAN, resumed : BOOLEAN,
         speech : {"none", "idle", "send"}, words : BOOLEAN, stopped : BOOLEAN]

VoiceTyped ==
  /\ talk \in [Connections -> Talk]
  /\ turnLock \in Connections \cup {Free} /\ lapsed \in BOOLEAN
  /\ spokenAfter \in [Connections -> 0..2]
  /\ silenced \subseteq Connections /\ unheard \subseteq silenced /\ stranded \subseteq Connections

InLeg(t) == t.task \in {"balance", "generate", "finish"}

\* A worker speaks only in a leg, and is there once the balance is known.
WorkerInLeg(t) == t.speech # "none" => t.task \in {"generate", "finish"}

\* As long as no leg outlives it, the lock is with the leg that runs.
LegOwnsLock(c) == ~lapsed /\ InLeg(talk[c]) => turnLock = c /\ talk[c].owns

\* A turn that nobody has started, or whose connection is gone, is not interrupted.
NothingToSilence(t) == ~t.alive \/ (t.task = "lock" /\ ~t.resumed)
Fresh(c) ==
  /\ NothingToSilence(talk[c]) => c \notin silenced
  /\ talk[c].task = "lock" /\ ~talk[c].resumed => ~talk[c].turn
  /\ c \notin silenced => spokenAfter[c] = 0

\* Of an interrupted turn the worker is stopped, or there is none; what it sends was on its way.
Hushed(c) ==
  c \in silenced \ unheard =>
    /\ talk[c].reason /\ talk[c].task # "balance"
    /\ talk[c].speech # "none" => talk[c].stopped
    /\ talk[c].speech = "send" => spokenAfter[c] = 0
    /\ spokenAfter[c] <= 1

Waits(c) == c \notin stranded => (talk[c].alive /\ talk[c].queued => talk[c].task # "none")

Kept(c) == WorkerInLeg(talk[c]) /\ LegOwnsLock(c) /\ Fresh(c) /\ Hushed(c) /\ Waits(c)

VoiceIInv == VoiceTyped /\ \A c \in Connections : Kept(c)

LEMMA VoiceInitially == VoiceInit => VoiceIInv
<1> SUFFICES ASSUME VoiceInit PROVE VoiceIInv
  OBVIOUS
<1>1. Quiet \in Talk
  BY DEF Quiet, Talk
<1>2. VoiceTyped
  <2>1. lapsed \in BOOLEAN
    BY Zenon DEF VoiceInit
  <2> QED
    BY <1>1, <2>1 DEF VoiceInit, VoiceTyped
<1>3. ASSUME NEW c \in Connections
      PROVE  Kept(c)
  BY DEF VoiceInit, Quiet, Kept, WorkerInLeg, LegOwnsLock, InLeg, Fresh, NothingToSilence, Hushed, Waits
<1> QED
  BY <1>2, <1>3 DEF VoiceIInv

-----------------------------------------------------------------------------
(* A step of one connection leaves the others as they are.                 *)

\* c becomes what; the histories change for c alone; only the owner frees the lock, and
\* nobody takes one that is held.
StepOf(c, what) ==
  /\ what \in Talk /\ talk' = [talk EXCEPT ![c] = what]
  /\ turnLock' \in {turnLock, c, Free}
  /\ turnLock' = c => turnLock \in {c, Free}
  /\ turnLock' = Free => turnLock = Free \/ InLeg(talk[c])
  /\ lapsed' \in BOOLEAN /\ (lapsed => lapsed')
  /\ spokenAfter' \in [Connections -> 0..2]
  /\ silenced' \subseteq Connections /\ unheard' \subseteq silenced' /\ stranded' \subseteq Connections
  /\ \A d \in Connections \ {c} :
       /\ d \in silenced' <=> d \in silenced
       /\ d \in unheard' <=> d \in unheard
       /\ d \in stranded' <=> d \in stranded
       /\ spokenAfter'[d] = spokenAfter[d]

LEMMA StepPreserves ==
  ASSUME VoiceIInv, NEW c \in Connections, NEW what, StepOf(c, what), Kept(c)'
  PROVE  VoiceIInv'
<1>1. VoiceTyped'
  BY DEF VoiceIInv, VoiceTyped, StepOf
<1>2. ASSUME NEW d \in Connections \ {c}
      PROVE  Kept(d)'
  <2>1. talk'[d] = talk[d] /\ Kept(d) /\ (~lapsed' => ~lapsed)
    BY DEF VoiceIInv, VoiceTyped, StepOf
  <2>2. LegOwnsLock(d)'
    <3> SUFFICES ASSUME ~lapsed', InLeg(talk[d]) PROVE turnLock' = d /\ talk[d].owns
      BY <2>1 DEF LegOwnsLock
    <3>1. turnLock = d /\ talk[d].owns /\ ~InLeg(talk[c])
      BY <2>1 DEF Kept, LegOwnsLock, VoiceIInv
    <3> QED
      BY <3>1, VoiceAssumption DEF StepOf
  <2>3. WorkerInLeg(talk'[d]) /\ Fresh(d)' /\ Hushed(d)' /\ Waits(d)'
    BY <2>1 DEF StepOf, Kept, Fresh, Hushed, Waits
  <2> QED
    BY <2>2, <2>3 DEF Kept
<1> QED
  BY <1>1, <1>2 DEF VoiceIInv

-----------------------------------------------------------------------------
(* Every step is one of a connection, but for the lock that runs out.      *)

LEMMA TalkUpdates ==
  ASSUME NEW t \in Talk,
         NEW task \in {"none", "spawned", "lock", "balance", "generate", "finish"}
  PROVE  /\ Quiet \in Talk /\ Gone \in Talk
         /\ [t EXCEPT !.task = task] \in Talk
         /\ [t EXCEPT !.queued = TRUE] \in Talk
         /\ [t EXCEPT !.owns = TRUE] \in Talk
         /\ \A speech \in {"none", "idle", "send"} :
              /\ [t EXCEPT !.task = task, !.speech = speech] \in Talk
              /\ [t EXCEPT !.words = FALSE, !.speech = speech] \in Talk
         /\ \A stopped \in BOOLEAN : [t EXCEPT !.words = FALSE, !.stopped = stopped] \in Talk
         /\ \A words \in BOOLEAN : [t EXCEPT !.words = words] \in Talk
<1>1. Quiet \in Talk /\ Gone \in Talk
  BY DEF Talk, Quiet, Gone
<1>2. /\ [t EXCEPT !.task = task] \in Talk
      /\ [t EXCEPT !.queued = TRUE] \in Talk
      /\ [t EXCEPT !.owns = TRUE] \in Talk
  BY DEF Talk
<1>3. \A speech \in {"none", "idle", "send"} :
        /\ [t EXCEPT !.task = task, !.speech = speech] \in Talk
        /\ [t EXCEPT !.words = FALSE, !.speech = speech] \in Talk
  BY DEF Talk
<1>4. \A stopped \in BOOLEAN : [t EXCEPT !.words = FALSE, !.stopped = stopped] \in Talk
  BY DEF Talk
<1>5. \A words \in BOOLEAN : [t EXCEPT !.words = words] \in Talk
  BY DEF Talk
<1> QED
  BY <1>1, <1>2, <1>3, <1>4, <1>5

LEMMA FedTalk ==
  ASSUME NEW t \in Talk
  PROVE  Fed(t) \in Talk
<1>1. (t.words \/ (t.speech # "none" /\ ~t.stopped)) \in BOOLEAN
  BY Zenon
<1> QED
  BY <1>1, TalkUpdates DEF Fed

LEMMA UtterPreserves ==
  ASSUME VoiceIInv, NEW c \in Connections, Utter(c)
  PROVE  StepOf(c, talk'[c]) /\ Kept(c)'
<1>1. /\ talk \in [Connections -> Talk] /\ talk[c] \in Talk /\ Kept(c)
      /\ talk' = [talk EXCEPT ![c] = talk'[c]]
  BY DEF VoiceIInv, VoiceTyped, Utter, Becomes
<1>2. talk'[c] \in Talk
  BY <1>1, TalkUpdates DEF Utter, Becomes
<1>3. Kept(c)'
  BY <1>1 DEF VoiceIInv, VoiceTyped, Talk, Utter, Becomes, voiceHistory, Kept, WorkerInLeg,
         LegOwnsLock, InLeg, Fresh, NothingToSilence, Hushed, Waits
<1>4. StepOf(c, talk'[c])
  BY <1>1, <1>2, VoiceAssumption DEF VoiceIInv, VoiceTyped, Talk, Utter, Becomes, voiceHistory, StepOf,
         Kept, LegOwnsLock, InLeg
<1> QED
  BY <1>3, <1>4

LEMMA InterruptPreserves ==
  ASSUME VoiceIInv, NEW c \in Connections, Interrupt(c)
  PROVE  StepOf(c, talk'[c]) /\ Kept(c)'
<1>1. /\ talk \in [Connections -> Talk] /\ talk[c] \in Talk /\ Kept(c)
      /\ talk' = [talk EXCEPT ![c] = talk'[c]]
  BY DEF VoiceIInv, VoiceTyped, Interrupt, Becomes
<1>2. talk'[c] \in Talk
  BY <1>1 DEF VoiceIInv, VoiceTyped, Talk, Interrupt, Becomes
<1>3. Kept(c)'
  BY <1>1 DEF VoiceIInv, VoiceTyped, Talk, Interrupt, Becomes, Kept, WorkerInLeg, LegOwnsLock, InLeg,
         Fresh, NothingToSilence, Hushed, Waits
<1>4. StepOf(c, talk'[c])
  BY <1>1, <1>2, VoiceAssumption DEF VoiceIInv, VoiceTyped, Talk, Interrupt, Becomes, StepOf, Kept,
         LegOwnsLock, InLeg
<1> QED
  BY <1>3, <1>4

LEMMA ToolResultPreserves ==
  ASSUME VoiceIInv, NEW c \in Connections, ToolResult(c)
  PROVE  StepOf(c, talk'[c]) /\ Kept(c)'
<1>1. /\ talk \in [Connections -> Talk] /\ talk[c] \in Talk /\ Kept(c)
      /\ talk' = [talk EXCEPT ![c] = talk'[c]]
  BY DEF VoiceIInv, VoiceTyped, ToolResult, Becomes
<1>2. talk'[c] \in Talk
  BY <1>1 DEF VoiceIInv, VoiceTyped, Talk, ToolResult, Becomes
<1>3. Kept(c)'
  BY <1>1 DEF VoiceIInv, VoiceTyped, Talk, ToolResult, Becomes, voiceHistory, Kept, WorkerInLeg,
         LegOwnsLock, InLeg, Fresh, NothingToSilence, Hushed, Waits
<1>4. StepOf(c, talk'[c])
  BY <1>1, <1>2, VoiceAssumption DEF VoiceIInv, VoiceTyped, Talk, ToolResult, Becomes, voiceHistory,
         StepOf, Kept, LegOwnsLock, InLeg
<1> QED
  BY <1>3, <1>4

LEMMA NewTurnPreserves ==
  ASSUME VoiceIInv, NEW c \in Connections, NewTurn(c)
  PROVE  StepOf(c, talk'[c]) /\ Kept(c)'
<1>1. /\ talk \in [Connections -> Talk] /\ talk[c] \in Talk /\ Kept(c)
      /\ talk' = [talk EXCEPT ![c] = talk'[c]]
  BY DEF VoiceIInv, VoiceTyped, NewTurn, Becomes, Does
<1>2. talk'[c] \in Talk
  BY <1>1 DEF VoiceIInv, VoiceTyped, Talk, NewTurn, Becomes, Does, Quiet
<1>3. Kept(c)'
  BY <1>1 DEF VoiceIInv, VoiceTyped, Talk, NewTurn, Becomes, Does, Quiet, Unsaid, Kept, WorkerInLeg,
         LegOwnsLock, InLeg, Fresh, NothingToSilence, Hushed, Waits
<1>4. StepOf(c, talk'[c])
  BY <1>1, <1>2, VoiceAssumption DEF VoiceIInv, VoiceTyped, Talk, NewTurn, Becomes, Does, Unsaid,
         StepOf, Kept, LegOwnsLock, InLeg
<1> QED
  BY <1>3, <1>4

LEMMA RefuseTurnPreserves ==
  ASSUME VoiceIInv, NEW c \in Connections, RefuseTurn(c)
  PROVE  StepOf(c, talk'[c]) /\ Kept(c)'
<1>1. /\ talk \in [Connections -> Talk] /\ talk[c] \in Talk /\ Kept(c)
      /\ talk' = [talk EXCEPT ![c] = talk'[c]]
  BY DEF VoiceIInv, VoiceTyped, RefuseTurn, Becomes, Does, Strand
<1>2. talk'[c] \in Talk
  BY <1>1, TalkUpdates DEF RefuseTurn, Becomes
<1>3. Kept(c)'
  BY <1>1 DEF VoiceIInv, VoiceTyped, Talk, RefuseTurn, Becomes, Does, Quiet, Gone, Strand, Kept,
         WorkerInLeg, LegOwnsLock, InLeg, Fresh, NothingToSilence, Hushed, Waits
<1>4. StepOf(c, talk'[c])
  BY <1>1, <1>2, VoiceAssumption DEF VoiceIInv, VoiceTyped, Talk, RefuseTurn, Becomes, Does, Strand,
         StepOf, Kept, LegOwnsLock, InLeg
<1> QED
  BY <1>3, <1>4

LEMMA AcquireTurnLockPreserves ==
  ASSUME VoiceIInv, NEW c \in Connections, AcquireTurnLock(c)
  PROVE  StepOf(c, talk'[c]) /\ Kept(c)'
<1>1. /\ talk \in [Connections -> Talk] /\ talk[c] \in Talk /\ Kept(c)
      /\ talk' = [talk EXCEPT ![c] = talk'[c]]
  BY DEF VoiceIInv, VoiceTyped, AcquireTurnLock, Becomes, Does, Strand
<1>2. talk'[c] \in Talk
  <2>1. PrepareSpeech(talk[c]) \in Talk
    BY <1>1, TalkUpdates DEF PrepareSpeech
  <2>2. [PrepareSpeech(talk[c]) EXCEPT !.owns = TRUE] \in Talk
    BY <2>1, TalkUpdates
  <2>3. [talk[c] EXCEPT !.task = "none"] \in Talk /\ Gone \in Talk
    BY <1>1, TalkUpdates
  <2>4. \E what \in Talk : talk' = [talk EXCEPT ![c] = what]
    BY <2>1, <2>2, <2>3 DEF AcquireTurnLock, Becomes
  <2> QED
    BY <1>1, <2>4
<1>3. Kept(c)'
  <2>1. CASE turnLock = Free /\ turnLock' = c /\ UNCHANGED <<stranded, lapsed, silenced, spokenAfter, unheard>>
             /\ talk'[c] = [PrepareSpeech(talk[c]) EXCEPT !.owns = TRUE]
    <3>1. Does(c, "lock")
      BY DEF AcquireTurnLock
    <3>2. /\ talk'[c].task = IF talk[c].reason THEN "generate" ELSE "balance"
          /\ talk'[c].owns /\ talk'[c].alive = talk[c].alive /\ talk'[c].reason = talk[c].reason
          /\ talk'[c].speech = talk[c].speech
      BY <1>1, <2>1 DEF Talk, PrepareSpeech
    <3>3. talk'[c].speech = "none" /\ talk'[c].task \in {"generate", "balance"}
      BY <3>1, <3>2, <1>1 DEF Kept, WorkerInLeg, Does
    <3>4. WorkerInLeg(talk'[c]) /\ LegOwnsLock(c)' /\ Waits(c)'
      BY <2>1, <3>2, <3>3 DEF WorkerInLeg, LegOwnsLock, Waits
    <3>5. Fresh(c)'
      BY <1>1, <2>1, <3>2, <3>3 DEF Kept, Fresh, NothingToSilence
    <3>6. Hushed(c)'
      BY <1>1, <2>1, <3>2, <3>3 DEF Kept, Hushed
    <3> QED
      BY <3>4, <3>5, <3>6 DEF Kept
  <2>2. CASE talk'[c] = (IF talk[c].alive THEN [talk[c] EXCEPT !.task = "none"] ELSE Gone) /\ Strand(c)
             /\ UNCHANGED <<turnLock, lapsed, silenced, spokenAfter, unheard>>
    BY <1>1, <2>2 DEF VoiceIInv, VoiceTyped, Talk, AcquireTurnLock, Does, Gone, Quiet, Strand, Kept,
         WorkerInLeg, LegOwnsLock, InLeg, Fresh, NothingToSilence, Hushed, Waits
  <2>3. CASE talk'[c] = PrepareSpeech(talk[c]) /\ lapsed' /\ UNCHANGED <<stranded, silenced, spokenAfter, unheard>>
    BY <1>1, <2>3 DEF VoiceIInv, VoiceTyped, Talk, AcquireTurnLock, Does, PrepareSpeech, Kept,
         WorkerInLeg, LegOwnsLock, InLeg, Fresh, NothingToSilence, Hushed, Waits
  <2> QED
    BY <1>1, <2>1, <2>2, <2>3 DEF AcquireTurnLock, Becomes
<1>4. StepOf(c, talk'[c])
  BY <1>1, <1>2, VoiceAssumption DEF VoiceIInv, VoiceTyped, Talk, AcquireTurnLock, Becomes, Does,
         Strand, StepOf, Kept, LegOwnsLock, InLeg
<1> QED
  BY <1>3, <1>4

LEMMA KnowBalancePreserves ==
  ASSUME VoiceIInv, NEW c \in Connections, KnowBalance(c)
  PROVE  StepOf(c, talk'[c]) /\ Kept(c)'
<1>1. /\ talk \in [Connections -> Talk] /\ talk[c] \in Talk /\ Kept(c)
      /\ talk' = [talk EXCEPT ![c] = talk'[c]]
  BY DEF VoiceIInv, VoiceTyped, KnowBalance, Becomes, Does
<1>2. talk'[c] \in Talk
  <2>1. PICK speech \in {"idle", "none"} :
               talk' = [talk EXCEPT ![c] = [talk[c] EXCEPT !.task = "generate", !.speech = speech]]
    BY DEF KnowBalance, Becomes
  <2> QED
    BY <1>1, <2>1, TalkUpdates
<1>3. Kept(c)'
  BY <1>1 DEF VoiceIInv, VoiceTyped, Talk, KnowBalance, Becomes, Does, voiceHistory, Kept, WorkerInLeg,
         LegOwnsLock, InLeg, Fresh, NothingToSilence, Hushed, Waits
<1>4. StepOf(c, talk'[c])
  BY <1>1, <1>2, VoiceAssumption DEF VoiceIInv, VoiceTyped, Talk, KnowBalance, Becomes, Does,
         voiceHistory, StepOf, Kept, LegOwnsLock, InLeg
<1> QED
  BY <1>3, <1>4

LEMMA TurnStartedPreserves ==
  ASSUME VoiceIInv, NEW c \in Connections, TurnStarted(c)
  PROVE  StepOf(c, talk'[c]) /\ Kept(c)'
<1>1. /\ talk \in [Connections -> Talk] /\ talk[c] \in Talk /\ Kept(c)
      /\ talk' = [talk EXCEPT ![c] = talk'[c]]
  BY DEF VoiceIInv, VoiceTyped, TurnStarted, Becomes, Does
<1>2. talk'[c] \in Talk
  BY <1>1 DEF VoiceIInv, VoiceTyped, Talk, TurnStarted, Becomes, Does
<1>3. Kept(c)'
  BY <1>1 DEF VoiceIInv, VoiceTyped, Talk, TurnStarted, Becomes, Does, voiceHistory, Kept, WorkerInLeg,
         LegOwnsLock, InLeg, Fresh, NothingToSilence, Hushed, Waits
<1>4. StepOf(c, talk'[c])
  BY <1>1, <1>2, VoiceAssumption DEF VoiceIInv, VoiceTyped, Talk, TurnStarted, Becomes, Does,
         voiceHistory, StepOf, Kept, LegOwnsLock, InLeg
<1> QED
  BY <1>3, <1>4

LEMMA OnDeltaPreserves ==
  ASSUME VoiceIInv, NEW c \in Connections, OnDelta(c)
  PROVE  StepOf(c, talk'[c]) /\ Kept(c)'
<1>1. /\ talk \in [Connections -> Talk] /\ talk[c] \in Talk /\ Kept(c)
      /\ talk' = [talk EXCEPT ![c] = talk'[c]]
  BY DEF VoiceIInv, VoiceTyped, OnDelta, Becomes, Does
<1>2. talk'[c] \in Talk
  <2>1. PICK task \in {"generate", "finish"} :
               talk' = [talk EXCEPT ![c] = [Fed(talk[c]) EXCEPT !.task = task]]
    BY DEF OnDelta, Becomes
  <2>2. Fed(talk[c]) \in Talk
    BY <1>1, FedTalk
  <2> QED
    BY <1>1, <2>1, <2>2, TalkUpdates
<1>3. Kept(c)'
  BY <1>1 DEF VoiceIInv, VoiceTyped, Talk, OnDelta, Becomes, Does, Fed, voiceHistory, Kept,
         WorkerInLeg, LegOwnsLock, InLeg, Fresh, NothingToSilence, Hushed, Waits
<1>4. StepOf(c, talk'[c])
  BY <1>1, <1>2, VoiceAssumption DEF VoiceIInv, VoiceTyped, Talk, OnDelta, Becomes, Does, voiceHistory,
         StepOf, Kept, LegOwnsLock, InLeg
<1> QED
  BY <1>3, <1>4

LEMMA HaveResultPreserves ==
  ASSUME VoiceIInv, NEW c \in Connections, HaveResult(c)
  PROVE  StepOf(c, talk'[c]) /\ Kept(c)'
<1>1. /\ talk \in [Connections -> Talk] /\ talk[c] \in Talk /\ Kept(c)
      /\ talk' = [talk EXCEPT ![c] = talk'[c]]
  BY DEF VoiceIInv, VoiceTyped, HaveResult, Becomes, Does
<1>2. talk'[c] \in Talk
  BY <1>1 DEF VoiceIInv, VoiceTyped, Talk, HaveResult, Becomes, Does
<1>3. Kept(c)'
  BY <1>1 DEF VoiceIInv, VoiceTyped, Talk, HaveResult, Becomes, Does, voiceHistory, Kept, WorkerInLeg,
         LegOwnsLock, InLeg, Fresh, NothingToSilence, Hushed, Waits
<1>4. StepOf(c, talk'[c])
  BY <1>1, <1>2, VoiceAssumption DEF VoiceIInv, VoiceTyped, Talk, HaveResult, Becomes, Does,
         voiceHistory, StepOf, Kept, LegOwnsLock, InLeg
<1> QED
  BY <1>3, <1>4

LEMMA TurnFailsPreserves ==
  ASSUME VoiceIInv, NEW c \in Connections, TurnFails(c)
  PROVE  StepOf(c, talk'[c]) /\ Kept(c)'
<1>1. /\ talk \in [Connections -> Talk] /\ talk[c] \in Talk /\ Kept(c)
      /\ talk' = [talk EXCEPT ![c] = talk'[c]]
  BY DEF VoiceIInv, VoiceTyped, TurnFails, Becomes, Does
<1>2. talk'[c] \in Talk
  BY <1>1 DEF VoiceIInv, VoiceTyped, Talk, TurnFails, Becomes, Does
<1>3. Kept(c)'
  BY <1>1 DEF VoiceIInv, VoiceTyped, Talk, TurnFails, Becomes, Does, voiceHistory, Kept, WorkerInLeg,
         LegOwnsLock, InLeg, Fresh, NothingToSilence, Hushed, Waits
<1>4. StepOf(c, talk'[c])
  BY <1>1, <1>2, VoiceAssumption DEF VoiceIInv, VoiceTyped, Talk, TurnFails, Becomes, Does,
         voiceHistory, StepOf, Kept, LegOwnsLock, InLeg
<1> QED
  BY <1>3, <1>4

LEMMA CloseTurnPreserves ==
  ASSUME VoiceIInv, NEW c \in Connections, CloseTurn(c)
  PROVE  StepOf(c, talk'[c]) /\ Kept(c)'
<1>1. /\ talk \in [Connections -> Talk] /\ talk[c] \in Talk /\ Kept(c)
      /\ talk' = [talk EXCEPT ![c] = talk'[c]]
  BY DEF VoiceIInv, VoiceTyped, CloseTurn, Becomes, Does, Closing
<1>2. talk'[c] \in Talk
  <2>1. CASE talk[c].alive
    <3>1. \A task \in {"spawned", "none"} :
            [talk[c] EXCEPT !.task = task, !.queued = FALSE, !.owns = FALSE,
                            !.speech = "none", !.words = FALSE, !.stopped = FALSE] \in Talk
      BY <1>1 DEF Talk
    <3> QED
      BY <1>1, <2>1, <3>1 DEF CloseTurn, Becomes, Closing
  <2>2. CASE ~talk[c].alive
    BY <1>1, <2>2, TalkUpdates DEF CloseTurn, Becomes, Closing
  <2> QED
    BY <2>1, <2>2
<1>3. Kept(c)'
  BY <1>1 DEF VoiceIInv, VoiceTyped, Talk, CloseTurn, Becomes, Does, Quiet, Gone, Closing,
         voiceHistory, Spoken, Kept, WorkerInLeg, LegOwnsLock, InLeg, Fresh, NothingToSilence,
         Hushed, Waits
<1>4. StepOf(c, talk'[c])
  BY <1>1, <1>2, VoiceAssumption DEF VoiceIInv, VoiceTyped, Talk, CloseTurn, Becomes, Does,
         voiceHistory, StepOf, Kept, LegOwnsLock, InLeg
<1> QED
  BY <1>3, <1>4

LEMMA SynthesizePreserves ==
  ASSUME VoiceIInv, NEW c \in Connections, Synthesize(c)
  PROVE  StepOf(c, talk'[c]) /\ Kept(c)'
<1>1. /\ talk \in [Connections -> Talk] /\ talk[c] \in Talk /\ Kept(c)
      /\ talk' = [talk EXCEPT ![c] = talk'[c]]
  BY DEF VoiceIInv, VoiceTyped, Synthesize, Becomes
<1>2. talk'[c] \in Talk
  <2>1. CASE talk' = [talk EXCEPT ![c] = [talk[c] EXCEPT !.words = FALSE, !.speech = "send"]]
    BY <1>1, <2>1, TalkUpdates
  <2>2. CASE \E stopped \in {talk[c].stopped, TRUE} :
               talk' = [talk EXCEPT ![c] = [talk[c] EXCEPT !.words = FALSE, !.stopped = stopped]]
    <3>1. talk[c].stopped \in BOOLEAN
      BY <1>1 DEF Talk
    <3>2. PICK stopped \in BOOLEAN :
                 talk' = [talk EXCEPT ![c] = [talk[c] EXCEPT !.words = FALSE, !.stopped = stopped]]
      BY <2>2, <3>1
    <3> QED
      BY <1>1, <3>2, TalkUpdates
  <2> QED
    BY <2>1, <2>2 DEF Synthesize, Becomes
<1>3. Kept(c)'
  <2>1. /\ talk'[c].task = talk[c].task /\ talk'[c].owns = talk[c].owns /\ talk'[c].alive = talk[c].alive
        /\ talk'[c].resumed = talk[c].resumed /\ talk'[c].turn = talk[c].turn
        /\ talk'[c].reason = talk[c].reason /\ talk'[c].queued = talk[c].queued
        /\ talk[c].speech = "idle" /\ talk'[c].speech # "none"
        /\ talk[c].stopped => talk'[c].stopped /\ talk'[c].speech # "send"
    <3>1. CASE ~talk[c].stopped /\ talk'[c] = [talk[c] EXCEPT !.words = FALSE, !.speech = "send"]
      BY <1>1, <3>1 DEF Talk, Synthesize
    <3>2. ASSUME NEW stopped \in {talk[c].stopped, TRUE},
                 talk'[c] = [talk[c] EXCEPT !.words = FALSE, !.stopped = stopped]
          PROVE  /\ talk'[c].task = talk[c].task /\ talk'[c].owns = talk[c].owns /\ talk'[c].alive = talk[c].alive
                 /\ talk'[c].resumed = talk[c].resumed /\ talk'[c].turn = talk[c].turn
                 /\ talk'[c].reason = talk[c].reason /\ talk'[c].queued = talk[c].queued
                 /\ talk[c].speech = "idle" /\ talk'[c].speech # "none"
                 /\ talk[c].stopped => talk'[c].stopped /\ talk'[c].speech # "send"
      <4>1. /\ talk'[c].task = talk[c].task /\ talk'[c].owns = talk[c].owns /\ talk'[c].alive = talk[c].alive
            /\ talk'[c].resumed = talk[c].resumed /\ talk'[c].turn = talk[c].turn
            /\ talk'[c].reason = talk[c].reason /\ talk'[c].queued = talk[c].queued
        BY <1>1, <3>2 DEF Talk
      <4>2. talk'[c].speech = talk[c].speech /\ talk'[c].stopped = stopped
        BY <1>1, <3>2 DEF Talk
      <4>3. talk[c].speech = "idle" /\ talk'[c].speech = "idle"
        BY <4>2 DEF Synthesize
      <4>4. talk[c].stopped => talk'[c].stopped
        BY <3>2, <4>2
      <4> QED
        BY <4>1, <4>3, <4>4
    <3> QED
      BY <1>1, <3>1, <3>2 DEF Synthesize, Becomes
  <2>2. UNCHANGED <<turnLock, voiceHistory>>
    BY DEF Synthesize
  <2> QED
    BY <1>1, <2>1, <2>2 DEF voiceHistory, Kept, WorkerInLeg, LegOwnsLock, InLeg, Fresh,
         NothingToSilence, Hushed, Waits
<1>4. StepOf(c, talk'[c])
  BY <1>1, <1>2, VoiceAssumption DEF VoiceIInv, VoiceTyped, Talk, Synthesize, Becomes, voiceHistory,
         StepOf, Kept, LegOwnsLock, InLeg
<1> QED
  BY <1>3, <1>4

LEMMA SendAudioPreserves ==
  ASSUME VoiceIInv, NEW c \in Connections, SendAudio(c)
  PROVE  StepOf(c, talk'[c]) /\ Kept(c)'
<1>1. /\ talk \in [Connections -> Talk] /\ talk[c] \in Talk /\ Kept(c)
      /\ talk' = [talk EXCEPT ![c] = talk'[c]]
  BY DEF VoiceIInv, VoiceTyped, SendAudio, Becomes
<1>2. talk'[c] \in Talk
  BY <1>1 DEF VoiceIInv, VoiceTyped, Talk, SendAudio, Becomes
<1>3. Kept(c)'
  BY <1>1 DEF VoiceIInv, VoiceTyped, Talk, SendAudio, Becomes, Kept, WorkerInLeg, LegOwnsLock, InLeg,
         Fresh, NothingToSilence, Hushed, Waits
<1>4. StepOf(c, talk'[c])
  BY <1>1, <1>2, VoiceAssumption DEF VoiceIInv, VoiceTyped, Talk, SendAudio, Becomes, StepOf, Kept,
         LegOwnsLock, InLeg
<1> QED
  BY <1>3, <1>4

LEMMA DisconnectPreserves ==
  ASSUME VoiceIInv, NEW c \in Connections, Disconnect(c)
  PROVE  StepOf(c, talk'[c]) /\ Kept(c)'
<1>1. /\ talk \in [Connections -> Talk] /\ talk[c] \in Talk /\ Kept(c)
      /\ talk' = [talk EXCEPT ![c] = talk'[c]]
  BY DEF VoiceIInv, VoiceTyped, Disconnect, Becomes
<1>2. talk'[c] \in Talk
  <2>1. CASE talk[c].task = "none"
    BY <1>1, <2>1, TalkUpdates DEF Disconnect, Becomes
  <2>2. CASE talk[c].task # "none"
    <3>1. \A stopped \in BOOLEAN :
            [talk[c] EXCEPT !.alive = FALSE, !.queued = FALSE, !.stopped = stopped] \in Talk
      BY <1>1 DEF Talk
    <3>2. (talk[c].speech # "none") \in BOOLEAN
      OBVIOUS
    <3> QED
      BY <1>1, <2>2, <3>1, <3>2 DEF Disconnect, Becomes
  <2> QED
    BY <2>1, <2>2
<1>3. Kept(c)'
  BY <1>1 DEF VoiceIInv, VoiceTyped, Talk, Disconnect, Becomes, Quiet, Gone, Unsaid, Kept, WorkerInLeg,
         LegOwnsLock, InLeg, Fresh, NothingToSilence, Hushed, Waits
<1>4. StepOf(c, talk'[c])
  BY <1>1, <1>2, VoiceAssumption DEF VoiceIInv, VoiceTyped, Talk, Disconnect, Becomes, Unsaid, StepOf,
         Kept, LegOwnsLock, InLeg
<1> QED
  BY <1>3, <1>4

LEMMA ConnectPreserves ==
  ASSUME VoiceIInv, NEW c \in Connections, Connect(c)
  PROVE  StepOf(c, talk'[c]) /\ Kept(c)'
<1>1. /\ talk \in [Connections -> Talk] /\ talk[c] \in Talk /\ Kept(c)
      /\ talk' = [talk EXCEPT ![c] = talk'[c]]
  BY DEF VoiceIInv, VoiceTyped, Connect, Becomes, Does
<1>2. talk'[c] \in Talk
  BY <1>1 DEF VoiceIInv, VoiceTyped, Talk, Connect, Becomes, Does, Quiet
<1>3. Kept(c)'
  BY <1>1 DEF VoiceIInv, VoiceTyped, Talk, Connect, Becomes, Does, Quiet, voiceHistory, Kept,
         WorkerInLeg, LegOwnsLock, InLeg, Fresh, NothingToSilence, Hushed, Waits
<1>4. StepOf(c, talk'[c])
  BY <1>1, <1>2, VoiceAssumption DEF VoiceIInv, VoiceTyped, Talk, Connect, Becomes, Does, voiceHistory,
         StepOf, Kept, LegOwnsLock, InLeg
<1> QED
  BY <1>3, <1>4

LEMMA PerishPreserves ==
  ASSUME VoiceIInv, NEW c \in Connections, Perish(c)
  PROVE  StepOf(c, talk'[c]) /\ Kept(c)'
<1>1. /\ talk \in [Connections -> Talk] /\ talk[c] \in Talk /\ Kept(c)
      /\ talk' = [talk EXCEPT ![c] = talk'[c]]
  BY DEF VoiceIInv, VoiceTyped, Perish, Becomes
<1>2. talk'[c] \in Talk
  BY <1>1 DEF VoiceIInv, VoiceTyped, Talk, Perish, Becomes, Quiet, Gone
<1>3. Kept(c)'
  BY <1>1 DEF VoiceIInv, VoiceTyped, Talk, Perish, Becomes, Quiet, Gone, Unsaid, Kept, WorkerInLeg,
         LegOwnsLock, InLeg, Fresh, NothingToSilence, Hushed, Waits
<1>4. StepOf(c, talk'[c])
  BY <1>1, <1>2, VoiceAssumption DEF VoiceIInv, VoiceTyped, Talk, Perish, Becomes, Unsaid, StepOf,
         Kept, LegOwnsLock, InLeg
<1> QED
  BY <1>3, <1>4

LEMMA LockRunsOutPreserves ==
  ASSUME VoiceIInv, LockRunsOut
  PROVE  VoiceIInv'
<1>1. VoiceTyped'
  <2>1. lapsed' \in BOOLEAN
    BY Zenon DEF LockRunsOut
  <2> QED
    BY <2>1 DEF VoiceIInv, VoiceTyped, LockRunsOut
<1>2. ASSUME NEW c \in Connections
      PROVE  Kept(c)'
  <2>1. LegOwnsLock(c)'
    BY DEF VoiceIInv, Kept, LegOwnsLock, InLeg, LockRunsOut, Legs
  <2> QED
    BY <2>1 DEF VoiceIInv, Kept, LockRunsOut, Fresh, Hushed, Waits
<1> QED
  BY <1>1, <1>2 DEF VoiceIInv

LEMMA VoiceStutters ==
  ASSUME VoiceIInv, UNCHANGED voiceVars
  PROVE  VoiceIInv'
  BY DEF voiceVars, VoiceIInv, VoiceTyped, Kept, LegOwnsLock, Fresh, Hushed, Waits

LEMMA VoiceInvariant == VoiceSpec => []VoiceIInv
<1>1. ASSUME VoiceIInv, NEW c \in Connections,
             \/ Utter(c) \/ Interrupt(c) \/ ToolResult(c)
             \/ NewTurn(c) \/ RefuseTurn(c) \/ AcquireTurnLock(c) \/ KnowBalance(c)
             \/ TurnStarted(c) \/ OnDelta(c) \/ HaveResult(c) \/ TurnFails(c) \/ CloseTurn(c)
             \/ Synthesize(c) \/ SendAudio(c)
             \/ Disconnect(c) \/ Connect(c) \/ Perish(c)
      PROVE  VoiceIInv'
  <2>1. StepOf(c, talk'[c]) /\ Kept(c)'
    BY <1>1, UtterPreserves, InterruptPreserves, ToolResultPreserves, NewTurnPreserves,
       RefuseTurnPreserves, AcquireTurnLockPreserves, KnowBalancePreserves, TurnStartedPreserves,
       OnDeltaPreserves, HaveResultPreserves, TurnFailsPreserves, CloseTurnPreserves,
       SynthesizePreserves, SendAudioPreserves, DisconnectPreserves, ConnectPreserves, PerishPreserves
  <2> QED
    BY <1>1, <2>1, StepPreserves
<1>2. VoiceIInv /\ [VoiceNext]_voiceVars => VoiceIInv'
  BY <1>1, LockRunsOutPreserves, VoiceStutters DEF VoiceNext
<1> QED
  BY <1>2, VoiceInitially, PTL DEF VoiceSpec

-----------------------------------------------------------------------------
(* The theorems.                                                           *)

\* A connection is in one of its positions and only a running leg has a worker (VoiceSession
\* of chat_voice.py and its speech pipeline), whatever the number of connections.
THEOREM VoiceIsTyped == VoiceSpec => []VoiceTypeOK
<1>1. VoiceIInv => VoiceTypeOK
  BY DEF VoiceIInv, VoiceTyped, Talk, Kept, WorkerInLeg, VoiceTypeOK, Legs
<1> QED
  BY <1>1, VoiceInvariant, PTL

\* The turn lock admits one leg at a time, on any number of connections, as long as no leg
\* outlives it (acquire_turn_lock and its release).
THEOREM LegsRunAlone == VoiceSpec => []OneLegAtATime
<1>1. VoiceIInv => OneLegAtATime
  <2> SUFFICES ASSUME VoiceIInv, ~lapsed PROVE Cardinality(Legs) <= 1
    BY DEF OneLegAtATime
  <2>1. Legs \subseteq {turnLock}
    BY DEF VoiceIInv, Kept, LegOwnsLock, InLeg, Legs
  <2>2. IsFiniteSet({turnLock}) /\ Cardinality({turnLock}) = 1
    BY FS_Singleton
  <2> QED
    BY <2>1, <2>2, FS_Subset
<1> QED
  BY <1>1, VoiceInvariant, PTL

\* An interrupted turn speaks at most the segment that was on its way (interrupt, and the
\* speech worker that looks at the stop last before it sends).
THEOREM InterruptedFallsSilent == VoiceSpec => []SilencedIsSilent
<1>1. VoiceIInv => SilencedIsSilent
  BY DEF VoiceIInv, VoiceTyped, Kept, Hushed, SilencedIsSilent
<1> QED
  BY <1>1, VoiceInvariant, PTL

\* An utterance that was accepted into the queue waits for a turn that is running (the end of
\* the turn's task takes it up).
THEOREM QueueWaitsForATurn == VoiceSpec => []QueuedIsServed
<1>1. VoiceIInv => QueuedIsServed
  BY DEF VoiceIInv, Kept, Waits, QueuedIsServed
<1> QED
  BY <1>1, VoiceInvariant, PTL

\* The three together, as the run checks them.
THEOREM VoiceStaysKept == VoiceSpec => []VoiceIsKept
  BY LegsRunAlone, InterruptedFallsSilent, QueueWaitsForATurn, PTL DEF VoiceIsKept

-----------------------------------------------------------------------------
(***************************************************************************)
(* Proofs about CardCheckout: a link that has been paid and forgotten is   *)
(* not kept again, and no payment falls between its callback and the first *)
(* registration of its device, for any number of requests, callbacks and   *)
(* links.                                                                  *)
(***************************************************************************)

USE DEF PaidLinks, CheckoutAssumption

-----------------------------------------------------------------------------
(* The strengthening.                                                      *)

Shopper == [stage : {"browse", "lock", "issue", "store", "unlock"},
            link : PaidLinks \cup {NoLink}, locked : BOOLEAN]
HookState == [stage : {"none", "verify", "credit", "answer"}, payment : PaidLinks \cup {NoLink},
              listed : SUBSET PaidLinks, gained : SUBSET PaidLinks]
Registration == [stage : {"none", "ask", "credit"}, listed : SUBSET PaidLinks]

CheckoutTyped ==
  /\ CheckoutTypeOK
  /\ shopper \in [Shoppers -> Shopper]
  /\ hook \in [Hooks -> HookState]
  /\ register \in Registration

\* A link that is about to be stored is in nobody else's hands.
StoredFirst ==
  \A c \in Shoppers :
    /\ shopper[c].stage \in {"store", "unlock"} => shopper[c].link \in 1..issued
    /\ shopper[c].stage = "store" =>
         /\ shopper[c].link \notin paid \cup handed \cup {cached}
         /\ \A d \in Shoppers \ {c} : shopper[d].stage \in {"store", "unlock"} =>
                                        shopper[d].link # shopper[c].link

CachedIsIssued == cached # NoLink => cached \in 1..issued

\* What a callback or a registration has listed was paid, what it has gained credited.
FromTheProvider ==
  /\ \A h \in Hooks :
       /\ hook[h].listed \subseteq paid /\ hook[h].gained \subseteq credited
       /\ hook[h].stage # "none" => hook[h].payment \in paid
  /\ register.listed \subseteq paid

\* A payment nobody has to be told about again.
Safe(p) ==
  \/ p \in credited \cup forgone
  \/ ~known
  \/ register.stage = "ask"
  \/ register.stage = "credit" /\ p \in register.listed

CallbacksAreSafe ==
  /\ \A p \in told : Safe(p)
  /\ \A h \in Hooks :
       /\ hook[h].stage = "credit" => hook[h].payment \in hook[h].listed \cup credited \cup forgone
       /\ hook[h].stage = "answer" => Safe(hook[h].payment)

CheckoutIInv ==
  /\ CheckoutTyped /\ StoredFirst /\ CachedIsIssued /\ PaidLinkIsForgotten
  /\ FromTheProvider /\ CallbacksAreSafe

LEMMA CheckoutInitially == CheckoutInit => CheckoutIInv
<1> SUFFICES ASSUME CheckoutInit PROVE CheckoutIInv
  OBVIOUS
<1> USE CheckoutAssumption
<1>1. CheckoutTyped
  <2>1. Browsing \in Shopper /\ NoCallback \in HookState /\ NoRegistration \in Registration
    BY DEF Shopper, HookState, Registration, Browsing, NoCallback, NoRegistration
  <2>2. CheckoutTypeOK
    <3>1. issued \in 0..MaxLinks
      BY SMT DEF CheckoutInit
    <3>4. known \in BOOLEAN
      BY Zenon DEF CheckoutInit
    <3>2. cached \in PaidLinks \cup {NoLink} /\ lock \in Shoppers \cup {NoLink}
      BY DEF CheckoutInit
    <3>3. /\ credited \subseteq paid /\ told \subseteq paid /\ paid \subseteq 1..issued
          /\ handed \subseteq 1..issued \ paid /\ dropped \subseteq credited /\ forgone \subseteq paid \ credited
      BY DEF CheckoutInit
    <3> QED
      BY <3>1, <3>2, <3>3, <3>4 DEF CheckoutTypeOK
  <2> QED
    BY <2>1, <2>2 DEF CheckoutInit, CheckoutTyped
<1>2. StoredFirst /\ CachedIsIssued /\ PaidLinkIsForgotten
  BY DEF CheckoutInit, StoredFirst, CachedIsIssued, PaidLinkIsForgotten, Browsing
<1>3. FromTheProvider /\ CallbacksAreSafe
  BY DEF CheckoutInit, FromTheProvider, CallbacksAreSafe, NoCallback, NoRegistration
<1> QED
  BY <1>1, <1>2, <1>3 DEF CheckoutIInv

-----------------------------------------------------------------------------
(* The two sides share only what is paid, issued and handed out.           *)

LinkStep ==
  \/ \E c \in Shoppers : \/ Look(c) \/ Lock(c) \/ Issue(c) \/ IssueFails(c) \/ Store(c) \/ Hand(c)
                         \/ AbandonCheckout(c)
  \/ ExpireLock \/ ExpireLinks

HookStep(h) ==
  \/ \E p \in PaidLinks : Callback(h, p)
  \/ Verify(h) \/ CreditOne(h) \/ Forget(h) \/ Answer(h) \/ Refuse(h)

RegisterStep == RegisterDevice \/ SignIn \/ AskPayments \/ ReconcileOne \/ ReconcileFails

LEMMA ShopsTyped ==
  ASSUME shopper \in [Shoppers -> Shopper], NEW c \in Shoppers, NEW what \in Shopper, Shops(c, what)
  PROVE  shopper' \in [Shoppers -> Shopper]
  BY DEF Shops

LEMMA LinkTyped ==
  ASSUME CheckoutIInv, LinkStep
  PROVE  CheckoutTyped' /\ CachedIsIssued' /\ PaidLinkIsForgotten'
<1>1. hook' \in [Hooks -> HookState] /\ register' \in Registration /\ UNCHANGED moneySide
  BY DEF CheckoutIInv, CheckoutTyped, LinkStep, Look, Lock, Issue, IssueFails, Store, Hand, AbandonCheckout,
         ExpireLock, ExpireLinks, moneySide
<1>2. shopper' \in [Shoppers -> Shopper]
  <2>1. ASSUME NEW c \in Shoppers
        PROVE  /\ Browsing \in Shopper /\ [Browsing EXCEPT !.stage = "lock"] \in Shopper
               /\ \A stage \in {"issue", "store", "unlock"}, link \in PaidLinks :
                    /\ [shopper[c] EXCEPT !.stage = stage] \in Shopper
                    /\ [shopper[c] EXCEPT !.stage = stage, !.locked = TRUE] \in Shopper
                    /\ [shopper[c] EXCEPT !.stage = stage, !.link = link] \in Shopper
    BY DEF CheckoutIInv, CheckoutTyped, Shopper, Browsing
  <2>2. PaidLinks # {} /\ issued \in 0..MaxLinks
    BY CheckoutAssumption DEF CheckoutIInv, CheckoutTyped, CheckoutTypeOK
  <2>3. shopper \in [Shoppers -> Shopper]
    BY DEF CheckoutIInv, CheckoutTyped
  <2>4. ASSUME NEW c \in Shoppers, Look(c)
        PROVE  shopper' \in [Shoppers -> Shopper]
    BY <2>1, <2>3, <2>4, ShopsTyped DEF Look
  <2>5. ASSUME NEW c \in Shoppers, Lock(c)
        PROVE  shopper' \in [Shoppers -> Shopper]
    BY <2>1, <2>2, <2>3, <2>5, ShopsTyped DEF Lock
  <2>6. ASSUME NEW c \in Shoppers, IssueFails(c) \/ Hand(c) \/ AbandonCheckout(c)
        PROVE  shopper' \in [Shoppers -> Shopper]
    BY <2>1, <2>3, <2>6, ShopsTyped DEF IssueFails, Hand, AbandonCheckout
  <2>7. ASSUME NEW c \in Shoppers, Issue(c)
        PROVE  shopper' \in [Shoppers -> Shopper]
    <3>1. issued + 1 \in PaidLinks
      BY <2>2, <2>7, CheckoutAssumption DEF Issue
    <3> QED
      BY <2>1, <2>3, <2>7, <3>1, ShopsTyped DEF Issue
  <2>8. ASSUME NEW c \in Shoppers, Store(c)
        PROVE  shopper' \in [Shoppers -> Shopper]
    BY <2>1, <2>2, <2>3, <2>8, ShopsTyped DEF Store
  <2>9. CASE ExpireLock \/ ExpireLinks
    BY <2>3, <2>9 DEF ExpireLock, ExpireLinks
  <2> QED
    BY <2>4, <2>5, <2>6, <2>7, <2>8, <2>9 DEF LinkStep
<1>3. CheckoutTypeOK' /\ CachedIsIssued' /\ PaidLinkIsForgotten'
  <2> USE CheckoutAssumption, <1>1
      DEF CheckoutIInv, CheckoutTyped, CheckoutTypeOK, CachedIsIssued, PaidLinkIsForgotten, StoredFirst, moneySide
  <2>1. ASSUME NEW c \in Shoppers, Look(c) \/ Lock(c) \/ Issue(c) \/ IssueFails(c) \/ AbandonCheckout(c)
        PROVE  CheckoutTypeOK' /\ CachedIsIssued' /\ PaidLinkIsForgotten'
    BY <2>1 DEF Look, Lock, Issue, IssueFails, AbandonCheckout
  <2>2. ASSUME NEW c \in Shoppers, Store(c) \/ Hand(c)
        PROVE  CheckoutTypeOK' /\ CachedIsIssued' /\ PaidLinkIsForgotten'
    <3>1. shopper[c].link \in 1..issued
      BY <2>2 DEF Store, Hand
    <3> QED
      BY <2>2, <3>1 DEF Store, Hand
  <2>3. CASE ExpireLock
    BY <2>3 DEF ExpireLock
  <2>4. CASE ExpireLinks
    <3>1. NoLink \notin dropped
      <4>1. dropped \subseteq 1..issued
        OBVIOUS
      <4>2. 1..issued \subseteq Nat
        OBVIOUS
      <4>3. NoLink \notin Nat
        OBVIOUS
      <4> QED
        BY <4>1, <4>2, <4>3
    <3>2. UNCHANGED <<issued, lock, handed, moneySide>> /\ cached' = NoLink
      BY <2>4 DEF ExpireLinks
    <3>3. CachedIsIssued' /\ PaidLinkIsForgotten'
      BY <3>1, <3>2
    <3>4. CheckoutTypeOK'
      BY <3>2
    <3> QED
      BY <3>3, <3>4
  <2> QED
    BY <2>1, <2>2, <2>3, <2>4 DEF LinkStep
<1> QED
  BY <1>1, <1>2, <1>3 DEF CheckoutTyped

LEMMA LinkKeepsStoredFirst ==
  ASSUME CheckoutIInv, LinkStep
  PROVE  StoredFirst'
<1> USE CheckoutAssumption DEF moneySide, Shops, CheckoutIInv, CheckoutTyped, CheckoutTypeOK, Shopper, Browsing
<1>1. ASSUME NEW c \in Shoppers, Look(c)
      PROVE  StoredFirst'
  BY <1>1 DEF Look, StoredFirst
<1>2. ASSUME NEW c \in Shoppers, Lock(c) \/ IssueFails(c) \/ AbandonCheckout(c)
      PROVE  StoredFirst'
  <2>1. /\ shopper' = [shopper EXCEPT ![c] = shopper'[c]]
        /\ shopper'[c].stage \notin {"store", "unlock"}
        /\ UNCHANGED <<issued, paid, handed, cached>>
    <3>1. CASE Lock(c)
      <4>1. /\ Browsing.stage = "browse"
            /\ [shopper[c] EXCEPT !.stage = "issue"].stage = "issue"
            /\ [shopper[c] EXCEPT !.stage = "issue", !.locked = TRUE].stage = "issue"
        OBVIOUS
      <4>2. \E what : Shops(c, what) /\ what.stage \notin {"store", "unlock"}
        BY <3>1, <4>1 DEF Lock
      <4> QED
        BY <3>1, <4>2 DEF Lock
    <3>2. CASE IssueFails(c) \/ AbandonCheckout(c)
      BY <3>2 DEF IssueFails, AbandonCheckout
    <3> QED
      BY <1>2, <3>1, <3>2
  <2> QED
    BY <2>1 DEF StoredFirst
<1>3. ASSUME NEW c \in Shoppers, Issue(c)
      PROVE  StoredFirst'
  <2>1. issued + 1 \notin paid \cup handed \cup {cached}
    BY DEF CachedIsIssued
  <2>2. shopper' = [shopper EXCEPT ![c] = shopper'[c]] /\ shopper'[c].stage = "store"
        /\ shopper'[c].link = issued + 1 /\ issued' = issued + 1
        /\ UNCHANGED <<paid, handed, cached>>
    BY <1>3 DEF Issue
  <2> QED
    BY <2>1, <2>2 DEF StoredFirst
<1>4. ASSUME NEW c \in Shoppers, Store(c)
      PROVE  StoredFirst'
  BY <1>4 DEF Store, StoredFirst
<1>5. ASSUME NEW c \in Shoppers, Hand(c)
      PROVE  StoredFirst'
  BY <1>5 DEF Hand, StoredFirst
<1>6. CASE ExpireLock \/ ExpireLinks
  BY <1>6 DEF ExpireLock, ExpireLinks, StoredFirst
<1> QED
  BY <1>1, <1>2, <1>3, <1>4, <1>5, <1>6 DEF LinkStep

LEMMA LinkPreserves ==
  ASSUME CheckoutIInv, LinkStep
  PROVE  CheckoutIInv'
<1>1. UNCHANGED moneySide
  BY DEF LinkStep, Look, Lock, Issue, IssueFails, Store, Hand, AbandonCheckout, ExpireLock, ExpireLinks
<1>2. (FromTheProvider /\ CallbacksAreSafe)'
  BY <1>1 DEF moneySide, CheckoutIInv, FromTheProvider, CallbacksAreSafe, Safe
<1> QED
  BY <1>2, LinkTyped, LinkKeepsStoredFirst DEF CheckoutIInv

LEMMA PaymentPreserves ==
  ASSUME CheckoutIInv, PayElsewhere \/ \E l \in PaidLinks : Pay(l)
  PROVE  CheckoutIInv'
<1> USE CheckoutAssumption DEF CheckoutIInv, CheckoutTyped, CheckoutTypeOK
<1>1. CASE PayElsewhere
  <2>1. CheckoutTyped' /\ CachedIsIssued' /\ PaidLinkIsForgotten'
    BY <1>1 DEF PayElsewhere, CachedIsIssued, PaidLinkIsForgotten
  <2>2. StoredFirst'
    BY <1>1 DEF PayElsewhere, StoredFirst
  <2>3. FromTheProvider' /\ CallbacksAreSafe'
    BY <1>1 DEF PayElsewhere, FromTheProvider, CallbacksAreSafe, Safe
  <2> QED
    BY <2>1, <2>2, <2>3
<1>2. ASSUME NEW l \in PaidLinks, Pay(l)
      PROVE  CheckoutIInv'
  <2>1. CheckoutTyped' /\ CachedIsIssued' /\ PaidLinkIsForgotten'
    BY <1>2 DEF Pay, CachedIsIssued, PaidLinkIsForgotten
  <2>2. StoredFirst'
    BY <1>2 DEF Pay, StoredFirst
  <2>3. FromTheProvider' /\ CallbacksAreSafe'
    BY <1>2 DEF Pay, FromTheProvider, CallbacksAreSafe, Safe
  <2> QED
    BY <2>1, <2>2, <2>3
<1> QED
  BY <1>1, <1>2

-----------------------------------------------------------------------------
(* Callbacks and registrations.                                            *)

LEMMA HookPreserves ==
  ASSUME CheckoutIInv, NEW h \in Hooks, HookStep(h)
  PROVE  CheckoutIInv'
<1> USE CheckoutAssumption DEF CheckoutIInv, CheckoutTyped, CheckoutTypeOK, HookState, Hooked, NoCallback, linkSide
<1>1. ASSUME NEW p \in PaidLinks, Callback(h, p)
      PROVE  CheckoutIInv'
  <2>1. PICK stage \in {"verify", "answer"} :
           /\ Hooked(h, [NoCallback EXCEPT !.stage = stage, !.payment = p])
           /\ stage = "answer" /\ known => LeaveOut({p})
           /\ ~(stage = "answer" /\ known) => UNCHANGED forgone
    BY <1>1 DEF Callback
  <2>2. /\ forgone \subseteq forgone' /\ forgone' \subseteq paid \ credited
        /\ stage = "answer" /\ known => p \in credited \cup forgone'
    BY <1>1, <2>1 DEF Callback, LeaveOut
  <2>3. hook' \in [Hooks -> HookState] /\ p \in paid
    BY <1>1, <2>1 DEF Callback
  <2>4. CheckoutTyped' /\ CachedIsIssued' /\ PaidLinkIsForgotten' /\ StoredFirst'
    BY <1>1, <2>2, <2>3 DEF Callback, CachedIsIssued, PaidLinkIsForgotten, StoredFirst
  <2>5. FromTheProvider'
    BY <1>1, <2>1, <2>3 DEF Callback, FromTheProvider
  <2>6. CallbacksAreSafe'
    BY <1>1, <2>1, <2>2 DEF Callback, CallbacksAreSafe, Safe
  <2> QED
    BY <2>4, <2>5, <2>6
<1>2. CASE Verify(h)
  <2> PICK listed \in SUBSET paid :
         /\ Hooked(h, [hook[h] EXCEPT !.stage = "credit", !.listed = listed])
         /\ LeaveOut({hook[h].payment} \ listed)
    BY <1>2 DEF Verify
  <2>1. hook' \in [Hooks -> HookState]
    <3>1. listed \in SUBSET PaidLinks
      <4>1. listed \subseteq 1..issued /\ issued \in 0..MaxLinks
        OBVIOUS
      <4>2. 1..issued \subseteq 1..MaxLinks
        BY <4>1
      <4> QED
        BY <4>1, <4>2
    <3> HIDE DEF PaidLinks, CheckoutTypeOK
    <3>2. [hook[h] EXCEPT !.stage = "credit", !.listed = listed] \in HookState
      BY <3>1
    <3> QED
      BY <1>2, <3>2 DEF Verify
  <2>2. forgone \subseteq forgone' /\ forgone' \subseteq paid \ credited
    BY <1>2 DEF Verify, LeaveOut, FromTheProvider
  <2>3. CheckoutTyped' /\ CachedIsIssued' /\ PaidLinkIsForgotten' /\ StoredFirst'
    BY <1>2, <2>1, <2>2 DEF Verify, CachedIsIssued, PaidLinkIsForgotten, StoredFirst
  <2>4. FromTheProvider'
    BY <1>2 DEF Verify, FromTheProvider
  <2>5. CallbacksAreSafe'
    BY <1>2, <2>2 DEF Verify, LeaveOut, CallbacksAreSafe, Safe
  <2> QED
    BY <2>3, <2>4, <2>5
<1>3. CASE CreditOne(h)
  <2>5. PICK p \in hook[h].listed :
          \/ /\ credited' = credited \cup {p} /\ forgone' = forgone \ {p}
             /\ Hooked(h, [hook[h] EXCEPT !.listed = @ \ {p}, !.gained = @ \cup ({p} \ credited)])
          \/ /\ LeaveOut({p} \cap {hook[h].payment}) /\ UNCHANGED credited
             /\ Hooked(h, [hook[h] EXCEPT !.listed = @ \ {p}])
    BY <1>3 DEF CreditOne
  <2>1. p \in paid /\ p \in PaidLinks
    BY DEF FromTheProvider
  <2>2. CheckoutTyped'
    <3>1. [hook[h] EXCEPT !.listed = @ \ {p}, !.gained = @ \cup ({p} \ credited)] \in HookState
      BY <2>1
    <3>4. [hook[h] EXCEPT !.listed = @ \ {p}] \in HookState
      BY <2>1
    <3>2. hook' \in [Hooks -> HookState]
      BY <2>5, <3>1, <3>4
    <3>3. CheckoutTypeOK' /\ shopper' \in [Shoppers -> Shopper] /\ register' \in Registration
      BY <1>3, <2>1, <2>5 DEF CreditOne, LeaveOut
    <3> QED
      BY <3>2, <3>3
  <2>3. CachedIsIssued' /\ PaidLinkIsForgotten' /\ StoredFirst'
    BY <1>3 DEF CreditOne, CachedIsIssued, PaidLinkIsForgotten, StoredFirst
  <2>4. CASE /\ credited' = credited \cup {p} /\ forgone' = forgone \ {p}
             /\ Hooked(h, [hook[h] EXCEPT !.listed = @ \ {p}, !.gained = @ \cup ({p} \ credited)])
    BY <1>3, <2>2, <2>3, <2>4 DEF CreditOne, FromTheProvider, CallbacksAreSafe, Safe
  <2>6. CASE /\ LeaveOut({p} \cap {hook[h].payment}) /\ UNCHANGED credited
             /\ Hooked(h, [hook[h] EXCEPT !.listed = @ \ {p}])
    <3>1. UNCHANGED <<paid, told, known, register, credited>>
      BY <1>3, <2>6 DEF CreditOne
    <3>2. /\ \A g \in Hooks \ {h} : hook'[g] = hook[g]
          /\ hook'[h].stage = "credit" /\ hook'[h].payment = hook[h].payment
          /\ hook'[h].listed = hook[h].listed \ {p} /\ hook'[h].gained = hook[h].gained
      BY <1>3, <2>6 DEF CreditOne
    <3>3. forgone \subseteq forgone' /\ (p = hook[h].payment => p \in credited \cup forgone')
      BY <2>6 DEF LeaveOut
    <3>4. FromTheProvider'
      <4>1. ASSUME NEW g \in Hooks
            PROVE  /\ hook'[g].listed \subseteq hook[g].listed /\ hook'[g].gained = hook[g].gained
                   /\ hook'[g].stage # "none" => hook[g].stage # "none"
                   /\ hook'[g].payment = hook[g].payment
        <5>1. CASE g = h
          BY <1>3, <3>2, <5>1 DEF CreditOne
        <5>2. CASE g # h
          BY <3>2, <5>2
        <5> QED
          BY <5>1, <5>2
      <4>2. FromTheProvider
        OBVIOUS
      <4> HIDE DEF CheckoutIInv, CheckoutTyped, CheckoutTypeOK, Hooked, NoCallback, linkSide
      <4> QED
        BY <3>1, <4>1, <4>2 DEF FromTheProvider
    <3>5. CallbacksAreSafe'
      BY <3>1, <3>2, <3>3, <1>3 DEF CreditOne, CallbacksAreSafe, Safe
    <3> QED
      BY <2>2, <2>3, <3>4, <3>5
  <2> QED
    BY <2>4, <2>5, <2>6
<1>4. CASE Forget(h)
  <2>1. hook[h].gained \subseteq credited
    BY DEF FromTheProvider
  <2>2. hook' \in [Hooks -> HookState]
    <3>1. hook[h] \in HookState
      OBVIOUS
    <3> HIDE DEF CheckoutIInv, CheckoutTyped, CheckoutTypeOK, Hooked, NoCallback, linkSide
    <3>2. [hook[h] EXCEPT !.stage = "answer", !.gained = {}] \in HookState
      BY <3>1
    <3> USE DEF CheckoutIInv, CheckoutTyped, CheckoutTypeOK, Hooked
    <3> QED
      BY <1>4, <3>2 DEF Forget
  <2>3. CheckoutTyped' /\ CachedIsIssued' /\ PaidLinkIsForgotten'
    BY <1>4, <2>1, <2>2 DEF Forget, CachedIsIssued, PaidLinkIsForgotten
  <2>4. StoredFirst'
    BY <1>4 DEF Forget, StoredFirst
  <2>5. FromTheProvider' /\ CallbacksAreSafe'
    BY <1>4 DEF Forget, FromTheProvider, CallbacksAreSafe, Safe
  <2> QED
    BY <2>3, <2>4, <2>5
<1>5. CASE Answer(h)
  <2>1. hook[h].payment \in paid
    BY <1>5 DEF Answer, FromTheProvider
  <2>2. CheckoutTyped' /\ CachedIsIssued' /\ PaidLinkIsForgotten' /\ StoredFirst'
    BY <1>5, <2>1 DEF Answer, CachedIsIssued, PaidLinkIsForgotten, StoredFirst
  <2>3. FromTheProvider' /\ CallbacksAreSafe'
    BY <1>5 DEF Answer, FromTheProvider, CallbacksAreSafe, Safe
  <2> QED
    BY <2>2, <2>3
<1>6. CASE Refuse(h)
  <2>1. CheckoutTyped' /\ CachedIsIssued' /\ PaidLinkIsForgotten' /\ StoredFirst'
    BY <1>6 DEF Refuse, CachedIsIssued, PaidLinkIsForgotten, StoredFirst
  <2>2. FromTheProvider' /\ CallbacksAreSafe'
    BY <1>6 DEF Refuse, FromTheProvider, CallbacksAreSafe, Safe
  <2> QED
    BY <2>1, <2>2
<1> QED
  BY <1>1, <1>2, <1>3, <1>4, <1>5, <1>6 DEF HookStep

LEMMA RegisterPreserves ==
  ASSUME CheckoutIInv, RegisterStep
  PROVE  CheckoutIInv'
<1> USE CheckoutAssumption DEF CheckoutIInv, CheckoutTyped, CheckoutTypeOK, Registration, NoRegistration, linkSide
<1>0. Answered \subseteq paid
  <2> SUFFICES ASSUME NEW p \in Answered PROVE p \in paid
    OBVIOUS
  <2>1. told \subseteq paid
    OBVIOUS
  <2>2. \A g \in Hooks : hook[g].stage = "answer" => hook[g].payment \in paid
    BY DEF FromTheProvider
  <2>3. p \in told \/ \E g \in Hooks : hook[g].stage = "answer" /\ p = hook[g].payment
    BY Zenon DEF Answered
  <2> HIDE DEF CheckoutIInv, CheckoutTyped, CheckoutTypeOK
  <2> QED
    BY <2>1, <2>2, <2>3
<1>1. CASE RegisterDevice
  <2>1. CheckoutTyped' /\ CachedIsIssued' /\ PaidLinkIsForgotten' /\ StoredFirst'
    BY <1>1 DEF RegisterDevice, CachedIsIssued, PaidLinkIsForgotten, StoredFirst
  <2>2. FromTheProvider' /\ CallbacksAreSafe'
    BY <1>1 DEF RegisterDevice, FromTheProvider, CallbacksAreSafe, Safe
  <2> QED
    BY <2>1, <2>2
<1>5. CASE SignIn
  <2>1. CheckoutTyped' /\ CachedIsIssued' /\ PaidLinkIsForgotten' /\ StoredFirst'
    BY <1>0, <1>5 DEF SignIn, LeaveOut, CachedIsIssued, PaidLinkIsForgotten, StoredFirst
  <2>2. FromTheProvider'
    BY <1>5 DEF SignIn, FromTheProvider
  <2>3. CallbacksAreSafe'
    BY <1>5 DEF SignIn, LeaveOut, Answered, CallbacksAreSafe, Safe
  <2> QED
    BY <2>1, <2>2, <2>3
<1>2. CASE AskPayments
  <2> PICK listed \in SUBSET paid :
         /\ register' = [stage |-> "credit", listed |-> listed]
         /\ LeaveOut(Answered \ listed)
    BY <1>2 DEF AskPayments
  <2>1. CheckoutTyped' /\ CachedIsIssued' /\ PaidLinkIsForgotten' /\ StoredFirst'
    BY <1>0, <1>2 DEF AskPayments, LeaveOut, CachedIsIssued, PaidLinkIsForgotten, StoredFirst
  <2>2. FromTheProvider'
    BY <1>2 DEF AskPayments, FromTheProvider
  <2>3. CallbacksAreSafe'
    BY <1>2 DEF AskPayments, LeaveOut, Answered, CallbacksAreSafe, Safe
  <2> QED
    BY <2>1, <2>2, <2>3
<1>3. CASE ReconcileOne
  <2>1. CheckoutTyped'
    BY <1>0, <1>3 DEF ReconcileOne, LeaveOut, FromTheProvider
  <2>2. CachedIsIssued' /\ PaidLinkIsForgotten' /\ StoredFirst'
    BY <1>3 DEF ReconcileOne, CachedIsIssued, PaidLinkIsForgotten, StoredFirst
  <2>3. FromTheProvider'
    <3>1. UNCHANGED <<hook, paid>> /\ register'.listed \subseteq register.listed
      <4>1. ASSUME NEW p, register' = [register EXCEPT !.listed = @ \ {p}]
            PROVE  register'.listed \subseteq register.listed
        BY <4>1
      <4>2. ASSUME register' = NoRegistration
            PROVE  register'.listed \subseteq register.listed
        BY <4>2
      <4> HIDE DEF CheckoutIInv, CheckoutTyped, CheckoutTypeOK, NoRegistration, LeaveOut
      <4> QED
        BY <1>3, <4>1, <4>2 DEF ReconcileOne
    <3>2. credited \subseteq credited'
      BY <1>3 DEF ReconcileOne
    <3> QED
      BY <3>1, <3>2 DEF FromTheProvider
  <2>4. CallbacksAreSafe'
    BY <1>3 DEF ReconcileOne, LeaveOut, Answered, CallbacksAreSafe, Safe
  <2> QED
    BY <2>1, <2>2, <2>3, <2>4
<1>4. CASE ReconcileFails
  <2>1. CheckoutTyped' /\ CachedIsIssued' /\ PaidLinkIsForgotten' /\ StoredFirst'
    BY <1>0, <1>4 DEF ReconcileFails, LeaveOut, CachedIsIssued, PaidLinkIsForgotten, StoredFirst
  <2>2. FromTheProvider' /\ CallbacksAreSafe'
    BY <1>4 DEF ReconcileFails, LeaveOut, Answered, FromTheProvider, CallbacksAreSafe, Safe
  <2> QED
    BY <2>1, <2>2
<1> QED
  BY <1>1, <1>2, <1>3, <1>4, <1>5 DEF RegisterStep

-----------------------------------------------------------------------------
(* The theorems.                                                           *)

LEMMA CheckoutStutters ==
  ASSUME CheckoutIInv, UNCHANGED checkoutVars
  PROVE  CheckoutIInv'
  BY DEF checkoutVars, CheckoutIInv, CheckoutTyped, CheckoutTypeOK, StoredFirst, CachedIsIssued,
         PaidLinkIsForgotten, FromTheProvider, CallbacksAreSafe, Safe

LEMMA CheckoutInvariant == CheckoutSpec => []CheckoutIInv
<1>1. ASSUME CheckoutIInv, [CheckoutNext]_checkoutVars
      PROVE  CheckoutIInv'
  BY <1>1, LinkPreserves, PaymentPreserves, HookPreserves, RegisterPreserves, CheckoutStutters
     DEF CheckoutNext, LinkStep, HookStep, RegisterStep
<1> QED
  BY <1>1, CheckoutInitially, PTL DEF CheckoutSpec

\* Every variable stays in its range: what is credited, told or forgone was paid, and a link
\* is handed out no more once it is paid (the collections of CardCheckout, whatever the
\* number of shoppers, callbacks and links).
THEOREM CheckoutIsTyped == CheckoutSpec => []CheckoutTypeOK
<1>1. CheckoutIInv => CheckoutTypeOK
  BY DEF CheckoutIInv, CheckoutTyped
<1> QED
  BY <1>1, CheckoutInvariant, PTL

\* No link whose payment was credited, and the links forgotten after it, is handed out again
\* from Redis: it was stored before it was handed out (create_payment_link).
THEOREM PaidLinkStaysForgotten == CheckoutSpec => []PaidLinkIsForgotten
<1>1. CheckoutIInv => PaidLinkIsForgotten
  BY DEF CheckoutIInv
<1> QED
  BY <1>1, CheckoutInvariant, PTL

\* A payment whose callback had its 200 is credited, or a registration is still to come, or at
\* it, that looks for it; or it was looked for last and left out, by the selection, as skipped,
\* or by a sign-in that asked nothing (handle, reconcile_device and _reconcile_ru_payments).
THEOREM NoPaymentIsLost == CheckoutSpec => []NoPaymentFallsBetween
<1>1. CheckoutIInv => NoPaymentFallsBetween
  BY DEF CheckoutIInv, CallbacksAreSafe, Safe, NoPaymentFallsBetween
<1> QED
  BY <1>1, CheckoutInvariant, PTL

===============================================================================
