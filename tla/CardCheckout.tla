---------------------------- MODULE CardCheckout ----------------------------
(***************************************************************************)
(* A purchase by card, between us and the payment provider: the link a     *)
(* user is given, kept in Redis for a while and given again; the payment;  *)
(* the callback, which asks the provider what was paid and credits it; and *)
(* the first registration of a device, which asks too, for the callbacks   *)
(* that came before there was a user.                                      *)
(***************************************************************************)
EXTENDS Naturals, FiniteSets

CONSTANTS
  Shoppers,     \* checkout requests of one user for one product
  Hooks,        \* callbacks being served
  MaxLinks,     \* bound: links the provider issues
  NoLink

ASSUME CheckoutAssumption == MaxLinks \in Nat \ {0} /\ NoLink \notin Nat \cup Shoppers \cup Hooks

VARIABLES
  issued,       \* links issued, numbered; the payment of a link has its number
  paid,         \* what has been paid at the provider
  known,        \* the user of the device exists
  credited,     \* payments recorded and credited
  told,         \* callbacks the provider had a 200 for: it does not repeat them
  cached,       \* the link in Redis
  lock,         \* who set the lock in Redis
  shopper, hook,
  register,     \* the registration and its reconciliation
  handed,       \* unpaid links a shopper has been given
  dropped,      \* history: payments whose credit was followed by the forgetting of links
  forgone       \* history: payments left out where they were looked for last: not in the
                \* selection, skipped, or no reconciliation asked or finished

checkoutVars == <<issued, paid, known, credited, told, cached, lock, shopper, hook, register,
                  handed, dropped, forgone>>

-----------------------------------------------------------------------------

PaidLinks == 1..MaxLinks

Browsing == [stage |-> "browse", link |-> NoLink, locked |-> FALSE]
NoCallback == [stage |-> "none", payment |-> NoLink, listed |-> {}, gained |-> {}]
NoRegistration == [stage |-> "none", listed |-> {}]

CheckoutInit ==
  /\ issued = 0 /\ paid = {} /\ known = FALSE
  /\ credited = {} /\ told = {}
  /\ cached = NoLink /\ lock = NoLink
  /\ shopper = [c \in Shoppers |-> Browsing]
  /\ hook = [h \in Hooks |-> NoCallback]
  /\ register = NoRegistration
  /\ handed = {} /\ dropped = {} /\ forgone = {}

moneySide == <<paid, known, credited, told, hook, register, dropped, forgone>>
linkSide == <<issued, cached, lock, shopper, handed>>

\* Payments whose callback is answered, or has nothing left but to be.
Answered == told \cup {hook[h].payment : h \in {g \in Hooks : hook[g].stage = "answer"}}

LeaveOut(payments) == forgone' = forgone \cup (payments \ credited)

Shops(c, what) == shopper' = [shopper EXCEPT ![c] = what]

-----------------------------------------------------------------------------
(* create_payment_link                                                     *)

\* A cached link is handed out as it is; else the lock; else the poll goes on.
Look(c) ==
  /\ shopper[c].stage = "browse" /\ known
  /\ \/ /\ cached # NoLink
        /\ handed' = handed \cup ({cached} \ paid)
        /\ UNCHANGED <<lock, shopper>>
     \/ /\ cached = NoLink
        /\ Shops(c, [Browsing EXCEPT !.stage = "lock"])
        /\ UNCHANGED <<lock, handed>>
  /\ UNCHANGED <<issued, cached, moneySide>>

\* SET NX; after twenty seconds, and without Redis, a link is issued with no lock.
Lock(c) ==
  /\ shopper[c].stage = "lock"
  /\ \/ /\ lock = NoLink /\ lock' = c
        /\ Shops(c, [shopper[c] EXCEPT !.stage = "issue", !.locked = TRUE])
     \/ lock # NoLink /\ Shops(c, Browsing) /\ UNCHANGED lock
     \/ Shops(c, [shopper[c] EXCEPT !.stage = "issue"]) /\ UNCHANGED lock
  /\ UNCHANGED <<issued, cached, handed, moneySide>>

\* POST /payments/link
Issue(c) ==
  /\ shopper[c].stage = "issue" /\ issued < MaxLinks
  /\ issued' = issued + 1
  /\ Shops(c, [shopper[c] EXCEPT !.stage = "store", !.link = issued'])
  /\ UNCHANGED <<cached, lock, handed, moneySide>>

\* The upstream refuses or is silent: 502, nothing stored, the lock deleted.
IssueFails(c) ==
  /\ shopper[c].stage = "issue"
  /\ lock' = IF shopper[c].locked THEN NoLink ELSE lock
  /\ Shops(c, Browsing)
  /\ UNCHANGED <<issued, cached, handed, moneySide>>

\* Variant: the link is stored once the response is on its way.
StoreAfterwards(c) ==
  /\ \/ /\ shopper[c].stage = "store" /\ handed' = handed \cup ({shopper[c].link} \ paid)
        /\ Shops(c, [shopper[c] EXCEPT !.stage = "background"])
        /\ UNCHANGED cached
     \/ /\ shopper[c].stage = "background" /\ cached' = shopper[c].link
        /\ Shops(c, [shopper[c] EXCEPT !.stage = "unlock", !.link = NoLink])
        /\ UNCHANGED handed
  /\ UNCHANGED <<issued, lock, moneySide>>

\* HSET and EXPIRE in one transaction, unless Redis fails or the link runs out soon.
Store(c) ==
  /\ shopper[c].stage = "store"
  /\ cached' \in {cached, shopper[c].link}
  /\ Shops(c, [shopper[c] EXCEPT !.stage = "unlock"])
  /\ UNCHANGED <<issued, lock, handed, moneySide>>

\* The lock is deleted whoever holds it by now; then the response.
Hand(c) ==
  /\ shopper[c].stage = "unlock"
  /\ lock' = IF shopper[c].locked THEN NoLink ELSE lock
  /\ handed' = handed \cup ({shopper[c].link} \ paid)
  /\ Shops(c, Browsing)
  /\ UNCHANGED <<issued, cached, moneySide>>

AbandonCheckout(c) ==
  /\ shopper[c].stage # "browse" /\ Shops(c, Browsing)
  /\ UNCHANGED <<issued, cached, lock, handed, moneySide>>

\* The time to live of the lock, and of the links.
ExpireLock == lock # NoLink /\ lock' = NoLink /\ UNCHANGED <<issued, cached, shopper, handed, moneySide>>
ExpireLinks == cached # NoLink /\ cached' = NoLink /\ UNCHANGED <<issued, lock, shopper, handed, moneySide>>

-----------------------------------------------------------------------------
(* The provider.                                                           *)

Pay(l) ==
  /\ l \in handed /\ handed' = handed \ {l}
  /\ paid' = paid \cup {l}
  /\ UNCHANGED <<known, credited, told, hook, register, dropped, forgone, issued, cached, lock, shopper>>

\* Before it is known here, a device has paid through an earlier service, or a web page.
PayElsewhere ==
  /\ ~known /\ issued < MaxLinks /\ issued' = issued + 1
  /\ paid' = paid \cup {issued'}
  /\ UNCHANGED <<known, credited, told, cached, lock, shopper, hook, register, handed, dropped, forgone>>

-----------------------------------------------------------------------------
(* The callback.                                                           *)

Hooked(h, what) == hook' = [hook EXCEPT ![h] = what]

\* Delivered until it is told, and sometimes again.  The user is looked for by number, by
\* device, by the number of the earlier service, and that transaction is closed.  A body
\* that is no completed payment of a device is answered too.
Callback(h, p) ==
  /\ hook[h].stage = "none" /\ p \in paid
  /\ \/ /\ known /\ UNCHANGED forgone
        /\ Hooked(h, [NoCallback EXCEPT !.stage = "verify", !.payment = p])
     \/ /\ IF known THEN LeaveOut({p}) ELSE UNCHANGED forgone
        /\ Hooked(h, [NoCallback EXCEPT !.stage = "answer", !.payment = p])
  /\ UNCHANGED <<paid, known, credited, told, register, dropped, linkSide>>

\* GET /users/{id}/payments: all that was paid, not only what the callback is about; and of
\* it what has a paid status and is fresh, maybe nothing.
Verify(h) ==
  /\ hook[h].stage = "verify"
  /\ \E listed \in SUBSET paid :
       /\ Hooked(h, [hook[h] EXCEPT !.stage = "credit", !.listed = listed])
       /\ LeaveOut({hook[h].payment} \ listed)
  /\ UNCHANGED <<paid, known, credited, told, register, dropped, linkSide>>

\* Each payment in a transaction of its own, deduplicated by its number; or skipped, of a
\* kind or a product nobody knows, and the callback goes on to its 200.
CreditOne(h) ==
  /\ hook[h].stage = "credit"
  /\ \E p \in hook[h].listed :
       \/ /\ credited' = credited \cup {p} /\ forgone' = forgone \ {p}
          /\ Hooked(h, [hook[h] EXCEPT !.listed = @ \ {p}, !.gained = @ \cup ({p} \ credited)])
       \/ /\ LeaveOut({p} \cap {hook[h].payment}) /\ UNCHANGED credited
          /\ Hooked(h, [hook[h] EXCEPT !.listed = @ \ {p}])
  /\ UNCHANGED <<paid, known, told, register, dropped, linkSide>>

\* A fresh credit drops the links of the user; Redis may refuse.
Forget(h) ==
  /\ hook[h].stage = "credit" /\ hook[h].listed = {}
  /\ \/ /\ hook[h].gained # {}
        /\ cached' = NoLink /\ dropped' = dropped \cup hook[h].gained
     \/ UNCHANGED <<cached, dropped>>
  /\ Hooked(h, [hook[h] EXCEPT !.stage = "answer", !.gained = {}])
  /\ UNCHANGED <<paid, known, credited, told, register, forgone, issued, lock, shopper, handed>>

Answer(h) ==
  /\ hook[h].stage = "answer"
  /\ told' = told \cup {hook[h].payment}
  /\ Hooked(h, NoCallback)
  /\ UNCHANGED <<paid, known, credited, register, dropped, forgone, linkSide>>

\* The provider cannot be asked, a transaction fails, the process dies: no 200.
Refuse(h) ==
  /\ hook[h].stage # "none"
  /\ Hooked(h, NoCallback)
  /\ UNCHANGED <<paid, known, credited, told, register, dropped, forgone, linkSide>>

-----------------------------------------------------------------------------
(* POST /register, and what it asks the provider.                          *)

\* Variant: the provider is asked while the registration is not committed.
AskThenRegister ==
  /\ \/ /\ register.stage = "none" /\ known' = known
        /\ register' = [stage |-> "asked", listed |-> paid]
     \/ /\ register.stage = "asked" /\ known' = TRUE
        /\ register' = [register EXCEPT !.stage = "credit"]
  /\ UNCHANGED <<paid, credited, told, hook, dropped, forgone, linkSide>>

\* The pair is issued and committed before the provider is asked.
RegisterDevice ==
  /\ register.stage = "none"
  /\ known' = TRUE
  /\ register' = [NoRegistration EXCEPT !.stage = "ask"]
  /\ UNCHANGED <<paid, credited, told, hook, dropped, forgone, linkSide>>

\* POST /token and POST /apple make a user of a device as well, and so does a registration
\* without the provider's token, or of a device whose name is no UUID: none of them asks.
SignIn ==
  /\ ~known /\ known' = TRUE
  /\ LeaveOut(Answered)
  /\ UNCHANGED <<paid, credited, told, hook, register, dropped, linkSide>>

\* The selection is that of a callback.
AskPayments ==
  /\ register.stage = "ask"
  /\ \E listed \in SUBSET paid :
       /\ register' = [stage |-> "credit", listed |-> listed]
       /\ LeaveOut(Answered \ listed)
  /\ UNCHANGED <<paid, known, credited, told, hook, dropped, linkSide>>

\* Each in a transaction of its own, or skipped, as there; but the links are not forgotten.
ReconcileOne ==
  /\ register.stage = "credit"
  /\ \/ \E p \in register.listed :
          /\ \/ credited' = credited \cup {p} /\ forgone' = forgone \ {p}
             \/ LeaveOut({p} \cap Answered) /\ UNCHANGED credited
          /\ register' = [register EXCEPT !.listed = @ \ {p}]
     \/ register.listed = {} /\ register' = NoRegistration /\ UNCHANGED <<credited, forgone>>
  /\ UNCHANGED <<paid, known, told, hook, dropped, linkSide>>

\* Logged, and the sign-in goes through; the next registration asks again.
ReconcileFails ==
  /\ register.stage # "none" /\ known
  /\ register' = NoRegistration
  /\ LeaveOut(Answered)
  /\ UNCHANGED <<paid, known, credited, told, hook, dropped, linkSide>>

CheckoutNext ==
  \/ \E c \in Shoppers : \/ Look(c) \/ Lock(c) \/ Issue(c) \/ IssueFails(c) \/ Store(c) \/ Hand(c)
                         \/ AbandonCheckout(c)
  \/ ExpireLock \/ ExpireLinks \/ PayElsewhere \/ \E l \in PaidLinks : Pay(l)
  \/ \E h \in Hooks : \/ \E p \in PaidLinks : Callback(h, p)
                      \/ Verify(h) \/ CreditOne(h) \/ Forget(h) \/ Answer(h) \/ Refuse(h)
  \/ RegisterDevice \/ SignIn \/ AskPayments \/ ReconcileOne \/ ReconcileFails

CheckoutSpec == CheckoutInit /\ [][CheckoutNext]_checkoutVars

-----------------------------------------------------------------------------
(* Properties.                                                             *)

CheckoutTypeOK ==
  /\ issued \in 0..MaxLinks /\ known \in BOOLEAN
  /\ credited \subseteq paid /\ told \subseteq paid /\ paid \subseteq 1..issued
  /\ handed \subseteq 1..issued \ paid /\ dropped \subseteq credited /\ forgone \subseteq paid \ credited
  /\ cached \in PaidLinks \cup {NoLink} /\ lock \in Shoppers \cup {NoLink}

\* The provider repeats no callback it had a 200 for: such a payment is credited, or a
\* registration is still to come, or at it, that looks for it, however callbacks that look
\* for the user and a registration overlapped.  A payment that was looked for last and left
\* out - too old, not of a paid status, skipped, its callback unreadable, its registration
\* asking nothing (POST /token, POST /apple) or failing to - is forgone: the code answers
\* those with a 200, or signs in, without a credit.
NoPaymentFallsBetween ==
  \A p \in told \ (credited \cup forgone) :
    \/ ~known
    \/ register.stage = "ask"
    \/ register.stage = "credit" /\ p \in register.listed

\* A link whose payment was credited, and the links forgotten after it, is not kept for the
\* next purchase: a link is stored before it is handed out and so before it can be paid,
\* with the lock run out and requests overlapping in every way.
PaidLinkIsForgotten == cached \notin dropped

=============================================================================
