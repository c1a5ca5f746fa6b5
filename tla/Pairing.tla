------------------------------ MODULE Pairing -------------------------------
(***************************************************************************)
(* How a remote client comes by its credential                             *)
(* (codepet-host/src/remote/access.rs, RemoteAccessManager): a pairing     *)
(* window that the desktop opens and shows as a QR code, answered at once  *)
(* by an exchange or, as an invitation, by a request that the user         *)
(* confirms; and requests of clients that found the Host by themselves.    *)
(*                                                                         *)
(* All of it is one record, PairingState, under one mutex, and is          *)
(* forgotten when the Host restarts.  Deadlines pass in the background;    *)
(* what has expired is marked by the next operation that looks.            *)
(*                                                                         *)
(* Terminal requests and outcomes are kept for a while only (15 minutes,   *)
(* 64 of each): here they may be forgotten at any moment.                  *)
(***************************************************************************)
EXTENDS CredentialStore

CONSTANTS
  Nonces,       \* clientNonce of requests made without an invitation
  Bindings,     \* the hashes of signed invitation requests
  NoWindow,     \* no active window, no window of a request
  NoBinding,    \* the binding of a request made without an invitation
  MaxWindows,   \* Bounds the windows opened.
  MaxRequests,  \* Bounds the requests made.
  MaxPending    \* MAX_PAIRING_REQUEST_RECORDS

Windows == 1 .. MaxWindows
Window  == [id : Windows, invitationOnly : BOOLEAN]

ASSUME PairingAssumption ==
  /\ MaxWindows \in Nat /\ MaxRequests \in Nat /\ MaxPending \in Nat
  /\ NoWindow \notin Windows /\ NoWindow \notin Window
  /\ NoBinding \notin Bindings

VARIABLES
  pairing,    \* PairingState
  opened,     \* pairing ids drawn so far
  published,  \* the windows whose QR code was shown
  late,       \* the windows and the requests whose deadline has passed
  grants      \* history: how each credential was come by

pairingVars == <<store, pairing, opened, published, late, grants>>

-----------------------------------------------------------------------------
Outcomes == {"none", "succeeded", "cancelled", "expired"}
States   == {"pending", "accepted", "rejected", "expired"}
Request  == [state : States, client : Clients, nonce : Nonces,
             window : Windows \cup {NoWindow}, binding : Bindings \cup {NoBinding}]
Routes   == {"exchange", "invitation", "approval"}
Grants   == [id : Ids, route : Routes, window : Windows \cup {NoWindow},
             request : 0 .. MaxRequests]

Invited(request) == request.binding # NoBinding

PairingTypeOK ==
  /\ StoreTypeOK
  /\ pairing.active \in Window \cup {NoWindow}
  /\ pairing.outcomes \in [Windows -> Outcomes]
  /\ DOMAIN pairing.requests \subseteq 1 .. pairing.created
  /\ \A r \in DOMAIN pairing.requests : pairing.requests[r] \in Request
  /\ pairing.created \in 0 .. MaxRequests
  /\ opened \in 0 .. MaxWindows
  /\ published \subseteq 1 .. opened
  /\ late.windows \subseteq 1 .. opened /\ late.requests \subseteq 1 .. pairing.created
  /\ grants \subseteq Grants
  /\ Cardinality({r \in DOMAIN pairing.requests : pairing.requests[r].state = "pending"})
       <= MaxPending

PairingInit ==
  /\ StoreInit
  /\ pairing = [active |-> NoWindow, outcomes |-> [w \in Windows |-> "none"],
                requests |-> [r \in {} |-> {}], created |-> 0]
  /\ opened = 0 /\ published = {} /\ grants = {}
  /\ late = [windows |-> {}, requests |-> {}]

-----------------------------------------------------------------------------
(* What is done to PairingState.                                           *)

IsActive(p, w) == p.active # NoWindow /\ p.active.id = w

\* Mutant of Taken: the outcome is recorded and the window stays.
TakenNot(p, outcome) == [p EXCEPT !.outcomes[p.active.id] = outcome]

\* The active window is taken, for this outcome.
Taken(p, outcome) ==
  [p EXCEPT !.active = NoWindow, !.outcomes[p.active.id] = outcome]

\* expire_locked
WindowExpired(p) ==
  IF p.active # NoWindow /\ p.active.id \in late.windows THEN Taken(p, "expired") ELSE p

\* expire_pairing_requests_locked
RequestsExpired(p) ==
  [p EXCEPT !.requests = [r \in DOMAIN p.requests |->
     IF p.requests[r].state = "pending" /\ r \in late.requests
     THEN [p.requests[r] EXCEPT !.state = "expired"] ELSE p.requests[r]]]

Added(p, request) ==
  [p EXCEPT !.created = @ + 1,
            !.requests = [r \in DOMAIN @ \cup {p.created + 1} |->
                            IF r = p.created + 1 THEN request ELSE @[r]]]

Granted(route, window, request) ==
  grants' = grants \cup
    {[id |-> issued', route |-> route, window |-> window, request |-> request]}

\* The issue fails, at the limit or in its save.
IssueFails(client) ==
  \/ Cardinality(DOMAIN credentials) >= MaxCredentials /\ UNCHANGED store
  \/ Issue(client, FALSE)

-----------------------------------------------------------------------------
(* The desktop opens a window.                                             *)

\* Mutant of BeginPairing: the active window is not looked at.
BeginPairingAnew ==
  /\ opened < MaxWindows
  /\ opened' = opened + 1
  /\ pairing' = [WindowExpired(pairing) EXCEPT !.active = [id |-> opened + 1, invitationOnly |-> FALSE]]
  /\ UNCHANGED <<store, published, late, grants>>

BeginPairing ==
  LET p == WindowExpired(pairing)
  IN  /\ IF p.active # NoWindow
         THEN pairing' = p /\ UNCHANGED opened
         ELSE /\ opened < MaxWindows
              /\ opened' = opened + 1
              /\ pairing' = [p EXCEPT !.active = [id |-> opened + 1, invitationOnly |-> FALSE]]
      /\ UNCHANGED <<store, published, late, grants>>

\* prepare_invitation, with a cloud service and before the QR code.
RequireInvitation(w) ==
  /\ w \in 1 .. opened \ published
  /\ IsActive(pairing, w)
  /\ pairing' = [pairing EXCEPT !.active.invitationOnly = TRUE]
  /\ UNCHANGED <<store, opened, published, late, grants>>

Publish(w) ==
  /\ w \in 1 .. opened \ published
  /\ published' = published \cup {w}
  /\ UNCHANGED <<store, pairing, opened, late, grants>>

\* cancel_pairing; an outcome that is there already stands.
CancelPairing(w) ==
  LET p == WindowExpired(pairing)
  IN  /\ w \in 1 .. opened
      /\ pairing' = IF p.outcomes[w] = "none" /\ IsActive(p, w) THEN Taken(p, "cancelled") ELSE p
      /\ UNCHANGED <<store, opened, published, late, grants>>

\* pairing_status, run_while_pairing_active, and expire_pairing, which the
\* desktop's monitor calls at the deadline.
LookAtPairing ==
  /\ pairing' = WindowExpired(pairing)
  /\ UNCHANGED <<store, opened, published, late, grants>>

-----------------------------------------------------------------------------
(* Clients.                                                                *)

\* complete_pairing: whoever read the QR code exchanges its secret.
CompletePairing(w, client) ==
  /\ w \in published
  /\ IF \/ \E r \in DOMAIN pairing.requests :
             pairing.requests[r].window = w /\ Invited(pairing.requests[r])
        \/ pairing.active = NoWindow
     THEN UNCHANGED <<store, pairing, grants>>
     ELSE IF pairing.active.id \in late.windows
     THEN pairing' = WindowExpired(pairing) /\ UNCHANGED <<store, grants>>
     ELSE IF pairing.active.invitationOnly \/ ~IsActive(pairing, w)
     THEN UNCHANGED <<store, pairing, grants>>
     ELSE \/ /\ Issue(client, TRUE)
             /\ pairing' = Taken(pairing, "succeeded")
             /\ Granted("exchange", w, 0)
          \/ IssueFails(client) /\ UNCHANGED <<pairing, grants>>
  /\ UNCHANGED <<opened, published, late>>

\* create_pairing_request_inner: a repeated request finds its record.
Creatable(p) ==
  Cardinality({r \in DOMAIN p.requests : p.requests[r].state = "pending"}) < MaxPending

CreateRequest(client, nonce) ==
  LET p == RequestsExpired(WindowExpired(pairing))
      known == \E r \in DOMAIN p.requests :
                 ~Invited(p.requests[r]) /\ p.requests[r].client = client /\ p.requests[r].nonce = nonce
      window == IF p.active # NoWindow /\ ~p.active.invitationOnly THEN p.active.id ELSE NoWindow
  IN  /\ IF known \/ ~Creatable(p) THEN pairing' = p
         ELSE /\ p.created < MaxRequests
              /\ pairing' = Added(p, [state |-> "pending", client |-> client, nonce |-> nonce,
                                      window |-> window, binding |-> NoBinding])
      /\ UNCHANGED <<store, opened, published, late, grants>>

CreateInvitationRequest(w, binding, client) ==
  LET p == RequestsExpired(WindowExpired(pairing))
      taken == \E r \in DOMAIN p.requests : p.requests[r].window = w /\ Invited(p.requests[r])
  IN  /\ w \in published
      /\ IF taken \/ ~IsActive(p, w) \/ ~Creatable(p) THEN pairing' = p
         ELSE /\ p.created < MaxRequests
              /\ \E nonce \in Nonces :
                   pairing' = Added(p, [state |-> "pending", client |-> client, nonce |-> nonce,
                                        window |-> w, binding |-> binding])
      /\ UNCHANGED <<store, opened, published, late, grants>>

\* pairing_request_status, pending_pairing_requests.
LookAtRequests ==
  /\ pairing' = RequestsExpired(pairing)
  /\ UNCHANGED <<store, opened, published, late, grants>>

-----------------------------------------------------------------------------
(* resolve_pairing_request: the user answers, from any dialog, any number  *)
(* of times; only a pending request is changed.                            *)

\* Mutant of Resolvable: only a refusal is final.
ResolvableUnlessRejected(p, r) == r \in DOMAIN p.requests /\ p.requests[r].state # "rejected"

Resolvable(p, r) == r \in DOMAIN p.requests /\ p.requests[r].state = "pending"

\* What an answer finds: of an invitation, the window must still be active.
Resolving(r) ==
  LET p == RequestsExpired(pairing)
  IN  IF Resolvable(p, r) /\ Invited(p.requests[r]) THEN WindowExpired(p) ELSE p

\* Mutant of Overtaken: an open dialog is believed.
OvertakenNever(p, r) == FALSE

Overtaken(p, r) == Invited(p.requests[r]) /\ ~IsActive(p, p.requests[r].window)

ResolveNothing(r) ==
  LET p == Resolving(r)
  IN  /\ r \in 1 .. p.created
      /\ Resolvable(p, r) => Overtaken(p, r)
      /\ pairing' = IF Resolvable(p, r) THEN [p EXCEPT !.requests[r].state = "expired"] ELSE p
      /\ UNCHANGED <<store, opened, published, late, grants>>

Reject(r) ==
  LET p == Resolving(r)
  IN  /\ Resolvable(p, r) /\ ~Overtaken(p, r)
      /\ pairing' = [p EXCEPT !.requests[r].state = "rejected"]
      /\ UNCHANGED <<store, opened, published, late, grants>>

Accept(r) ==
  LET p == Resolving(r)
      request == p.requests[r]
      accepted == [p EXCEPT !.requests[r].state = "accepted"]
  IN  /\ Resolvable(p, r) /\ ~Overtaken(p, r)
      /\ \/ /\ Issue(request.client, TRUE)
            /\ pairing' = IF IsActive(p, request.window) THEN Taken(accepted, "succeeded") ELSE accepted
            /\ Granted(IF Invited(request) THEN "invitation" ELSE "approval", request.window, r)
         \/ IssueFails(request.client) /\ pairing' = p /\ UNCHANGED grants
      /\ UNCHANGED <<opened, published, late>>

-----------------------------------------------------------------------------
(* Time, and the end of the process.                                       *)

WindowDeadline ==
  /\ pairing.active # NoWindow
  /\ pairing.active.id \notin late.windows
  /\ late' = [late EXCEPT !.windows = @ \cup {pairing.active.id}]
  /\ UNCHANGED <<store, pairing, opened, published, grants>>

RequestDeadline(r) ==
  /\ r \in DOMAIN pairing.requests \ late.requests
  /\ late' = [late EXCEPT !.requests = @ \cup {r}]
  /\ UNCHANGED <<store, pairing, opened, published, grants>>

OutcomeForgotten(w) ==
  /\ pairing.outcomes[w] # "none"
  /\ pairing' = [pairing EXCEPT !.outcomes[w] = "none"]
  /\ UNCHANGED <<store, opened, published, late, grants>>

RequestForgotten(r) ==
  /\ r \in DOMAIN pairing.requests
  /\ pairing.requests[r].state # "pending"
  /\ pairing' = [pairing EXCEPT !.requests = [q \in DOMAIN @ \ {r} |-> @[q]]]
  /\ UNCHANGED <<store, opened, published, late, grants>>

PairingRestarts ==
  /\ StoreRestarts
  /\ pairing' = [pairing EXCEPT !.active = NoWindow, !.requests = [r \in {} |-> {}],
                                !.outcomes = [w \in Windows |-> "none"]]
  /\ UNCHANGED <<opened, published, late, grants>>

PairingNext ==
  \/ BeginPairing \/ LookAtPairing \/ LookAtRequests \/ WindowDeadline \/ PairingRestarts
  \/ \E w \in Windows : RequireInvitation(w) \/ Publish(w) \/ CancelPairing(w) \/ OutcomeForgotten(w)
  \/ \E w \in Windows, c \in Clients :
       CompletePairing(w, c) \/ \E b \in Bindings : CreateInvitationRequest(w, b, c)
  \/ \E c \in Clients, n \in Nonces : CreateRequest(c, n)
  \/ \E r \in 1 .. MaxRequests :
       ResolveNothing(r) \/ Reject(r) \/ Accept(r) \/ RequestDeadline(r) \/ RequestForgotten(r)

PairingSpec == PairingInit /\ [][PairingNext]_pairingVars

-----------------------------------------------------------------------------
Used(w) == {g \in grants : g.window = w /\ g.route \in {"exchange", "invitation"}}

(* One invitation, one credential (complete_pairing, resolve_pairing_      *)
(* request; knowledge/60-rules/pairing-route-convergence.md): however its  *)
(* exchange, its requests over two routes, their retries, the user's       *)
(* answers and its deadline interleave, and whatever records were          *)
(* forgotten, a window's secret is turned into at most one credential.     *)
OneGrantPerInvitation == \A w \in Windows : Cardinality(Used(w)) <= 1

(* The outcome the desktop shows is what happened: no secret was or will   *)
(* be turned into a credential in a window reported cancelled or expired,  *)
(* and one reported successful gave a credential.                          *)
OutcomeTruthful ==
  \A w \in Windows :
    /\ pairing.outcomes[w] \in {"cancelled", "expired"} => Used(w) = {}
    /\ pairing.outcomes[w] = "succeeded" => \E g \in grants : g.window = w

\* The window that can still be used, those that were, and what came of them.
ActiveWindows == {w \in Windows : IsActive(pairing, w)}
PastWindows   == (1 .. opened) \ ActiveWindows
GivenBy       == [w \in Windows |-> {g.id : g \in Used(w)}]

Invitation == INSTANCE InvitationLife WITH
  open <- ActiveWindows, over <- PastWindows,
  outcome <- pairing.outcomes, given <- GivenBy

(* Life of a window (InvitationLife): it is opened and over once, and its  *)
(* secret gives a credential only in the step that ends it, whichever of   *)
(* exchange, request, answer, deadline, cancellation and restart came      *)
(* first.                                                                  *)
InvitationSpec == Invitation!Spec

(* What a client is told of its request is final and true: accepted, it    *)
(* has exactly one credential; otherwise none, though its issue may have   *)
(* failed and been repeated from another dialog.                           *)
AnswersAreGrants ==
  \A r \in DOMAIN pairing.requests :
    Cardinality({g \in grants : g.request = r})
      = IF pairing.requests[r].state = "accepted" THEN 1 ELSE 0
=============================================================================
