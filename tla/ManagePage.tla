------------------------------ MODULE ManagePage ------------------------------
(***************************************************************************)
(* The page a guest manages a booking on.  The token in the address says   *)
(* which booking; the answer is cached under one key whatever the token,   *)
(* and following another link removes it.  Two dialogs save the contact    *)
(* and cancel the booking; a request that was sent goes on when its dialog *)
(* is gone, and its answer is still applied to the page.                   *)
(*                                                                         *)
(* Of a booking the page tells apart its status and how far time has come: *)
(* before the cancellation cutoff, before the start, after it, after the   *)
(* end.  Values typed, copying the link and layout are left out.           *)
(***************************************************************************)
EXTENDS Naturals

CONSTANTS
    Tokens,         \* links the guest has
    MaxChanges,     \* bound on time passing, staff at work and reconnections
    MaxVisits,      \* bound on links followed
    Requests,       \* requests the guest may send
    None

VARIABLES
    booking,    \* the server's booking of a token: status and stage
    changes, visits,
    token,      \* the token in the address, None without one
    data,       \* the cached answer, with the token each part of it is about
    fetch,      \* the fetch that is out: what the server answered, if it has
    error,      \* how the last fetch failed
    open,       \* dialogs that are open
    blocked,    \* operations the page does not offer any more
    request     \* requests sent from the dialogs

vars == <<booking, changes, visits, token, data, fetch, error, open, blocked, request>>

Kinds == {"edit", "cancel"}
Cutoff == 1     \* stages from here on: no cancellation,
Start == 2      \* no editing,
End == 3        \* over

Bookings == [status : {"confirmed", "cancelled", "no_show"}, stage : 0..End]

\* What the constants have to be: no link and no reply is None.
NamesApart == None \notin Tokens \cup {"done", "closed", "failed"}
-----------------------------------------------------------------------------
(* The server. *)

CanEditContact(b) == b.status = "confirmed" /\ b.stage < Start
CanCancel(b) == b.status = "confirmed" /\ b.stage < Cutoff

Allowed(kind, b) == IF kind = "edit" THEN CanEditContact(b) ELSE CanCancel(b)

\* What an answer about a token's booking puts into the cache.
AnswerFor(t) ==
    [of |-> t, contactOf |-> t, statusOf |-> t, status |-> booking[t].status,
     edit |-> CanEditContact(booking[t]), cancel |-> CanCancel(booking[t])]
-----------------------------------------------------------------------------
(* The page. *)

\* Over by the browser's clock.
ManagedBookingPresentation(d) ==
    IF d.status # "confirmed" THEN d.status
    ELSE IF ~d.cancel /\ ~d.edit /\ booking[d.of].stage = End THEN "past" ELSE "active"

View ==
    IF token = None \/ error = "missing" THEN "unavailable"
    ELSE IF error = "failed" THEN "failed"
    ELSE IF data = None THEN "loading"
    ELSE ManagedBookingPresentation(data)

Dismount_Never(r) == r

\* The dialogs are on the page with an active booking only; their requests
\* are theirs until they leave it.
Mounted == View = "active"
Dismount(r) ==
    [q \in Requests |-> IF r[q] # None /\ View' # "active" THEN [r[q] EXCEPT !.mounted = FALSE] ELSE r[q]]

Idle == [state |-> "idle", answer |-> None]
Sent == [state |-> "sent", answer |-> None]

\* A request whose dialog is still there.
Attached(q) == request[q] # None /\ request[q].mounted

Pending(kind) == \E q \in Requests : Attached(q) /\ request[q].kind = kind

\* Another link in the same tab: the answer is removed with its fetch.
FollowLink_KeepsAnswer(t) ==
    /\ t # token /\ visits < MaxVisits
    /\ visits' = visits + 1
    /\ token' = t
    /\ data' = data /\ error' = "no"
    /\ fetch' = IF t = None THEN Idle ELSE fetch
    /\ blocked' = {}
    /\ UNCHANGED <<booking, changes, open>>
    /\ request' = Dismount(request)

FollowLink(t) ==
    /\ t # token /\ visits < MaxVisits
    /\ visits' = visits + 1
    /\ token' = t
    /\ data' = None /\ error' = "no"
    /\ fetch' = IF t = None THEN Idle ELSE Sent
    /\ blocked' = {}
    /\ UNCHANGED <<booking, changes, open>>
    /\ request' = Dismount(request)

OpenDialog(kind) ==
    /\ Mounted /\ open = {}
    /\ data[kind] /\ kind \notin blocked
    /\ open' = {kind}
    /\ UNCHANGED <<booking, changes, visits, token, data, fetch, error, blocked, request>>

CloseDialog(kind) ==
    /\ Mounted /\ kind \in open /\ ~Pending(kind)
    /\ open' = open \ {kind}
    /\ UNCHANGED <<booking, changes, visits, token, data, fetch, error, blocked, request>>

\* The contact is saved, or the booking cancelled, with the token of the page.
Send(kind, q) ==
    /\ Mounted /\ kind \in open /\ ~Pending(kind)
    /\ request[q] = None
    /\ request' = [request EXCEPT ![q] =
                     [kind |-> kind, token |-> token, reply |-> None, mounted |-> TRUE]]
    /\ UNCHANGED <<booking, changes, visits, token, data, fetch, error, open, blocked>>

\* A fetch that starts forgets the error only if there is no answer yet.
ErrorWhenFetching == IF data = None THEN "no" ELSE error

RetryLoading ==
    /\ View = "failed" /\ fetch = Idle
    /\ fetch' = Sent /\ error' = ErrorWhenFetching
    /\ UNCHANGED <<booking, changes, visits, token, data, open, blocked, request>>
-----------------------------------------------------------------------------
(* Requests and answers on their way. *)

AnswerFetch ==
    /\ fetch = Sent
    /\ fetch' = [state |-> "answered", answer |-> AnswerFor(token)]
    /\ UNCHANGED <<booking, changes, visits, token, data, error, open, blocked, request>>

Receive ==
    /\ fetch.state = "answered"
    /\ data' = fetch.answer /\ error' = "no"
    /\ fetch' = Idle
    /\ UNCHANGED <<booking, changes, visits, token, open, blocked>>
    /\ request' = Dismount(request)

\* The network or the server failed; a token nothing is found for.
FetchFails ==
    /\ fetch.state # "idle"
    /\ error' \in {"failed", "missing"}
    /\ fetch' = Idle
    /\ UNCHANGED <<booking, changes, visits, token, data, open, blocked>>
    /\ request' = Dismount(request)

\* The server decides; it also refuses in a closed organization, or fails.
Decide(q) ==
    /\ request[q] # None /\ request[q].reply = None
    /\ LET r == request[q]
           done == Allowed(r.kind, booking[r.token])
       IN  \E reply \in {IF done THEN "done" ELSE "closed", "closed", "failed"} :
            /\ request' = [request EXCEPT ![q].reply = reply]
            /\ booking' = [booking EXCEPT ![r.token].status =
                              IF reply = "done" /\ r.kind = "cancel" THEN "cancelled" ELSE @]
    /\ UNCHANGED <<changes, visits, token, data, fetch, error, open, blocked>>

\* The reply, or the request's effect, is not seen by the page.
LoseReply(q) ==
    /\ request[q] # None /\ request[q].reply \in {"done", "closed"}
    /\ request' = [request EXCEPT ![q].reply = "failed"]
    /\ UNCHANGED <<booking, changes, visits, token, data, fetch, error, open, blocked>>

Refetched_Joined == IF token = None \/ fetch # Idle THEN fetch ELSE Sent

\* A fetch on its way is replaced when there is an answer on display.
Refetched == IF token = None \/ (data = None /\ fetch # Idle) THEN fetch ELSE Sent

\* onSaved and onCancelled write into whatever answer is cached, which counts
\* as loaded then, and refetch.
ApplyDone(r) ==
    /\ r.reply = "done"
    /\ open' = open \ {r.kind}
    /\ data' = IF data = None THEN None
               ELSE IF r.kind = "edit" THEN [data EXCEPT !.contactOf = r.token]
               ELSE [data EXCEPT !.statusOf = r.token, !.status = "cancelled", !.edit = FALSE, !.cancel = FALSE]
    /\ fetch' = Refetched /\ error' = "no"
    /\ UNCHANGED blocked

ApplyClosed(r) ==
    /\ r.reply = "closed"
    /\ open' = open \ {r.kind}
    /\ blocked' = blocked \cup {r.kind}
    /\ fetch' = Refetched /\ error' = ErrorWhenFetching
    /\ UNCHANGED data

ApplyFailed(r) ==
    /\ r.reply = "failed"
    /\ UNCHANGED <<open, data, fetch, error, blocked>>

Apply(q) ==
    /\ request[q] # None
    /\ ApplyDone(request[q]) \/ ApplyClosed(request[q]) \/ ApplyFailed(request[q])
    /\ UNCHANGED <<booking, changes, visits, token>>
    /\ request' = Dismount([request EXCEPT ![q] = None])
-----------------------------------------------------------------------------
(* Around the guest. *)

Change(t, b) ==
    /\ changes < MaxChanges
    /\ changes' = changes + 1
    /\ booking' = [booking EXCEPT ![t] = b]
    /\ UNCHANGED <<visits, token, data, error, open, blocked>>
    /\ request' = Dismount(request)

TimePasses(t) ==
    /\ booking[t].stage < End
    /\ Change(t, [booking[t] EXCEPT !.stage = @ + 1])
    /\ UNCHANGED fetch

StaffCancels(t) ==
    /\ booking[t].status = "confirmed"
    /\ Change(t, [booking[t] EXCEPT !.status = "cancelled"])
    /\ UNCHANGED fetch

StaffMarksNoShow(t) ==
    /\ booking[t].status = "confirmed" /\ booking[t].stage >= Start
    /\ Change(t, [booking[t] EXCEPT !.status = "no_show"])
    /\ UNCHANGED fetch

\* Back on line: an answer older than 30 seconds is fetched again.
Reconnect ==
    /\ token # None /\ fetch = Idle
    /\ Change(token, booking[token])
    /\ fetch' = Sent
-----------------------------------------------------------------------------
Init ==
    /\ booking = [t \in Tokens |-> [status |-> "confirmed", stage |-> 0]]
    /\ changes = 0 /\ visits = 0
    /\ token \in Tokens /\ data = None /\ fetch = Sent /\ error = "no"
    /\ open = {} /\ blocked = {}
    /\ request = [q \in Requests |-> None]

Next ==
    \/ \E t \in Tokens \cup {None} : FollowLink(t)
    \/ \E kind \in Kinds : OpenDialog(kind) \/ CloseDialog(kind)
    \/ \E kind \in Kinds, q \in Requests : Send(kind, q)
    \/ \E q \in Requests : Decide(q) \/ LoseReply(q) \/ Apply(q)
    \/ RetryLoading \/ AnswerFetch \/ Receive \/ FetchFails
    \/ \E t \in Tokens : TimePasses(t) \/ StaffCancels(t) \/ StaffMarksNoShow(t)
    \/ Reconnect

Spec == Init /\ [][Next]_vars
-----------------------------------------------------------------------------
Answers == [of : Tokens, contactOf : Tokens, statusOf : Tokens, status : {"confirmed", "cancelled", "no_show"},
            edit : BOOLEAN, cancel : BOOLEAN]

\* The page keeps the shapes of its state, at most one request of a kind
\* belongs to a dialog that is still there, and such a request is about the
\* booking on display.
TypeOK ==
    /\ booking \in [Tokens -> Bookings]
    /\ token \in Tokens \cup {None} /\ data \in Answers \cup {None}
    /\ fetch.answer \in Answers \cup {None} /\ fetch.state \in {"idle", "sent", "answered"}
    /\ open \in SUBSET Kinds /\ blocked \subseteq Kinds
    /\ \A q \in Requests : Attached(q) => Mounted /\ request[q].token = token
    /\ \A p, q \in Requests : Attached(p) /\ Attached(q) /\ request[p].kind = request[q].kind => p = q

\* With no fetch on its way, the booking on display is the one of the link in
\* the address, with its own contact and status: what late answers for a
\* booking left behind wrote over it is gone (guestBookingKey, onSaved and
\* onCancelled in guest-booking-manage-page.tsx).
SettledShowsTheLink ==
    fetch = Idle /\ View \in {"active", "cancelled", "no_show", "past"} =>
        data.of = token /\ data.contactOf = token /\ data.statusOf = token

\* A guest who was shown the cancellation of the booking is not shown it as
\* confirmed again on the same link, whatever fetch was on its way.
CancellationKept ==
    /\ token' = token /\ data # None /\ data' # None
    /\ data.status = "cancelled" /\ data.statusOf = token
    => data'.status = "cancelled"
CancellationStaysShown == [][CancellationKept]_vars

\* The page is about one booking: the one of the link in the address.
LinkConsistent == TypeOK /\ SettledShowsTheLink
=============================================================================
