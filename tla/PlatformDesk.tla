----------------------------- MODULE PlatformDesk -----------------------------
(***************************************************************************)
(* The platform administrator's pages: the directory of organizations,     *)
(* where one is suspended, unsuspended, unpublished or created, and the    *)
(* review of publication requests.  Each decision is taken in a dialog     *)
(* with a text; the text stays in a component's state as long as the       *)
(* component is mounted, or until something resets it.  Another            *)
(* administrator works at the same time, answers come late or get lost.    *)
(*                                                                         *)
(* A text is what it was written for: the decision and the organization.   *)
(* Filters, search, paging and the details of the lists are left out.      *)
(***************************************************************************)
EXTENDS Naturals

CONSTANTS
    Organizations,
    Requests,       \* decisions the administrator may send
    MaxChanges,     \* bound on changes by others
    MaxMoves,       \* bound on changes of the page
    None

VARIABLES
    organization,   \* the server's row: suspended, published, publication requested
    page,           \* the page on the screen
    list,           \* its cached rows, None before the first answer
    fetching,       \* the rows are being fetched
    dialog,         \* the open dialog: kind and target, or None
    draft,          \* the text in each component's state
    request,        \* decisions sent
    mailed,         \* the last customer-facing text accepted, and for whom
    changes, moves

vars == <<organization, page, list, fetching, dialog, draft, request, mailed, changes, moves>>

Pages == {"directory", "publications"}
Kinds == {"suspend", "unsuspend", "unpublish", "create", "publish", "reject"}
PageOf(kind) == IF kind \in {"publish", "reject"} THEN "publications" ELSE "directory"

\* The component that holds the text: one dialog suspends and unsuspends.
Boxes == {"lifecycle", "unpublish", "create", "decision"}
Box(kind) ==
    CASE kind \in {"suspend", "unsuspend"} -> "lifecycle"
      [] kind \in {"publish", "reject"} -> "decision"
      [] OTHER -> kind

Required == {"suspend", "unpublish", "create", "reject"}
CustomerFacing == {"suspend", "unpublish", "reject"}
NoTexts == [b \in Boxes |-> None]

Targets == Organizations \cup {None}
Texts == [kind : Kinds, target : Targets]

\* What the constants have to be: no text is None.
NamesApart == None \notin Texts
-----------------------------------------------------------------------------
(* The decisions, offered by the rows on display and taken by the server.  *)

PlatformOrganizationActions(row) ==
    {IF row.suspended THEN "unsuspend" ELSE "suspend"}
        \cup {k \in {"unpublish"} : row.published}
        \cup {k \in {"publish", "reject"} : row.requested}

\* The row a decision leads to.
Decided(kind, row) ==
    CASE kind = "suspend" -> [row EXCEPT !.suspended = TRUE]
      [] kind = "unsuspend" -> [row EXCEPT !.suspended = FALSE]
      [] kind = "unpublish" -> [row EXCEPT !.published = FALSE]
      [] kind = "publish" -> [row EXCEPT !.published = TRUE, !.requested = FALSE]
      [] kind = "reject" -> [row EXCEPT !.requested = FALSE]
      [] kind = "create" -> row
-----------------------------------------------------------------------------
Pending(kind) == \E q \in Requests : request[q] # None /\ Box(request[q].kind) = Box(kind) /\ request[q].mounted

Open_KeepsText(kind, o) ==
    /\ dialog = None /\ page = PageOf(kind)
    /\ IF kind = "create" THEN o = None
       ELSE list # None /\ o \in Organizations /\ kind \in PlatformOrganizationActions(list[o])
    /\ dialog' = [kind |-> kind, target |-> o]
    /\ UNCHANGED <<organization, page, list, fetching, draft, request, mailed, changes, moves>>

Open(kind, o) ==
    /\ dialog = None /\ page = PageOf(kind)
    /\ IF kind = "create" THEN o = None
       ELSE list # None /\ o \in Organizations /\ kind \in PlatformOrganizationActions(list[o])
    /\ dialog' = [kind |-> kind, target |-> o]
    /\ draft' = IF Box(kind) = "decision" THEN [draft EXCEPT !["decision"] = None] ELSE draft
    /\ UNCHANGED <<organization, page, list, fetching, request, mailed, changes, moves>>

Type ==
    /\ dialog # None /\ dialog.kind # "publish"
    /\ draft' = [draft EXCEPT ![Box(dialog.kind)] = dialog]
    /\ UNCHANGED <<organization, page, list, fetching, dialog, request, mailed, changes, moves>>

\* The decision dialog of the publications closes even while it waits, and
\* its next one is a new component; those of the directory do not close then.
Dismiss == [q \in Requests |-> IF request[q] # None /\ page = "publications"
                               THEN [request[q] EXCEPT !.mounted = FALSE] ELSE request[q]]

\* The Cancel button leaves the text where it is.
Cancel ==
    /\ dialog # None /\ ~Pending(dialog.kind)
    /\ dialog' = None
    /\ UNCHANGED <<organization, page, list, fetching, draft, request, mailed, changes, moves>>

Escape_Always ==
    /\ dialog # None
    /\ dialog' = None
    /\ draft' = [draft EXCEPT ![Box(dialog.kind)] = None]
    /\ request' = Dismiss
    /\ UNCHANGED <<organization, page, list, fetching, mailed, changes, moves>>

\* The Escape key, the cross and a click outside.
Escape ==
    /\ dialog # None /\ (page = "directory" => ~Pending(dialog.kind))
    /\ dialog' = None
    /\ draft' = [draft EXCEPT ![Box(dialog.kind)] = None]
    /\ request' = Dismiss
    /\ UNCHANGED <<organization, page, list, fetching, mailed, changes, moves>>

Submit(q) ==
    /\ dialog # None /\ request[q] = None /\ ~Pending(dialog.kind)
    /\ dialog.kind \in Required => draft[Box(dialog.kind)] # None
    /\ request' = [request EXCEPT ![q] =
                     [kind |-> dialog.kind, target |-> dialog.target, text |-> draft[Box(dialog.kind)],
                      reply |-> None, mounted |-> TRUE, here |-> TRUE]]
    /\ UNCHANGED <<organization, page, list, fetching, dialog, draft, mailed, changes, moves>>

Move_KeepsDialog(p) ==
    /\ p # page /\ moves < MaxMoves
    /\ moves' = moves + 1
    /\ page' = p
    /\ list' \in {None, list} /\ fetching' = TRUE
    /\ request' = [q \in Requests |-> IF request[q] = None THEN None
                                      ELSE [request[q] EXCEPT !.mounted = FALSE, !.here = FALSE]]
    /\ UNCHANGED <<organization, dialog, draft, mailed, changes>>

\* The browser's back button and the navigation: the page's state is gone,
\* what it has sent goes on.
Move(p) ==
    /\ p # page /\ moves < MaxMoves
    /\ moves' = moves + 1
    /\ page' = p /\ dialog' = None /\ draft' = NoTexts
    /\ list' \in {None, list} /\ fetching' = TRUE
    /\ request' = [q \in Requests |-> IF request[q] = None THEN None
                                      ELSE [request[q] EXCEPT !.mounted = FALSE, !.here = FALSE]]
    /\ UNCHANGED <<organization, mailed, changes>>

Fetched ==
    /\ fetching
    /\ fetching' = FALSE
    /\ list' \in {organization, list}
    /\ UNCHANGED <<organization, page, dialog, draft, request, mailed, changes, moves>>

Refetch ==
    /\ ~fetching
    /\ list = None
    /\ fetching' = TRUE
    /\ UNCHANGED <<organization, page, list, dialog, draft, request, mailed, changes, moves>>
-----------------------------------------------------------------------------
\* The server applies the decision to an organization it still fits, and keeps
\* the text; or it fails.
Decide(q) ==
    /\ request[q] # None /\ request[q].reply = None
    /\ LET r == request[q]
           fits == r.kind = "create" \/ r.kind \in PlatformOrganizationActions(organization[r.target])
       IN  \E reply \in {IF fits THEN "done" ELSE "refused", "failed"} :
            /\ request' = [request EXCEPT ![q].reply = reply]
            /\ organization' = IF reply = "done" /\ r.kind # "create"
                               THEN [organization EXCEPT ![r.target] = Decided(r.kind, @)] ELSE organization
            /\ mailed' = IF reply = "done" /\ r.kind \in CustomerFacing
                         THEN [target |-> r.target, kind |-> r.kind, text |-> r.text] ELSE mailed
    /\ UNCHANGED <<page, list, fetching, dialog, draft, changes, moves>>

LoseReply(q) ==
    /\ request[q] # None /\ request[q].reply \in {"done", "refused"}
    /\ request' = [request EXCEPT ![q].reply = "failed"]
    /\ UNCHANGED <<organization, page, list, fetching, dialog, draft, mailed, changes, moves>>

\* Which answers make the lists be fetched again.
Invalidates(r) == r.reply = "done" \/ r.kind \in {"suspend", "unsuspend", "publish"}

Answer(q) ==
    /\ request[q] # None /\ request[q].reply \in {"done", "refused", "failed"}
    /\ request' = [request EXCEPT ![q].reply = IF @ = "done" THEN "refreshing" ELSE "shown"]
    /\ fetching' = (fetching \/ Invalidates(request[q]))
    /\ UNCHANGED <<organization, page, list, dialog, draft, mailed, changes, moves>>

\* Success closes the dialog once the lists are fresh; whatever dialog of the
\* component is open then.  An error is shown in it.
Finish(q) ==
    /\ request[q] # None /\ request[q].reply \in {"refreshing", "shown"} /\ ~fetching
    /\ request' = [request EXCEPT ![q] = None]
    /\ IF request[q].reply = "refreshing" /\ request[q].here
       THEN /\ dialog' = IF dialog # None /\ Box(dialog.kind) = Box(request[q].kind) THEN None ELSE dialog
            /\ draft' = [draft EXCEPT ![Box(request[q].kind)] = None]
       ELSE UNCHANGED <<dialog, draft>>
    /\ UNCHANGED <<organization, page, list, fetching, mailed, changes, moves>>

\* Another administrator decides, or the owner asks for publication.
Others(o) ==
    /\ changes < MaxChanges
    /\ changes' = changes + 1
    /\ \/ \E kind \in PlatformOrganizationActions(organization[o]) :
            organization' = [organization EXCEPT ![o] = Decided(kind, @)]
       \/ ~organization[o].published /\ organization' = [organization EXCEPT ![o].requested = TRUE]
    /\ UNCHANGED <<page, list, fetching, dialog, draft, request, mailed, moves>>
-----------------------------------------------------------------------------
Init ==
    /\ organization \in [Organizations -> {[suspended |-> FALSE, published |-> p, requested |-> r] :
                                              p \in BOOLEAN, r \in BOOLEAN}]
    /\ \A o \in Organizations : ~(organization[o].published /\ organization[o].requested)
    /\ page = "directory" /\ list = None /\ fetching = TRUE
    /\ dialog = None /\ draft = NoTexts
    /\ request = [q \in Requests |-> None]
    /\ mailed = None /\ changes = 0 /\ moves = 0

Next ==
    \/ \E kind \in Kinds, o \in Targets : Open(kind, o)
    \/ Type \/ Cancel \/ Escape \/ Fetched \/ Refetch
    \/ \E p \in Pages : Move(p)
    \/ \E q \in Requests : Submit(q) \/ Decide(q) \/ LoseReply(q) \/ Answer(q) \/ Finish(q)
    \/ \E o \in Organizations : Others(o)

Spec == Init /\ [][Next]_vars
-----------------------------------------------------------------------------
\* The pages keep the shapes of their state, and only a dialog of the page on
\* the screen is open.
TypeOK ==
    /\ dialog \in Texts \cup {None}
    /\ dialog # None => PageOf(dialog.kind) = page
    /\ draft \in [Boxes -> Texts \cup {None}]
    /\ \A b \in Boxes : draft[b] # None => Box(draft[b].kind) = b /\ PageOf(draft[b].kind) = page
    /\ \A q \in Requests : request[q] # None => request[q].text \in Texts \cup {None}

\* In the directory an answer meets the dialog that waits for it: no decision
\* about one organization closes, or reports into, the dialog of another
\* (onOpenChange in platform-organizations-page.tsx).
AnswerMeetsItsDialog ==
    \A q \in Requests :
        request[q] # None /\ request[q].mounted /\ page = "directory" =>
            dialog = [kind |-> request[q].kind, target |-> request[q].target]

\* The feedback a rejected applicant is sent was written about that very
\* request (DecisionDialog in platform-publications-page.tsx).
FeedbackFitsTheRequest ==
    mailed # None /\ mailed.kind = "reject" =>
        mailed.text = [kind |-> "reject", target |-> mailed.target]

\* A note written as internal is not sent to a customer: "Stored in the
\* Platform audit history and not emailed." (platform-organizations-page.tsx).
InternalNotesStayInternal ==
    mailed # None => mailed.text.kind # "unsuspend"

\* A decision, its answer and its text belong to the dialog they were made in.
DialogsConsistent == TypeOK /\ AnswerMeetsItsDialog /\ FeedbackFitsTheRequest
=============================================================================
