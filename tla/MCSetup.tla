------------------------------ MODULE MCSetup ------------------------------
(***************************************************************************)
(* What sets organizations up, in parts that share no state: the requests  *)
(* they come from (Onboarding), their hours and the starts these offer     *)
(* (Schedule), names and slugs (Slug), and the platform's listings         *)
(* (Paging) and dialogs (PlatformDesk). One run takes one part after the   *)
(* other; the part is chosen at the start and never changes, and the       *)
(* variables of the others rest: those of Onboarding at their initial      *)
(* values, the others at None.                                             *)
(*   hours      one date, four saves of every layer and two blocks, by the *)
(*              owner and a staff member;                                  *)
(*   dates      three dates, the clocks go forward on the first and back   *)
(*              on the second, with bookings;                              *)
(*   requests   two operations at a time on two requests and two slugs;    *)
(*   listings   three rows at two instants, pages of one row;              *)
(*   names      every name of up to six characters, lengths scaled down;   *)
(*   dialogs    two organizations, one decision and one text at a time,    *)
(*              and a change by others or a change of the page.            *)
(***************************************************************************)
EXTENDS Onboarding, TLC

CONSTANTS Invalid, owner, staff, r1, k1, k2, u1, u2, q1, q2, t1, t2,
          slug1, slug2, open, decided, o1, o2, decision

VARIABLES
    part,
    stored, meant, saves, now, attempt,
    clock, row, filter, shown, fetch,
    name,
    directory, page, list, fetching, dialog, draft, deciding, mailed, others, turns

scheduleVars == <<stored, meant, saves, now, attempt>>
pagingVars == <<clock, row, filter, shown, fetch>>
deskVars == <<directory, page, list, fetching, dialog, draft, deciding, mailed, others, turns>>

-----------------------------------------------------------------------------
\* Hours and offers.

I(from, until) == [from |-> from, until |-> until]
S(interval, notice, horizon) == [interval |-> interval, notice |-> notice, horizon |-> horizon]
Roles == (owner :> "owner") @@ (staff :> "staff")

\* Closed, one interval, two that touch, two that are sent unsorted, two that
\* overlap and one that is empty.
Hours == INSTANCE Schedule WITH
    Day <- 6, LastDate <- 0,
    Shift <- [d \in {0} |-> [at |-> 0, by |-> 0]], WeekdayOf <- [d \in {0} |-> 1],
    Resources <- {r1}, Actors <- {owner, staff}, Role <- Roles, Linked <- (r1 :> staff),
    Lists <- {<<>>, <<I(1, 5)>>, <<I(0, 2), I(2, 5)>>, <<I(3, 6), I(0, 2)>>,
              <<I(0, 3), I(2, 6)>>, <<I(4, 4)>>},
    Settings <- {S(1, 0, 0)}, BlockIds <- {k1, k2},
    Duration <- 7, Buffer <- 0, MaxSaves <- 4, MaxNow <- 0

Dates == INSTANCE Schedule WITH
    Day <- 4, LastDate <- 2,
    Shift <- (0 :> [at |-> 1, by |-> -1]) @@ (1 :> [at |-> 2, by |-> 1])
                @@ (2 :> [at |-> 0, by |-> 0]),
    WeekdayOf <- [d \in 0 .. 2 |-> d % 2],
    Resources <- {r1}, Actors <- {owner}, Role <- Roles, Linked <- (r1 :> staff),
    Lists <- {<<>>, <<I(0, 3), I(3, 4)>>},
    Settings <- {S(1, 1, 1), S(2, 0, 2)}, BlockIds <- {k1},
    Duration <- 1, Buffer <- 1, MaxSaves <- 2, MaxNow <- 3

ScheduleNext ==
    \/ part = "hours" /\ Hours!ScheduleNext
    \/ part = "dates" /\ Dates!ScheduleNext

\* Schedule!ScheduleConsistent: the settings show what was saved, intervals and
\* blocks keep apart, and windows are the minutes the layers leave open.
\* Schedule!OffersConsistent: an offered start can be held, also on days the
\* clocks change, and the next free date that is offered is the first.
ScheduleConsistent ==
    /\ part = "hours" => Hours!ScheduleConsistent
    /\ part = "dates" => Dates!OffersConsistent

-----------------------------------------------------------------------------
\* Requests for organizations: the second user is an administrator, too.

TwoUsers == {u1, u2}
OneAdmin == {u2}
TwoRequests == {q1, q2}
TwoSlugs == {slug1, slug2}
BothSlugs == [n \in {1} |-> <<slug1, slug2>>]
TwoTransactions == {t1, t2}

-----------------------------------------------------------------------------
\* Listings, and names.

Listing == INSTANCE Paging WITH
    Ids <- 1 .. 3, LastTime <- 1, Filters <- {open, decided}, Limit <- 1

Naming == INSTANCE Slug WITH MaxName <- 6, MaxBase <- 4, MaxSuggestion <- 5, Tries <- 12

\* Paging!ListingsConsistent: no row is shown twice, a listing read to its end
\* shows every row that was there from the start, and cursors are its own; and
\* Slug!SlugsFit: the slug tried first satisfies the database, and no slug is
\* tried twice.
DirectoryConsistent ==
    /\ part = "listings" => Listing!ListingsConsistent
    /\ part = "names" => Naming!SlugsFit

-----------------------------------------------------------------------------
\* The dialogs of the platform.

TwoOrganizations == {o1, o2}
OneDecision == {decision}

Desk == INSTANCE PlatformDesk WITH
    Organizations <- TwoOrganizations, Requests <- OneDecision, MaxChanges <- 1, MaxMoves <- 1,
    organization <- directory, request <- deciding, changes <- others, moves <- turns

ASSUME HoursFit == Hours!ScheduleFits
ASSUME DatesFit == Dates!ScheduleFits
ASSUME ListingFit == Listing!ListingFits
ASSUME NamesFit == Naming!SlugFits

ASSUME DeskNamed == Desk!NamesApart

\* The components keep their texts apart: one text at a time is enough.
OneText == Cardinality({b \in Desk!Boxes : draft[b] # None}) <= 1

\* PlatformDesk!DialogsConsistent: no decision about one organization closes the
\* dialog of another, and a dialog reports on its own decision.
DialogsConsistent == part = "dialogs" => Desk!DialogsConsistent

-----------------------------------------------------------------------------
ScheduleAtRest == stored = None /\ meant = None /\ saves = None /\ now = None /\ attempt = None
PagingAtRest == clock = None /\ row = None /\ filter = None /\ shown = None /\ fetch = None
NamingAtRest == name = None
DeskAtRest ==
    /\ directory = None /\ page = None /\ list = None /\ fetching = None /\ dialog = None
    /\ draft = None /\ deciding = None /\ mailed = None /\ others = None /\ turns = None

SetupInit ==
    /\ Init
    /\ \/ /\ \/ part = "hours" /\ Hours!ScheduleInit
             \/ part = "dates" /\ Dates!ScheduleInit
          /\ PagingAtRest /\ NamingAtRest /\ DeskAtRest
       \/ part = "requests" /\ ScheduleAtRest /\ PagingAtRest /\ NamingAtRest /\ DeskAtRest
       \/ part = "listings" /\ Listing!Init /\ ScheduleAtRest /\ NamingAtRest /\ DeskAtRest
       \/ part = "names" /\ Naming!Init /\ ScheduleAtRest /\ PagingAtRest /\ DeskAtRest
       \/ part = "dialogs" /\ Desk!Init /\ ScheduleAtRest /\ PagingAtRest /\ NamingAtRest

\* The parts may stop: saves and the instants of rows are bounded.
SetupNext ==
    /\ UNCHANGED part
    /\ \/ /\ part = "requests" /\ Next
          /\ UNCHANGED <<scheduleVars, pagingVars, name, deskVars>>
       \/ /\ ScheduleNext
          /\ UNCHANGED <<vars, pagingVars, name, deskVars>>
       \/ /\ part = "listings" /\ Listing!Next
          /\ UNCHANGED <<vars, scheduleVars, name, deskVars>>
       \/ /\ part = "names" /\ Naming!Next
          /\ UNCHANGED <<vars, scheduleVars, pagingVars, deskVars>>
       \/ /\ part = "dialogs" /\ Desk!Next
          /\ others' + turns' <= 1 /\ OneText'
          /\ UNCHANGED <<vars, scheduleVars, pagingVars, name>>

SetupSpec == SetupInit /\ [][SetupNext]_<<part, vars, scheduleVars, pagingVars, name, deskVars>>

\* Only the part of the dialogs has both.
Symmetry == Permutations(TwoOrganizations)
=============================================================================
