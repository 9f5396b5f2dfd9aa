------------------------------ MODULE MCPages ------------------------------
(***************************************************************************)
(* The pages of the web client for TLC: booking (BookingPage), managing a  *)
(* booking with its link (ManagePage) and the drafts of the settings       *)
(* (Drafts).  They share no state; one run takes one part after the other. *)
(* The part is chosen at the start and never changes; the variables of the *)
(* other pages rest, those of BookingPage at an initial value.             *)
(*   selection  two services and two resources on one day, while the       *)
(*              offers change and a time is confirmed;                     *)
(*   search     two services, two days and the next free date;             *)
(*   links      two links in one tab, two requests;                        *)
(*   hours      weekly hours of the organization and of two resources;     *)
(*   organization dates                                                    *)
(*              exceptions of the organization on two dates;               *)
(*   resource dates                                                        *)
(*              exceptions of two resources on two dates;                  *)
(*   rules      booking rules with two contents and two saves.             *)
(***************************************************************************)
EXTENDS BookingPage, TLC

\* x1 and x2 are what a part has two of that are alike: requests, resources,
\* dates or contents.
CONSTANTS s1, s2, r1, r2, t1, t2,
          Unknown, Empty, x1, x2, date, content

VARIABLES
    part,
    booking, around, visits, token, data, fetch, error, open, blocked, request,
    stored, answers, refetch, place, editor, save, ask, moves, saves

manageVars == <<booking, around, visits, token, data, fetch, error, open, blocked, request>>
draftsVars == <<stored, answers, refetch, place, editor, save, ask, moves, saves>>
Both == {x1, x2}

-----------------------------------------------------------------------------
\* Booking.

TwoServices == {s1, s2}
TwoResources == {r1, r2}
TwoTimes == {1, 2}

\* The offers: the first service with both resources and the second with one,
\* the first service with one resource only, or each service with the first.
Full == (s1 :> {r1, r2}) @@ (s2 :> {r1})
Fewer == (s1 :> {r1}) @@ (s2 :> {})
OneEach == (s1 :> {r1}) @@ (s2 :> {r1})

ThreeCatalogs == {Full, Fewer, OneEach}

\* The services start at different times.
FitApart == (s1 :> {1}) @@ (s2 :> {2})

\* With a share link the fewer offers are enough.
BookingInit ==
    /\ Init
    /\ \/ part = "selection" /\ catalog # OneEach /\ (shared => catalog = Fewer)
       \/ part = "search" /\ catalog = OneEach

\* What each part leaves out: the second day, and a second confirmation but
\* while the repair of the first waits; or the second resource and both
\* confirmations.
BookingNext ==
    /\ Next
    /\ \/ /\ part = "selection"
          /\ selection'.date # 2 /\ catalog' # OneEach /\ \A x \in taken' : x[2] = 1
          /\ confirms' = 2 => confirms = 2 \/ repairs # {}
       \/ /\ part = "search"
          /\ confirms' = 0 /\ catalog' \in {OneEach, None} /\ \A x \in taken' : x[1] = r1

-----------------------------------------------------------------------------
\* Managing a booking.

TwoTokens == {t1, t2}

Manage == INSTANCE ManagePage WITH
    Tokens <- TwoTokens, Requests <- Both, MaxChanges <- 1, MaxVisits <- 2,
    changes <- around

ASSUME LinksNamed == Manage!NamesApart

\* ManagePage!CancellationStaysShown: a cancellation that was shown stays.
CancellationStaysShown == [][part = "links" => Manage!CancellationKept]_manageVars

-----------------------------------------------------------------------------
\* Drafts.

OneDate == {date}
OneContent == {content}
HoursEditors == {"organization hours", "resource hours"}
OrganizationException == {"organization exception"}
ResourceException == {"resource exception"}
RulesEditor == {"rules"}

HoursTab == INSTANCE Drafts WITH
    server <- stored, cache <- answers, fetch <- refetch,
    Editors <- HoursEditors, Resources <- Both, Dates <- OneDate, Hours <- OneContent,
    MaxMoves <- 2, MaxSaves <- 1

\* The two editors of exceptions, each on its own.
OrganizationDatesTab == INSTANCE Drafts WITH
    server <- stored, cache <- answers, fetch <- refetch,
    Editors <- OrganizationException, Resources <- {r1}, Dates <- Both,
    Hours <- OneContent, MaxMoves <- 3, MaxSaves <- 2

ResourceDatesTab == INSTANCE Drafts WITH
    server <- stored, cache <- answers, fetch <- refetch,
    Editors <- ResourceException, Resources <- TwoResources, Dates <- Both,
    Hours <- OneContent, MaxMoves <- 2, MaxSaves <- 1

RulesTab == INSTANCE Drafts WITH
    server <- stored, cache <- answers, fetch <- refetch,
    Editors <- RulesEditor, Resources <- {r1}, Dates <- OneDate, Hours <- Both,
    MaxMoves <- 2, MaxSaves <- 2

ASSUME DraftsFit ==
    /\ HoursTab!ConstantsFit /\ RulesTab!ConstantsFit
    /\ OrganizationDatesTab!ConstantsFit /\ ResourceDatesTab!ConstantsFit

DraftsInit ==
    \/ part = "hours" /\ HoursTab!Init
    \/ part = "organization dates" /\ OrganizationDatesTab!Init
    \/ part = "resource dates" /\ ResourceDatesTab!Init
    \/ part = "rules" /\ RulesTab!Init

DraftsNext ==
    \/ part = "hours" /\ HoursTab!Next
    \/ part = "organization dates" /\ OrganizationDatesTab!Next
    \/ part = "resource dates" /\ ResourceDatesTab!Next
    \/ part = "rules" /\ RulesTab!Next

\* ManagePage!LinkConsistent: a settled page shows the booking of its link.
\* Drafts!EditorsConsistent: the editors on the screen are those of its tab,
\* resource and date, and one that nobody touched shows what is stored (an
\* exception with hours of its own does not, see README.md).
PagesConsistent ==
    /\ part = "links" => Manage!LinkConsistent
    /\ part = "hours" => HoursTab!EditorsConsistent
    /\ part = "organization dates" => OrganizationDatesTab!TypeOK
    /\ part = "resource dates" => ResourceDatesTab!TypeOK
    /\ part = "rules" => RulesTab!EditorsConsistent

\* Drafts!OnlyErrorsLoseDrafts: no unsaved draft leaves the screen unasked, but
\* the hours for an error.
OnlyErrorsLoseDrafts ==
    [][/\ part = "hours" => HoursTab!DraftsKeptButForErrors
       /\ part = "organization dates" => OrganizationDatesTab!DraftsKept
       /\ part = "resource dates" => ResourceDatesTab!DraftsKept
       /\ part = "rules" => RulesTab!DraftsKept]_draftsVars

-----------------------------------------------------------------------------
\* The tokens are alike: the first one stands for both.
ManageInit == part = "links" /\ Manage!Init /\ token = t1

BookingAtRest == Init /\ catalog = Full /\ ~shared

ManageAtRest ==
    /\ booking = None /\ around = None /\ visits = None /\ token = None /\ data = None
    /\ fetch = None /\ error = None /\ open = None /\ blocked = None /\ request = None

DraftsAtRest ==
    /\ stored = None /\ answers = None /\ refetch = None /\ place = None /\ editor = None
    /\ save = None /\ ask = None /\ moves = None /\ saves = None

PagesInit ==
    \/ BookingInit /\ ManageAtRest /\ DraftsAtRest
    \/ ManageInit /\ BookingAtRest /\ DraftsAtRest
    \/ DraftsInit /\ BookingAtRest /\ ManageAtRest

\* The pages may be left alone.
PagesNext ==
    /\ UNCHANGED part
    /\ \/ BookingNext /\ UNCHANGED <<manageVars, draftsVars>>
       \/ /\ part = "links" /\ Manage!Next
          /\ UNCHANGED <<vars, draftsVars>>
       \/ /\ DraftsNext
          /\ UNCHANGED <<vars, manageVars>>

PagesSpec == PagesInit /\ [][PagesNext]_<<part, vars, manageVars, draftsVars>>

Symmetry == Permutations(Both)
=============================================================================
