------------------------------ MODULE BookingPage ------------------------------
(***************************************************************************)
(* The public booking page in the visitor's browser: the steps of the      *)
(* form, the selection, the cached answers about free times, the search    *)
(* for the next free date, and the confirmation with its repairs when the  *)
(* server refuses.  The server is reduced to what it answers; between two  *)
(* answers others book, the offers change and days pass, and every answer  *)
(* may come late, after the visitor has moved on, or not at all.           *)
(*                                                                         *)
(* React effects run with the event that causes them.  A cached answer may *)
(* be shown without asking again (30 seconds) or with.  Typing, focus,     *)
(* messages and layout are left out.                                       *)
(***************************************************************************)
EXTENDS Integers, FiniteSets, Sequences, SequencesExt

CONSTANTS
    Services, Resources, Times,
    Fits,           \* the starts at which a service fits, in a free resource
    Catalogs,       \* the offers there may be: resources of each service
    Reach,          \* the booking window is the current day and Reach more
    LastDay,        \* days end here
    MaxChanges,     \* bound on changes around the visitor
    MaxConfirms,    \* bound on confirmations sent
    None

ASSUME SizesAssumption ==
    /\ IsFiniteSet(Services) /\ IsFiniteSet(Resources)
    /\ Reach \in Nat /\ LastDay \in Nat \ {0}
ASSUME OffersAssumption ==
    /\ Fits \in [Services -> SUBSET Times]
    /\ Catalogs \subseteq [Services -> SUBSET Resources]
ASSUME NoneAssumption ==
    /\ None \notin Services \cup Resources
    /\ \A S \in SUBSET Times : S # None
    /\ \A data \in [offers : Catalogs, first : 1..LastDay] : data # None

VARIABLES
    catalog,    \* the server's offers, None when the page or its link is closed
    today,      \* the server's day
    taken,      \* <<resource, day, start>> occupied
    changes,    \* changes so far
    confirms,   \* confirmations sent so far
    shared,     \* the address carries a share link
    context,    \* the answer about the organization: data, error, being fetched
    selection,  \* the visitor's choices and the step
    cache,      \* the answers about free times by service, resource and day
    load,       \* the request for the selected times
    search,     \* the search for the next free date that is out, or None
    confirm,    \* the confirmation that is out, or None
    repairs,    \* the refused confirmations that wait for a new context
    left        \* whether and how the visitor left the form

server == <<catalog, today, taken, changes>>
vars == <<server, confirms, shared, context, selection, cache, load, search, confirm, repairs, left>>

Days == 1..(LastDay + Reach)
Window(first) == first..(first + Reach)
Keys == Services \X Resources \X Days
Details == {"empty", "refused", "good"}
AllSteps == {"service", "resource", "dateTime", "details", "review"}
-----------------------------------------------------------------------------
(* What the server answers. *)

Starts(s, r, d) == {t \in Fits[s] : <<r, d, t>> \notin taken}
Offered(s, r) == catalog # None /\ r \in catalog[s]

Availability(s, r, d) ==
    IF Offered(s, r) /\ d \in Window(today) THEN Starts(s, r, d) ELSE None

\* The first day of the window, from the given one on, with a free start.
NextAvailability(s, r, from) ==
    LET found == {d \in Window(today) : d >= from /\ Starts(s, r, d) # {}}
    IN  IF ~Offered(s, r) \/ from \notin Window(today) \/ found = {} THEN None
        ELSE CHOOSE d \in found : \A e \in found : d <= e

CreateAnswer(c) ==
    IF c.details = "refused" THEN "field"
    ELSE IF ~Offered(c.service, c.resource) THEN "not_found"
    ELSE IF c.date \notin Window(today) THEN "window"
    ELSE IF c.time \notin Starts(c.service, c.resource, c.date) THEN "slot"
    ELSE "booked"
-----------------------------------------------------------------------------
(* The rules of the form. *)

Listed(data) == {s \in Services : data.offers[s] # {}}
Only(S) == CHOOSE x \in S : S = {x}
Single(S) == Cardinality(S) = 1

VisibleBookingSteps(data, s) ==
    LET listed == Listed(data)
        shown == IF s \in listed THEN {s} ELSE IF Single(listed) THEN listed ELSE {}
        services == IF Cardinality(listed) > 1 THEN <<"service">> ELSE <<>>
        resources == IF \E x \in shown : Cardinality(data.offers[x]) > 1 THEN <<"resource">> ELSE <<>>
    IN  services \o resources \o <<"dateTime", "details", "review">>

CurrentStep(data, sel) ==
    LET steps == VisibleBookingSteps(data, sel.service)
    IN  IF Contains(steps, sel.step) THEN sel.step ELSE steps[1]

\* The step's place among the visible ones, from 1.
StepIndex(data, sel) ==
    LET steps == VisibleBookingSteps(data, sel.service)
        current == CurrentStep(data, sel)
    IN  CHOOSE i \in DOMAIN steps : steps[i] = current

\* A single service, and its single resource, are selected without asking.
InitialBookingSelection(data) ==
    LET s == IF Single(Listed(data)) THEN Only(Listed(data)) ELSE None
    IN  [service |-> s,
         resource |-> IF s # None /\ Single(data.offers[s]) THEN Only(data.offers[s]) ELSE None]

ResourceAfterServiceChange(data, s, previous) ==
    IF s \notin Listed(data) THEN None
    ELSE IF Single(data.offers[s]) THEN Only(data.offers[s])
    ELSE IF previous \in data.offers[s] THEN previous ELSE None

Usable(data, sel) ==
    sel.service \in Listed(data) /\ sel.resource \in data.offers[sel.service]

\* The answer on display for the selection.
Shown(c, sel) ==
    LET key == <<sel.service, sel.resource, sel.date>>
    IN  IF key \in Keys THEN c[key] ELSE None

\* The three effects of the page: the initial selection, the fallback of the
\* step, and a time that is not offered any more.
Effects(data, sel, c) ==
    IF data = None THEN sel ELSE
    LET initial == InitialBookingSelection(data)
        filled == [sel EXCEPT !.service = IF @ = None THEN initial.service ELSE @,
                              !.resource = IF @ = None THEN initial.resource ELSE @]
    IN  [filled EXCEPT !.step = CurrentStep(data, filled),
                       !.time = IF @ # None /\ Shown(c, filled) # None /\ @ \notin Shown(c, filled)
                                THEN None ELSE @]

\* A confirmation is outdated when its service or its resource is gone.
Outdated(data, W) ==
    {c \in W : c.service \notin Listed(data) \/ c.resource \notin data.offers[c.service]}

RepairedResource(data, c) == ResourceAfterServiceChange(data, c.service, None)

RepairedStep(data, c) ==
    IF c.service \notin Listed(data) THEN VisibleBookingSteps(data, None)[1]
    ELSE IF c \in Outdated(data, {c}) /\ RepairedResource(data, c) = None THEN "resource"
    ELSE "dateTime"

\* Of the repairs W that wait, last comes last, and by is the last of those
\* that set the resource, if there are any.
RepairedLast(data, W, last, by) ==
    /\ last \in W /\ by \in W
    /\ Outdated(data, W) # {} => by \in Outdated(data, W)
    /\ last \in Outdated(data, W) => by = last

Repaired_KeepsResource(data, sel, W, last, by) ==
    [sel EXCEPT
        !.time = None,
        !.date = IF \A c \in W : c.date \in Window(data.first) THEN @ ELSE data.first,
        !.service = IF \A c \in W : c.service \in Listed(data) THEN @ ELSE None,
        !.resource = IF \A c \in W : c.service \in Listed(data) THEN @ ELSE None,
        !.step = RepairedStep(data, last)]

\* The selection after the confirmations W were refused because the offers
\* changed.  A repair looks at what was confirmed, not at what is selected now,
\* and where two repairs set the same choice the later one wins.
Repaired(data, sel, W, last, by) ==
    [sel EXCEPT
        !.time = None,
        !.date = IF \A c \in W : c.date \in Window(data.first) THEN @ ELSE data.first,
        !.service = IF \A c \in W : c.service \in Listed(data) THEN @ ELSE None,
        !.resource = IF Outdated(data, W) = {} THEN @ ELSE RepairedResource(data, by),
        !.step = RepairedStep(data, last)]
-----------------------------------------------------------------------------
Render_WithoutAbort(data, sel, c) ==
    /\ selection' = Effects(data, sel, c)
    /\ cache' = c
    /\ load' = IF data = None \/ selection'.date = None \/ load = "sent" THEN load
               ELSE IF Usable(data, selection') /\ Shown(c, selection') = None THEN "sent" ELSE "idle"

\* The page with a selection, a context and answers, after its effects.  The
\* times of another selection are asked for unless a fresh answer is cached;
\* the request of a selection that was left is aborted.
Render(data, sel, c) ==
    /\ selection' = Effects(data, sel, c)
    /\ cache' = c
    /\ LET enabled(d, x) == d # None /\ x.date # None /\ Usable(d, x)
           key(x) == <<x.service, x.resource, x.date>>
       IN  IF ~enabled(data, selection') THEN load' = "idle"
           ELSE IF enabled(context.data, selection) /\ key(selection') = key(selection)
           THEN UNCHANGED load
           ELSE load' \in {"sent"} \cup {x \in {"idle"} : Shown(c, selection') # None}

Choose(sel) == Render(context.data, sel, cache)

\* The form is on the screen.
FormShown ==
    /\ left = "no"
    /\ context.data # None /\ context.error = "no"
    /\ Listed(context.data) # {}

At(step) == FormShown /\ CurrentStep(context.data, selection) = step
Others == <<server, confirms, shared, context, search, confirm, repairs, left>>

ChooseService(s) ==
    /\ At("service") /\ s \in Listed(context.data) /\ s # selection.service
    /\ Choose([selection EXCEPT !.service = s, !.time = None,
                  !.resource = ResourceAfterServiceChange(context.data, s, @)])
    /\ UNCHANGED Others

ChooseResource_KeepsTime(r) ==
    /\ At("resource") /\ selection.service \in Listed(context.data)
    /\ r \in context.data.offers[selection.service]
    /\ Choose([selection EXCEPT !.resource = r])
    /\ UNCHANGED Others

ChooseResource(r) ==
    /\ At("resource") /\ selection.service \in Listed(context.data)
    /\ r \in context.data.offers[selection.service]
    /\ Choose([selection EXCEPT !.resource = r, !.time = None])
    /\ UNCHANGED Others

ChooseDate(d) ==
    /\ At("dateTime") /\ d \in Window(context.data.first)
    /\ Choose([selection EXCEPT !.date = d, !.time = None])
    /\ UNCHANGED Others

ChooseTime(t) ==
    /\ Shown(cache, selection) # None /\ t \in Shown(cache, selection)
    /\ At("dateTime")
    /\ Choose([selection EXCEPT !.time = t])
    /\ UNCHANGED Others

TypeDetails(x) ==
    /\ At("details")
    /\ Choose([selection EXCEPT !.details = x])
    /\ UNCHANGED Others

CanContinue ==
    /\ FormShown
    /\ LET step == CurrentStep(context.data, selection)
       IN  \/ step = "service" /\ selection.service \in Listed(context.data)
           \/ step = "resource" /\ Usable(context.data, selection)
           \/ step = "dateTime" /\ selection.date # None /\ selection.time # None
           \/ step = "details" /\ selection.details # "empty"

Advance ==
    /\ CanContinue
    /\ LET steps == VisibleBookingSteps(context.data, selection.service)
       IN  Choose([selection EXCEPT !.step = steps[StepIndex(context.data, selection) + 1]])
    /\ UNCHANGED Others

\* Back, the progress bar and the Edit links of the review: to an earlier step.
GoBack ==
    /\ FormShown
    /\ LET steps == VisibleBookingSteps(context.data, selection.service)
       IN  \E i \in 1..StepIndex(context.data, selection) - 1 :
              Choose([selection EXCEPT !.step = steps[i]])
    /\ UNCHANGED Others

RetryAvailability ==
    /\ load = "failed" /\ At("dateTime")
    /\ load' = "sent"
    /\ UNCHANGED <<Others, selection, cache>>

FindNextAvailable ==
    /\ search = None /\ Shown(cache, selection) = {} /\ At("dateTime")
    /\ search' = [service |-> selection.service, resource |-> selection.resource,
                  from |-> selection.date, first |-> context.data.first]
    /\ UNCHANGED <<server, confirms, shared, context, selection, cache, load, confirm, repairs, left>>

Confirm ==
    /\ confirm = None /\ confirms < MaxConfirms /\ At("review")
    /\ Usable(context.data, selection) /\ selection.date # None /\ selection.time # None
    /\ confirm' = [service |-> selection.service, resource |-> selection.resource,
                   date |-> selection.date, time |-> selection.time,
                   details |-> selection.details, reply |-> None]
    /\ confirms' = confirms + 1
    /\ UNCHANGED <<server, shared, context, selection, cache, load, search, repairs, left>>

RetryContext ==
    /\ left = "no" /\ context.error = "failed" /\ ~context.loading
    /\ context' = [context EXCEPT !.loading = TRUE]
    /\ UNCHANGED <<server, confirms, shared, selection, cache, load, search, confirm, repairs, left>>
-----------------------------------------------------------------------------
(* Answers as the page receives them. *)

\* All repairs that wait go over the answer, or over the old one when the fetch
\* failed; in which order, the query library leaves open.
AnswerContext ==
    /\ left = "no" /\ context.loading
    /\ \E error \in {"failed"} \cup {x \in {"no"} : catalog # None}
                               \cup {x \in {"missing"} : catalog = None} :
        LET data == IF error = "no" THEN [offers |-> catalog, first |-> today] ELSE context.data
        IN  /\ context' = [data |-> data, error |-> error, loading |-> FALSE]
            /\ IF repairs = {} THEN Render(data, selection, cache)
               ELSE \E last, by \in repairs :
                      /\ RepairedLast(data, repairs, last, by)
                      /\ Render(data, Repaired(data, selection, repairs, last, by), cache)
    /\ repairs' = {}
    /\ UNCHANGED <<server, confirms, shared, search, confirm, left>>

AnswerAvailability ==
    /\ left = "no" /\ load = "sent"
    /\ LET key == <<selection.service, selection.resource, selection.date>>
           starts == Availability(selection.service, selection.resource, selection.date)
       IN  \/ /\ starts # None
              /\ cache' = [cache EXCEPT ![key] = starts]
              /\ selection' = Effects(context.data, selection, cache')
              /\ load' = "idle"
           \/ load' = "failed" /\ UNCHANGED <<cache, selection>>
    /\ UNCHANGED Others

AnswerSearch_KeepsTime ==
    /\ left = "no" /\ search # None
    /\ LET d == NextAvailability(search.service, search.resource, search.from)
           moved == IF d \in Window(search.first) THEN [selection EXCEPT !.date = d] ELSE selection
           starts == Starts(search.service, search.resource, d)
       IN  /\ d # None
           /\ Render(context.data, moved,
                     [cache EXCEPT ![<<search.service, search.resource, d>>] = starts])
    /\ search' = None
    /\ UNCHANGED <<server, confirms, shared, context, confirm, repairs, left>>

\* The answer is applied to whatever is selected when it comes, and cached
\* for the selection the search was for.
AnswerSearch ==
    /\ left = "no" /\ search # None
    /\ LET d == NextAvailability(search.service, search.resource, search.from)
           moved == IF d \in Window(search.first)
                    THEN [selection EXCEPT !.date = d, !.time = None] ELSE selection
           starts == Starts(search.service, search.resource, d)
       IN  \/ /\ d # None
              /\ Render(context.data, moved,
                        [cache EXCEPT ![<<search.service, search.resource, d>>] = starts])
           \/ UNCHANGED <<selection, cache, load>>
    /\ search' = None
    /\ UNCHANGED <<server, confirms, shared, context, confirm, repairs, left>>

\* The server decides on the confirmation, or fails before it does.
DecideConfirm ==
    /\ confirm # None /\ confirm.reply = None
    /\ \E reply \in {CreateAnswer(confirm), "failed"} :
        /\ confirm' = [confirm EXCEPT !.reply = reply]
        /\ taken' = IF reply = "booked"
                    THEN taken \cup {<<confirm.resource, confirm.date, confirm.time>>} ELSE taken
    /\ UNCHANGED <<catalog, today, changes, confirms, shared, context, selection, cache, load, search, repairs, left>>

\* The reply is lost on its way.
LoseReply ==
    /\ confirm # None /\ confirm.reply \notin {None, "failed"}
    /\ confirm' = [confirm EXCEPT !.reply = "failed"]
    /\ UNCHANGED <<server, confirms, shared, context, selection, cache, load, search, repairs, left>>

Booked ==
    /\ confirm.reply = "booked"
    /\ left' = "booked"
    /\ UNCHANGED <<context, selection, cache, load, repairs>>

SlotUnavailable ==
    /\ confirm.reply = "slot"
    /\ selection' = Effects(context.data, [selection EXCEPT !.time = None, !.step = "dateTime"], cache)
    /\ load' = IF Usable(context.data, selection) /\ selection.date # None THEN "sent" ELSE load
    /\ UNCHANGED <<context, cache, repairs, left>>

LinkUnavailable ==
    /\ confirm.reply = "not_found" /\ shared
    /\ left' = "link"
    /\ UNCHANGED <<context, selection, cache, load, repairs>>

\* The repair waits for the new answer.  One that waits already goes on waiting:
\* its fetch is replaced by the new one.
OptionsChanged ==
    /\ confirm.reply = "window" \/ (confirm.reply = "not_found" /\ ~shared)
    /\ context' = [context EXCEPT !.loading = TRUE]
    /\ repairs' = repairs \cup {confirm}
    /\ UNCHANGED <<selection, cache, load, left>>

FieldRefused ==
    /\ confirm.reply = "field"
    /\ Choose([selection EXCEPT !.step = "details"])
    /\ UNCHANGED <<context, repairs, left>>

ConfirmFailed ==
    /\ confirm.reply = "failed"
    /\ UNCHANGED <<context, selection, cache, load, repairs, left>>

AnswerConfirm ==
    /\ left = "no" /\ confirm # None
    /\ confirm.reply # None
    /\ Booked \/ SlotUnavailable \/ LinkUnavailable \/ OptionsChanged \/ FieldRefused \/ ConfirmFailed
    /\ confirm' = None
    /\ UNCHANGED <<server, confirms, shared, search>>
-----------------------------------------------------------------------------
(* Around the visitor. *)

Change ==
    /\ left = "no" /\ changes < MaxChanges
    /\ changes' = changes + 1
    /\ UNCHANGED <<confirms, shared, search, confirm, repairs, left>>

OthersBook(r, d, t) ==
    /\ Change
    /\ <<r, d, t>> \notin taken
    /\ taken' = taken \cup {<<r, d, t>>}
    /\ UNCHANGED <<catalog, today, context, selection, cache, load>>

OffersChange(c) ==
    /\ Change
    /\ catalog' = c
    /\ c # catalog
    /\ UNCHANGED <<today, taken, context, selection, cache, load>>

DayPasses ==
    /\ Change
    /\ today < LastDay
    /\ today' = today + 1
    /\ UNCHANGED <<catalog, taken, context, selection, cache, load>>

\* The browser was offline: answers older than 30 seconds are asked for again.
Reconnect ==
    /\ Change
    /\ context.data # None
    /\ context' \in {context, [context EXCEPT !.loading = TRUE]}
    /\ load' \in {load} \cup {x \in {"sent"} : Usable(context.data, selection) /\ selection.date # None}
    /\ UNCHANGED <<catalog, today, taken, selection, cache>>
-----------------------------------------------------------------------------
Init ==
    /\ catalog \in Catalogs /\ today = 1 /\ taken = {}
    /\ changes = 0 /\ confirms = 0
    /\ shared \in BOOLEAN
    /\ context = [data |-> None, error |-> "no", loading |-> TRUE]
    /\ selection = [step |-> "service", service |-> None, resource |-> None,
                    date |-> None, time |-> None, details |-> "empty"]
    /\ cache = [k \in Keys |-> None]
    /\ load = "idle"
    /\ search = None /\ confirm = None /\ repairs = {}
    /\ left = "no"

Visitor ==
    \/ \E s \in Services : ChooseService(s)
    \/ \E r \in Resources : ChooseResource(r)
    \/ \E d \in Days : ChooseDate(d)
    \/ \E t \in Times : ChooseTime(t)
    \/ \E x \in Details : TypeDetails(x)
    \/ Advance
    \/ GoBack
    \/ RetryAvailability \/ FindNextAvailable \/ Confirm \/ RetryContext

Answers ==
    \/ AnswerContext \/ AnswerAvailability \/ AnswerSearch
    \/ DecideConfirm \/ LoseReply \/ AnswerConfirm

World ==
    \/ \E r \in Resources, d \in Days, t \in Times : OthersBook(r, d, t)
    \/ \E c \in Catalogs \cup {None} : OffersChange(c)
    \/ DayPasses \/ Reconnect

Next == Visitor \/ Answers \/ World

Spec == Init /\ [][Next]_vars
-----------------------------------------------------------------------------
Selections ==
    [step : AllSteps, service : Services \cup {None}, resource : Resources \cup {None},
     date : Days \cup {None}, time : Times \cup {None}, details : Details]

\* The page keeps the shapes of its state: unset choices are empty, and a
\* context on display has an answer behind it.
TypeOK ==
    /\ catalog \in Catalogs \cup {None} /\ today \in 1..LastDay
    /\ taken \subseteq Resources \X Days \X Times
    /\ selection \in Selections
    /\ cache \in [Keys -> (SUBSET Times) \cup {None}]
    /\ load \in {"idle", "sent", "failed"}
    /\ context.data # None => context.data.offers \in Catalogs
    /\ repairs # {} => context.loading
    /\ load = "sent" => Usable(context.data, selection) /\ selection.date # None

\* A time that is selected is one the server offered for the very service,
\* resource and date that are selected with it: changes of the selection, late
\* searches and repairs all clear or keep it rightly (setTime in
\* public-booking-page.tsx).
TimeWasOffered ==
    selection.time # None =>
        /\ Shown(cache, selection) # None
        /\ selection.time \in Shown(cache, selection)

\* What is selected is offered, or is to be selected at the step shown.
CanGoOn(data, sel) ==
    \/ Usable(data, sel) /\ sel.date \in Window(data.first)
    \/ Contains(VisibleBookingSteps(data, sel.service), sel.step) /\ sel.step \in {"service", "resource"}

\* Once the refused confirmations have been repaired, the visitor who left her
\* selection alone meanwhile can go on (confirm in public-booking-page.tsx).
RepairedAndOn ==
    /\ repairs # {} /\ repairs' = {} /\ context.loading
    /\ \A c \in repairs, f \in {"service", "resource", "date"} : selection[f] = c[f]
    /\ Listed(context'.data) # {}
    => CanGoOn(context'.data, selection')
RepairLeadsOn == [][RepairedAndOn]_vars

\* The choices on the page hang together, and a selected time was offered.
SelectionConsistent == TypeOK /\ TimeWasOffered
=============================================================================
