-------------------------------- MODULE Drafts --------------------------------
(***************************************************************************)
(* The schedule pages: editors that keep a local draft over cached server  *)
(* data (weekly hours of the organization and of a resource, exceptions of *)
(* a date, booking rules), and the guard that asks before a change of tab, *)
(* resource, date or page throws a draft away.  Saves and fetches answer   *)
(* late, other managers save too.                                          *)
(*                                                                         *)
(* A draft is what its text reads as, followed by nothing, or by a time    *)
(* that cannot be read, or by an empty list of custom intervals.           *)
(* The mark of an editor is for the properties alone: whether its draft is *)
(* new, typed by the user, or has since been replaced by data.             *)
(* Organizations that are read-only and resources that go are left out.    *)
(***************************************************************************)
EXTENDS Naturals, FiniteSets

CONSTANTS
    Editors,        \* the editors in use, of those TabOf knows
    Resources, Dates,
    Hours,          \* contents that can be stored
    MaxMoves,       \* bound on changes of place that were carried out
    MaxSaves,       \* bound on saves, by this page and by others
    None, Unknown, Empty     \* no contents, all different

VARIABLES
    server,         \* what is stored, by key
    cache,          \* the page's answer for each key: its value, whether it is
                    \* invalid, and whether an error hides it since a fetch failed
    fetch,          \* the fetch of each key: none, under way, or what it has read
    place,          \* tab, resource and date on the screen
    editor,         \* each mounted editor: key, draft, stored, and its mark
    save,           \* each editor's save under way
    ask,            \* the open dialog "Unsaved changes"
    moves, saves

vars == <<server, cache, fetch, place, editor, save, ask, moves, saves>>

Stored == Hours \cup {None}
Contents == [hours : Stored, text : {"read", "unreadable", "empty"}]
Places == [tab : {"hours", "exceptions", "rules", "elsewhere"}, resource : Resources, date : Dates]

TabOf(e) ==
    CASE e \in {"organization hours", "resource hours"} -> "hours"
      [] e \in {"organization exception", "resource exception"} -> "exceptions"
      [] e = "rules" -> "rules"

OfResource == {"resource hours", "resource exception"}
OfDate == {"organization exception", "resource exception"}

\* The query key of an editor's data.
KeyAt(e, p) == [editor |-> e,
                resource |-> IF e \in OfResource THEN p.resource ELSE None,
                date |-> IF e \in OfDate THEN p.date ELSE None]
Keys == {KeyAt(e, p) : e \in Editors, p \in Places}

\* A mounted editor.
Editing == [key : Keys, draft : Contents, stored : Stored, mark : {"new", "typed", "replaced"}]

\* What the constants have to be: of a resource's hours those of its organization
\* are on the screen too, and the values that stand for nothing are no others.
ConstantsFit ==
    /\ Editors \subseteq {"organization hours", "resource hours", "rules"} \cup OfDate
    /\ "resource hours" \in Editors => "organization hours" \in Editors
    /\ Unknown \notin Stored
    /\ None \notin Editing
-----------------------------------------------------------------------------
(* One editor.                                                             *)

Shown(h) == [hours |-> h, text |-> "read"]

\* What each editor's comparison with the stored content sees of a draft: a day
\* of the organization that cannot be read counts as closed, and an exception
\* is what comes before the interval that cannot be read.
OrganizationHoursRead(d) == IF d.text = "read" THEN d.hours ELSE None
ResourceHoursRead(d) == IF d.text = "read" THEN d.hours ELSE Empty
ExceptionRead(d) == IF d.text = "read" \/ (d.text = "unreadable" /\ d.hours # None) THEN d.hours ELSE Empty
RulesRead(d) == IF d.text = "read" THEN d.hours ELSE Empty

Compared(e, d) ==
    CASE e = "organization hours" -> OrganizationHoursRead(d)
      [] e = "resource hours" -> ResourceHoursRead(d)
      [] e \in OfDate -> ExceptionRead(d)
      [] e = "rules" -> RulesRead(d)

Dirty(e, r) == Compared(e, r.draft) # r.stored

\* An exception starts with its mode and without intervals; that makes it
\* dirty when it is a custom one, and the effect that would fill in the
\* intervals leaves a dirty draft alone.
Opened(e, k, v) ==
    [key |-> k,
     draft |-> IF e \in OfDate /\ v # None THEN [hours |-> None, text |-> "empty"] ELSE Shown(v),
     stored |-> v, mark |-> "new"]

Synced_Always(e, r, v) == [r EXCEPT !.draft = Shown(v), !.stored = v]

Synced_KeepsDraft(e, r, v) == [r EXCEPT !.stored = v]

\* New data reaches a mounted editor: an unsaved draft stays.
Synced(e, r, v) ==
    IF Dirty(e, r) THEN [r EXCEPT !.stored = v]
    ELSE [r EXCEPT !.draft = Shown(v), !.stored = v, !.mark = IF @ = "typed" THEN "replaced" ELSE @]

Mountable_AnyTab(e, p, c) ==
    /\ p.tab # "elsewhere"
    /\ c[KeyAt(e, p)].value # Unknown
    /\ TabOf(e) = "hours" => ~c[KeyAt("organization hours", p)].failed
    /\ e = "resource hours" => c[KeyAt("organization hours", p)].value # Unknown

\* Only the editors of the tab are there, once their data is.  Both editors of
\* hours are under the answer about the organization's: an error takes its
\* place, even when there is older data.
Mountable(e, p, c) ==
    /\ TabOf(e) = p.tab
    /\ c[KeyAt(e, p)].value # Unknown
    /\ TabOf(e) = "hours" => ~c[KeyAt("organization hours", p)].failed
    /\ e = "resource hours" => c[KeyAt("organization hours", p)].value # Unknown

Mounted_AnyKey(e, r, p, c) ==
    IF ~Mountable(e, p, c) THEN None
    ELSE IF r # None THEN [r EXCEPT !.key = KeyAt(e, p)]
    ELSE Opened(e, KeyAt(e, p), c[KeyAt(e, p)].value)

\* The editor of e at place p over the cached data c: a new component for
\* another resource or date.
Mounted(e, r, p, c) ==
    IF ~Mountable(e, p, c) THEN None
    ELSE IF r # None /\ r.key = KeyAt(e, p) THEN r
    ELSE Opened(e, KeyAt(e, p), c[KeyAt(e, p)].value)
-----------------------------------------------------------------------------
(* Editing and saving.                                                     *)

\* What can be typed: a closed day, an inherited one and one without custom
\* intervals are different things for a resource and a date.
OrganizationHoursText == {d \in Contents : d.text # "empty"}
ResourceHoursText == {d \in Contents : d.text = "empty" => d.hours = None}
ExceptionText == {d \in Contents : d.text = "empty" => d.hours = None}
RulesText == {d \in Contents : d.text # "empty"}

TextOf(e) ==
    CASE e = "organization hours" -> OrganizationHoursText
      [] e = "resource hours" -> ResourceHoursText
      [] e \in OfDate -> ExceptionText
      [] e = "rules" -> RulesText

\* The save the page shows as pending: its owner is still mounted.
Saving(e) == save[e] # None /\ save[e].owned

\* The editor is on the screen.  An error hides the form of the rules, whose
\* draft stays; above an exception or a resource's hours it is only a message.
OnScreen(e) ==
    /\ editor[e] # None
    /\ e = "rules" => ~cache[editor[e].key].failed

Edit(e, d) ==
    /\ ask = None /\ OnScreen(e) /\ ~Saving(e)
    /\ d \in TextOf(e) /\ d # editor[e].draft
    /\ editor' = [editor EXCEPT ![e].draft = d, ![e].mark = "typed"]
    /\ UNCHANGED <<server, cache, fetch, place, save, ask, moves, saves>>

Save(e) ==
    /\ ask = None /\ OnScreen(e) /\ save[e] = None /\ saves < MaxSaves
    /\ editor[e].draft.text = "read" /\ Dirty(e, editor[e])
    /\ saves' = saves + 1
    /\ save' = [save EXCEPT ![e] = [key |-> editor[e].key, hours |-> editor[e].draft.hours, reply |-> "none",
                                    here |-> TRUE, owned |-> TRUE, refresh |-> editor[e].key]]
    /\ UNCHANGED <<server, cache, fetch, place, editor, ask, moves>>

\* The whole week, day or set of rules is replaced.
Store(e) ==
    /\ save[e] # None /\ save[e].reply = "none"
    /\ \/ /\ server' = [server EXCEPT ![save[e].key] = save[e].hours]
          /\ \E r \in {"done", "failed"} : save' = [save EXCEPT ![e].reply = r]
       \/ /\ save' = [save EXCEPT ![e].reply = "failed"]
          /\ UNCHANGED server
    /\ UNCHANGED <<cache, fetch, place, editor, ask, moves, saves>>

\* The component that fetches and saves an editor's data is on the screen: the
\* schedule page for the hours, the tab for the others.
OwnerAt(e, p) == IF TabOf(e) = "hours" THEN p.tab # "elsewhere" ELSE p.tab = TabOf(e)

WatchedAt(p) == {KeyAt(e, p) : e \in {x \in Editors : OwnerAt(x, p)}}

\* Success invalidates the data: a fetch under way is dropped, and data on
\* the screen is fetched at once.  Its key is that of the place by now.
Answer(e) ==
    /\ save[e] # None /\ save[e].reply \in {"done", "failed"}
    /\ save' = [save EXCEPT ![e] = None]
    /\ IF save[e].reply = "failed" THEN UNCHANGED <<cache, fetch, editor>>
       ELSE LET k == save[e].refresh
            IN  /\ cache' = [cache EXCEPT ![k].invalid = TRUE]
                /\ fetch' = [fetch EXCEPT ![k] = IF k \in WatchedAt(place) THEN Unknown ELSE None]
                /\ editor' = IF save[e].here
                             THEN [editor EXCEPT ![e].stored = save[e].hours] ELSE editor
    /\ UNCHANGED <<server, place, ask, moves, saves>>
-----------------------------------------------------------------------------
(* Fetching.  In fetch, None is no fetch and Unknown one without answer.   *)

Read(k) ==
    /\ fetch[k] = Unknown
    /\ fetch' = [fetch EXCEPT ![k] = [read |-> server[k]]]
    /\ UNCHANGED <<server, cache, place, editor, save, ask, moves, saves>>

Arrive(k) ==
    /\ fetch[k] \notin {None, Unknown}
    /\ LET v == fetch[k].read
           c == [cache EXCEPT ![k] = [value |-> v, invalid |-> FALSE, failed |-> FALSE]]
       IN  /\ cache' = c
           /\ editor' = [e \in Editors |->
                LET r == editor[e]
                IN  Mounted(e, IF r # None /\ r.key = k /\ v # cache[k].value THEN Synced(e, r, v) ELSE r, place, c)]
    /\ fetch' = [fetch EXCEPT ![k] = None]
    /\ UNCHANGED <<server, place, save, ask, moves, saves>>

\* Over their data the pages show the error of these.
ErrorFirst == {"organization hours", "rules"}

\* The data stays, but a page that looks for an error first shows it instead,
\* until a fetch succeeds: an editor that goes takes its draft along.
FetchFails(k) ==
    /\ fetch[k] # None
    /\ fetch' = [fetch EXCEPT ![k] = None]
    /\ cache' = [cache EXCEPT ![k].failed = k.editor \in ErrorFirst /\ cache[k].value # Unknown]
    /\ editor' = [e \in Editors |-> Mounted(e, editor[e], place, cache')]
    /\ save' = [e \in Editors |->
         IF save[e] = None THEN None ELSE [save[e] EXCEPT !.here = @ /\ editor'[e] # None]]
    /\ UNCHANGED <<server, place, ask, moves, saves>>

\* The browser is online again, or "Try again" after an error.
Refetch(k) ==
    /\ k \in WatchedAt(place) /\ fetch[k] = None
    /\ fetch' = [fetch EXCEPT ![k] = Unknown]
    /\ UNCHANGED <<server, cache, place, editor, save, ask, moves, saves>>

OthersSave(k, h) ==
    /\ saves < MaxSaves /\ h # server[k]
    /\ saves' = saves + 1
    /\ server' = [server EXCEPT ![k] = h]
    /\ UNCHANGED <<cache, fetch, place, editor, save, ask, moves>>
-----------------------------------------------------------------------------
(* Going somewhere else, and the guard.                                    *)

\* Fetches nobody waits for any more are aborted; data that comes on the
\* screen is fetched when missing or invalid, or older than half a minute.
Go(p) ==
    LET new == [e \in Editors |-> Mounted(e, editor[e], p, cache)]
        must == {k \in WatchedAt(p) \ WatchedAt(place) : cache[k].value = Unknown \/ cache[k].invalid}
    IN  /\ place' = p /\ editor' = new
        /\ save' = [e \in Editors |->
             IF save[e] = None THEN None
             ELSE LET owned == save[e].owned /\ OwnerAt(e, p)
                  IN  [save[e] EXCEPT
                         !.owned = owned,
                         !.refresh = IF owned THEN KeyAt(e, p) ELSE @,
                         !.here = @ /\ new[e] # None /\ TabOf(e) = place.tab /\ KeyAt(e, p) = KeyAt(e, place)]]
        /\ \E old \in SUBSET (WatchedAt(p) \ WatchedAt(place)) :
            /\ must \subseteq old
            /\ fetch' = [k \in Keys |-> IF k \notin WatchedAt(p) THEN None
                                       ELSE IF k \in old /\ fetch[k] = None THEN Unknown ELSE fetch[k]]

\* The drafts a change of place asks about, by the tags they are registered
\* with: a new page asks about all, a new tab about those of the tab, a new
\* resource or date about those that belong to the one on the screen.
Concerned_WithoutDates(p) ==
    {e \in Editors : \/ p.tab # place.tab
                     \/ p.resource # place.resource /\ e \in OfResource
                     \/ p.date # place.date /\ e = "organization exception"}

Concerned(p) ==
    {e \in Editors : \/ p.tab # place.tab
                     \/ p.resource # place.resource /\ e \in OfResource
                     \/ p.date # place.date /\ e \in OfDate}

DirtyAmong(S) == {e \in S : editor[e] # None /\ Dirty(e, editor[e])}

OneChange(p) ==
    \/ p.tab # place.tab /\ p = [place EXCEPT !.tab = p.tab]
    \/ p.resource # place.resource /\ p = [place EXCEPT !.resource = p.resource] /\ p.tab \in {"hours", "exceptions"}
    \/ p.date # place.date /\ p = [place EXCEPT !.date = p.date] /\ p.tab = "exceptions"

RequestChange(p) ==
    /\ ask = None /\ moves < MaxMoves /\ OneChange(p)
    /\ moves' = moves + 1
    /\ IF DirtyAmong(Concerned(p)) = {}
       THEN Go(p) /\ UNCHANGED ask
       ELSE ask' = [to |-> p, drafts |-> DirtyAmong(Concerned(p))] /\ UNCHANGED <<place, editor, save, fetch>>
    /\ UNCHANGED <<server, cache, saves>>

KeepEditing ==
    /\ ask # None
    /\ ask' = None
    /\ UNCHANGED <<server, cache, fetch, place, editor, save, moves, saves>>

\* The drafts that were asked about go with the editors that the change takes
\* off the screen.
DiscardAndContinue ==
    /\ ask # None
    /\ ask' = None
    /\ Go(ask.to)
    /\ UNCHANGED <<server, cache, moves, saves>>
-----------------------------------------------------------------------------
Init ==
    /\ server \in [Keys -> Stored]
    /\ cache = [k \in Keys |-> [value |-> Unknown, invalid |-> FALSE, failed |-> FALSE]]
    /\ place \in {p \in Places : p.tab = "elsewhere"}
    /\ fetch = [k \in Keys |-> None]
    /\ editor = [e \in Editors |-> None] /\ save = [e \in Editors |-> None]
    /\ ask = None /\ moves = 0 /\ saves = 0

Next ==
    \/ \E e \in Editors : Save(e) \/ Store(e) \/ Answer(e) \/ \E d \in Contents : Edit(e, d)
    \/ \E k \in Keys : Read(k) \/ Arrive(k) \/ FetchFails(k) \/ Refetch(k) \/ \E h \in Stored : OthersSave(k, h)
    \/ \E p \in Places : RequestChange(p)
    \/ KeepEditing \/ DiscardAndContinue

Spec == Init /\ [][Next]_vars
-----------------------------------------------------------------------------
\* The page keeps the shapes of its state, and the editors on the screen are
\* those of its tab, resource and date.
TypeOK ==
    /\ server \in [Keys -> Stored]
    /\ place \in Places
    /\ \A k \in Keys : cache[k].value \in Stored \cup {Unknown}
    /\ \A e \in Editors : editor[e] # None =>
         /\ TabOf(e) = place.tab /\ editor[e].key = KeyAt(e, place)
         /\ editor[e].draft \in Contents /\ editor[e].stored \in Stored
    /\ ask # None => ask.to \in Places /\ ask.drafts \subseteq Editors

\* An editor nobody has typed in shows what is stored for its own resource and
\* date: "Reset local state when override or date changes"
\* (organization-date-override.tsx, resource-date-override.tsx).
UntouchedAsStored ==
    \A e \in Editors : editor[e] # None /\ editor[e].mark = "new" =>
        editor[e].stored = cache[editor[e].key].value /\ editor[e].draft = Shown(editor[e].stored)

Unsaved(e) == e \in DirtyAmong(Editors) /\ editor[e].mark = "typed"

KeptOrAsked(e) ==
    \/ editor'[e] # None /\ editor'[e].draft = editor[e].draft
    \/ \E d \in Contents : Edit(e, d)
    \/ DiscardAndContinue /\ e \in ask.drafts

\* Unsaved work leaves an editor by its user's typing, or after the dialog has
\* asked about this very draft (discard-changes-dialog.tsx).  The error that
\* takes the place of the editors of hours breaks it.
DraftsKept == \A e \in Editors : Unsaved(e) => KeptOrAsked(e)
UnsavedIsAskedAbout == [][DraftsKept]_vars

\* Only that error loses unsaved work unasked, and only that of the hours: no
\* answer, no other manager's save, no other error and no change of place takes
\* a draft away (useUnsavedChanges in unsaved-changes.tsx).  Text that cannot be
\* read is protected only where the comparison sees it.
DraftsKeptButForErrors ==
    \A e \in Editors : Unsaved(e) =>
        \/ KeptOrAsked(e)
        \/ TabOf(e) = "hours" /\ FetchFails(KeyAt("organization hours", place))
OnlyErrorsLoseDrafts == [][DraftsKeptButForErrors]_vars

\* The editors on the screen are those of the place, and one that nobody touched
\* shows what is stored.
EditorsConsistent == TypeOK /\ UntouchedAsStored
=============================================================================
