---------------------------- MODULE PagesProofs ----------------------------
(***************************************************************************)
(* Theorems about the pages of the web client.                             *)
(*   BookingPage   the selection is the offers', and repairs lead on;      *)
(*   ManagePage    the page shows the booking of its link, and does not    *)
(*                 take a shown cancellation back (instance Manage);       *)
(*   PlatformDesk  decisions and texts belong to their dialog (Desk);      *)
(*   Drafts        editors show what is stored, and no unsaved draft is    *)
(*                 lost unasked (Tabs).                                    *)
(* The pages share no state; what an instance renames is named like the    *)
(* variables of MCPages and MCSetup.  What the constants of an instance    *)
(* have to be is a hypothesis of its theorems (NamesApart, ConstantsFit).  *)
(***************************************************************************)
EXTENDS BookingPage, FiniteSetTheorems, TLAPS

USE SizesAssumption, OffersAssumption, NoneAssumption

-----------------------------------------------------------------------------
(* Choosing from finite sets. *)

\* The only element of a set is an element of it, and a finite set that has
\* more than one is neither empty nor a singleton.
LEMMA OnlyOne ==
    ASSUME NEW S, IsFiniteSet(S)
    PROVE  /\ Single(S) => Only(S) \in S /\ S = {Only(S)}
           /\ \A x : S = {x} => Single(S)
           /\ S # {} /\ ~Single(S) <=> Cardinality(S) > 1
  <1>1. Single(S) <=> \E x : S = {x}
    BY FS_Singleton DEF Single
  <1>2. Cardinality(S) \in Nat
    BY FS_CardinalityType
  <1>3. Cardinality(S) = 0 <=> S = {}
    BY FS_EmptySet
  <1>4. ASSUME Single(S)
        PROVE  Only(S) \in S /\ S = {Only(S)}
    BY <1>1, <1>4 DEF Only
  <1> QED
    BY <1>1, <1>2, <1>3, <1>4 DEF Single

-----------------------------------------------------------------------------
(* The steps of the form. *)

Data == [offers : Catalogs, first : 1..LastDay]
Caches == [Keys -> (SUBSET Times) \cup {None}]

\* A selection but for its step.
Chosen(sel) ==
    sel \in [step : {sel.step}, service : Services \cup {None}, resource : Resources \cup {None},
             date : Days \cup {None}, time : Times \cup {None}, details : Details]

\* The service whose resources decide about the step "resource".
ShownServices(data, s) ==
    IF s \in Listed(data) THEN {s} ELSE IF Single(Listed(data)) THEN Listed(data) ELSE {}

\* Offers are finite.
LEMMA OffersFinite ==
    ASSUME NEW data \in Data
    PROVE  /\ IsFiniteSet(Listed(data)) /\ Listed(data) \subseteq Services
           /\ \A s \in Services : data.offers[s] \subseteq Resources /\ IsFiniteSet(data.offers[s])
           /\ \A s \in Listed(data) : data.offers[s] # {}
  <1>1. Listed(data) \in SUBSET Services
    BY DEF Listed
  <1>2. \A s \in Services : data.offers[s] \in SUBSET Resources
    BY DEF Data
  <1> QED
    BY <1>1, <1>2, FS_Subset DEF Listed

\* One to two optional steps and three that are always there, in this order.
LEMMA StepsOf ==
    ASSUME NEW x \in {<<>>, <<"service">>}, NEW y \in {<<>>, <<"resource">>}
    PROVE  LET s == x \o y \o <<"dateTime", "details", "review">> IN
           /\ \A z : Contains(s, z) <=> \/ z \in {"dateTime", "details", "review"}
                                        \/ z = "service" /\ x # <<>>
                                        \/ z = "resource" /\ y # <<>>
           /\ x # <<>> => s[1] = "service"
           /\ x = <<>> /\ y # <<>> => s[1] = "resource"
           /\ x = <<>> /\ y = <<>> => s[1] = "dateTime"
  <1> DEFINE s == x \o y \o <<"dateTime", "details", "review">>
  <1>1. CASE x = <<>> /\ y = <<>>
    <2>1. Len(s) = 3 /\ s[1] = "dateTime" /\ s[2] = "details" /\ s[3] = "review"
      BY <1>1
    <2> HIDE DEF s
    <2>2. \A z : Contains(s, z) <=> z \in {"dateTime", "details", "review"}
      BY <2>1 DEF Contains
    <2> QED
      BY <1>1, <2>1, <2>2 DEF s
  <1>2. CASE x = <<"service">> /\ y = <<>>
    <2>1. /\ Len(s) = 4
          /\ s[1] = "service" /\ s[2] = "dateTime" /\ s[3] = "details" /\ s[4] = "review"
      BY <1>2
    <2> HIDE DEF s
    <2>2. \A z : Contains(s, z) <=> z \in {"service", "dateTime", "details", "review"}
      BY <2>1 DEF Contains
    <2> QED
      BY <1>2, <2>1, <2>2 DEF s
  <1>3. CASE x = <<>> /\ y = <<"resource">>
    <2>1. /\ Len(s) = 4
          /\ s[1] = "resource" /\ s[2] = "dateTime" /\ s[3] = "details" /\ s[4] = "review"
      BY <1>3
    <2> HIDE DEF s
    <2>2. \A z : Contains(s, z) <=> z \in {"resource", "dateTime", "details", "review"}
      BY <2>1 DEF Contains
    <2> QED
      BY <1>3, <2>1, <2>2 DEF s
  <1>4. CASE x = <<"service">> /\ y = <<"resource">>
    <2>1. /\ Len(s) = 5 /\ s[1] = "service" /\ s[2] = "resource"
          /\ s[3] = "dateTime" /\ s[4] = "details" /\ s[5] = "review"
      BY <1>4
    <2> HIDE DEF s
    <2>2. \A z : Contains(s, z) <=> z \in {"service", "resource", "dateTime", "details", "review"}
      BY <2>1 DEF Contains
    <2> QED
      BY <1>4, <2>1, <2>2 DEF s
  <1> QED
    BY <1>1, <1>2, <1>3, <1>4

\* The service step is there when there are several services, the resource
\* step when the service that is shown has several resources; the form starts
\* with the first of them.
LEMMA StepsAre ==
    ASSUME NEW data \in Data, NEW s
    PROVE  LET steps == VisibleBookingSteps(data, s)
               several == Cardinality(Listed(data)) > 1
               choice == \E x \in ShownServices(data, s) : Cardinality(data.offers[x]) > 1
           IN  /\ \A z : Contains(steps, z) <=> \/ z \in {"dateTime", "details", "review"}
                                                \/ z = "service" /\ several
                                                \/ z = "resource" /\ choice
               /\ several => steps[1] = "service"
               /\ ~several /\ choice => steps[1] = "resource"
               /\ ~several /\ ~choice => steps[1] = "dateTime"
  <1> DEFINE several == Cardinality(Listed(data)) > 1
             choice == \E x \in ShownServices(data, s) : Cardinality(data.offers[x]) > 1
             first == IF several THEN <<"service">> ELSE <<>>
             second == IF choice THEN <<"resource">> ELSE <<>>
  <1>1. VisibleBookingSteps(data, s) = first \o second \o <<"dateTime", "details", "review">>
    BY DEF VisibleBookingSteps, ShownServices
  <1>2. first \in {<<>>, <<"service">>} /\ second \in {<<>>, <<"resource">>}
    OBVIOUS
  <1>3. (first # <<>> <=> several) /\ (second # <<>> <=> choice)
    <2>1. <<"service">> # <<>> /\ <<"resource">> # <<>>
      OBVIOUS
    <2> QED
      BY <2>1
  <1> HIDE DEF several, choice, first, second
  <1> QED
    BY <1>1, <1>2, <1>3, StepsOf DEF several, choice

\* The step on the screen is one of the form's.
LEMMA CurrentStepVisible ==
    ASSUME NEW data \in Data, NEW sel
    PROVE  /\ CurrentStep(data, sel) \in AllSteps
           /\ Contains(VisibleBookingSteps(data, sel.service), CurrentStep(data, sel))
           /\ Contains(VisibleBookingSteps(data, sel.service), sel.step) => CurrentStep(data, sel) = sel.step
  BY StepsAre DEF CurrentStep, AllSteps

-----------------------------------------------------------------------------
(* The effects of a step of the page. *)

\* The initial selection is one of the offers'.
LEMMA InitialIs ==
    ASSUME NEW data \in Data
    PROVE  LET initial == InitialBookingSelection(data) IN
           /\ initial.service \in Listed(data) \cup {None}
           /\ initial.service # None <=> Single(Listed(data))
           /\ initial.service # None => Listed(data) = {initial.service}
           /\ initial.resource # None <=> initial.service # None /\ Single(data.offers[initial.service])
           /\ initial.resource # None => data.offers[initial.service] = {initial.resource}
           /\ initial.resource \in Resources \cup {None}
  <1> DEFINE initial == InitialBookingSelection(data)
             s == IF Single(Listed(data)) THEN Only(Listed(data)) ELSE None
  <1>1. /\ initial.service = s
        /\ initial.resource = IF s # None /\ Single(data.offers[s]) THEN Only(data.offers[s]) ELSE None
    BY DEF InitialBookingSelection
  <1>2. CASE Single(Listed(data))
    <2>1. s \in Listed(data) /\ Listed(data) = {s} /\ s \in Services
      BY <1>2, OnlyOne, OffersFinite
    <2>2. /\ Single(data.offers[s]) => /\ Only(data.offers[s]) \in data.offers[s]
                                       /\ data.offers[s] = {Only(data.offers[s])}
          /\ data.offers[s] \subseteq Resources
      BY <2>1, OnlyOne, OffersFinite
    <2> QED
      BY <1>1, <1>2, <2>1, <2>2
  <1>3. CASE ~Single(Listed(data))
    BY <1>1, <1>3
  <1> QED
    BY <1>2, <1>3

\* The effects fill in what is not chosen yet, move to a step of the form, and
\* clear a time that is not among the answers.
LEMMA EffectsAre ==
    ASSUME NEW data \in Data, NEW sel, Chosen(sel), NEW c \in Caches
    PROVE  LET e == Effects(data, sel, c)
               initial == InitialBookingSelection(data)
           IN  /\ e \in Selections
               /\ e.service = IF sel.service = None THEN initial.service ELSE sel.service
               /\ e.resource = IF sel.resource = None THEN initial.resource ELSE sel.resource
               /\ e.date = sel.date
               /\ e.time \in {sel.time, None}
               /\ e.time # None /\ Shown(c, e) # None => e.time \in Shown(c, e)
               /\ Contains(VisibleBookingSteps(data, e.service), e.step)
               /\ Contains(VisibleBookingSteps(data, e.service), sel.step) => e.step = sel.step
  <1> DEFINE initial == InitialBookingSelection(data)
             filled == [sel EXCEPT !.service = IF @ = None THEN initial.service ELSE @,
                                   !.resource = IF @ = None THEN initial.resource ELSE @]
             e == Effects(data, sel, c)
  <1>1. data # None
    BY DEF Data
  <1>2. /\ filled.step = sel.step /\ filled.date = sel.date /\ filled.time = sel.time
        /\ filled.service = IF sel.service = None THEN initial.service ELSE sel.service
        /\ filled.resource = IF sel.resource = None THEN initial.resource ELSE sel.resource
    BY DEF Chosen
  <1>3. Chosen(filled)
    <2>1. initial.service \in Services \cup {None} /\ initial.resource \in Resources \cup {None}
      BY InitialIs, OffersFinite
    <2> HIDE DEF initial
    <2> QED
      BY <2>1 DEF Chosen
  <1>4. e = [filled EXCEPT !.step = CurrentStep(data, filled),
                           !.time = IF @ # None /\ Shown(c, filled) # None /\ @ \notin Shown(c, filled)
                                    THEN None ELSE @]
    BY <1>1 DEF Effects
  <1>5. /\ CurrentStep(data, filled) \in AllSteps
        /\ Contains(VisibleBookingSteps(data, filled.service), CurrentStep(data, filled))
        /\ Contains(VisibleBookingSteps(data, filled.service), filled.step) =>
              CurrentStep(data, filled) = filled.step
    BY CurrentStepVisible
  <1> HIDE DEF filled, e
  <1>6. /\ e.service = filled.service /\ e.resource = filled.resource /\ e.date = filled.date
        /\ e.step = CurrentStep(data, filled)
        /\ e.time = IF filled.time # None /\ Shown(c, filled) # None /\ filled.time \notin Shown(c, filled)
                    THEN None ELSE filled.time
    BY <1>3, <1>4 DEF Chosen
  <1>7. Shown(c, e) = Shown(c, filled)
    BY <1>6 DEF Shown
  <1>8. e \in Selections
    BY <1>3, <1>4, <1>5 DEF Selections, Chosen
  <1> QED
    BY <1>2, <1>5, <1>6, <1>7, <1>8 DEF e

\* What is selected and offered stays selected.
LEMMA EffectsKeepChoices ==
    ASSUME NEW data \in Data, NEW sel, Chosen(sel), NEW c \in Caches
    PROVE  LET e == Effects(data, sel, c) IN
           /\ e.service # sel.service => sel.service = None
           /\ e.resource # sel.resource => sel.resource = None
           /\ Usable(data, sel) => e.service = sel.service /\ e.resource = sel.resource /\ Usable(data, e)
  <1>1. Usable(data, sel) => sel.service \in Services /\ sel.resource \in Resources
    BY OffersFinite DEF Usable
  <1> QED
    BY <1>1, EffectsAre DEF Usable

\* A time stays selected only when the answer on display has it, if the answer
\* for what was selected is on display.
LEMMA EffectsKeepOffers ==
    ASSUME NEW data \in Data, NEW sel, Chosen(sel), NEW c \in Caches,
           sel.time # None => Shown(c, sel) # None
    PROVE  LET e == Effects(data, sel, c) IN
           e.time # None => Shown(c, e) # None /\ e.time \in Shown(c, e)
  <1> DEFINE e == Effects(data, sel, c)
  <1> SUFFICES ASSUME e.time # None
               PROVE  Shown(c, e) # None /\ e.time \in Shown(c, e)
    OBVIOUS
  <1>1. sel.time # None
    BY EffectsAre
  <1>2. <<sel.service, sel.resource, sel.date>> \in Keys
    BY <1>1 DEF Shown
  <1>3. e.service = sel.service /\ e.resource = sel.resource /\ e.date = sel.date
    BY <1>2, EffectsAre DEF Keys
  <1>4. Shown(c, e) = Shown(c, sel)
    BY <1>3 DEF Shown
  <1> QED
    BY <1>1, <1>4, EffectsAre

-----------------------------------------------------------------------------
(* The inductive invariant. *)

Confirmations ==
    [service : Services, resource : Resources, date : Days, time : Times, details : Details,
     reply : {None, "field", "not_found", "window", "slot", "booked", "failed"}]
Searches == [service : Services, resource : Resources, from : Days, first : 1..LastDay]

\* The selection, the answers and the request for times fit a context's data.
Formed(data, sel, c, l) ==
    /\ sel \in Selections /\ c \in Caches /\ l \in {"idle", "sent", "failed"}
    /\ sel.time # None => Shown(c, sel) # None /\ sel.time \in Shown(c, sel)
    /\ l # "idle" => Usable(data, sel) /\ sel.date # None
    /\ data = None => sel.time = None /\ l = "idle"

\* What is out is well formed, and nothing is before the first context.
Around ==
    /\ catalog \in Catalogs \cup {None} /\ today \in 1..LastDay
    /\ taken \subseteq Resources \X Days \X Times
    /\ context \in [data : Data \cup {None}, error : {"no", "failed", "missing"}, loading : BOOLEAN]
    /\ search \in Searches \cup {None}
    /\ confirm \in Confirmations \cup {None}
    /\ repairs \in SUBSET Confirmations
    /\ repairs # {} => context.loading
    /\ context.data = None => search = None /\ confirm = None /\ repairs = {}

IInv == Around /\ Formed(context.data, selection, cache, load)

\* The invariant contains the properties.
LEMMA IInvIsEnough == IInv => SelectionConsistent
  BY DEF IInv, Around, Formed, Data, Caches, SelectionConsistent, TypeOK, TimeWasOffered

\* The page is empty at first.
LEMMA InitHolds == Init => IInv
  <1> SUFFICES ASSUME Init
               PROVE  IInv
    OBVIOUS
  <1>1. /\ catalog \in Catalogs /\ today = 1 /\ taken = {}
        /\ context = [data |-> None, error |-> "no", loading |-> TRUE]
        /\ selection = [step |-> "service", service |-> None, resource |-> None,
                        date |-> None, time |-> None, details |-> "empty"]
        /\ cache = [k \in Keys |-> None]
        /\ load = "idle" /\ search = None /\ confirm = None /\ repairs = {}
    BY DEF Init
  <1>2. Around
    BY <1>1 DEF Around
  <1>3. Formed(context.data, selection, cache, load)
    <2>1. selection \in Selections /\ selection.time = None
      BY <1>1 DEF Selections, AllSteps, Details
    <2>2. cache \in Caches
      BY <1>1 DEF Caches
    <2> QED
      BY <1>1, <2>1, <2>2 DEF Formed
  <1> QED
    BY <1>2, <1>3 DEF IInv

-----------------------------------------------------------------------------
(* The page after a step. *)

\* A selection is one but for its step.
LEMMA SelectionChosen == \A sel \in Selections : Chosen(sel)
  BY DEF Selections, Chosen

\* Whatever the page is rendered with, it is well formed again, when a time is
\* selected only with the answer on display.
LEMMA RenderForms ==
    ASSUME IInv, NEW data \in Data \cup {None}, NEW sel, Chosen(sel), NEW c \in Caches,
           Render(data, sel, c),
           data = None => sel \in Selections /\ sel.time = None,
           sel.time # None => Shown(c, sel) # None
    PROVE  Formed(data, selection', cache', load')
  <1>1. selection' = Effects(data, sel, c) /\ cache' = c
    BY DEF Render
  <1>2. load \in {"idle", "sent", "failed"}
    BY DEF IInv, Formed
  <1>3. /\ load' \in {"idle", "sent", "failed"}
        /\ load' # "idle" => data # None /\ selection'.date # None /\ Usable(data, selection')
    BY <1>2 DEF Render
  <1>4. CASE data = None
    <2>1. selection' = sel
      BY <1>1, <1>4 DEF Effects
    <2> QED
      BY <1>1, <1>3, <1>4, <2>1 DEF Formed
  <1>5. CASE data \in Data
    <2>1. selection' \in Selections
      BY <1>1, <1>5, EffectsAre
    <2>2. selection'.time # None => Shown(c, selection') # None /\ selection'.time \in Shown(c, selection')
      BY <1>1, <1>5, EffectsKeepOffers
    <2>3. data # None
      BY <1>5 DEF Data
    <2> QED
      BY <1>1, <1>3, <2>1, <2>2, <2>3 DEF Formed
  <1> QED
    BY <1>4, <1>5

\* A choice.
LEMMA ChooseKeeps ==
    ASSUME IInv, context.data # None, NEW sel, Chosen(sel), Choose(sel),
           sel.time # None => Shown(cache, sel) # None
    PROVE  Formed(context.data, selection', cache', load')
  <1>1. context.data \in Data /\ cache \in Caches
    BY DEF IInv, Around, Formed
  <1> QED
    BY <1>1, RenderForms DEF Choose

\* What a choice leaves alone is as it was.
LEMMA OthersKeep == IInv /\ UNCHANGED Others => Around' /\ context' = context
  BY DEF IInv, Around, Others, server

-----------------------------------------------------------------------------
(* The visitor's steps. *)

\* The resource after a change of service is one of the service's, or none; it
\* is none only when there are several to choose from.
LEMMA ResourceAfter ==
    ASSUME NEW data \in Data, NEW s, NEW previous
    PROVE  LET r == ResourceAfterServiceChange(data, s, previous) IN
           /\ r \in Resources \cup {None}
           /\ s \in Listed(data) /\ r # None => r \in data.offers[s]
           /\ s \in Listed(data) /\ r = None => Cardinality(data.offers[s]) > 1
  <1> DEFINE r == ResourceAfterServiceChange(data, s, previous)
  <1>1. CASE s \notin Listed(data)
    BY <1>1 DEF ResourceAfterServiceChange
  <1>2. CASE s \in Listed(data)
    <2>1. s \in Services /\ data.offers[s] # {}
      BY <1>2, OffersFinite
    <2>2. data.offers[s] \subseteq Resources /\ IsFiniteSet(data.offers[s])
      BY <2>1, OffersFinite
    <2>3. Single(data.offers[s]) => r \in data.offers[s]
      BY <1>2, <2>2, OnlyOne DEF ResourceAfterServiceChange
    <2>4. ~Single(data.offers[s]) => /\ Cardinality(data.offers[s]) > 1
                                     /\ r # None => r \in data.offers[s]
      BY <1>2, <2>1, <2>2, OnlyOne DEF ResourceAfterServiceChange
    <2> QED
      BY <1>2, <2>2, <2>3, <2>4
  <1> QED
    BY <1>1, <1>2

\* Every choice on the form keeps the page well formed.
LEMMA ChoiceKeeps ==
    ASSUME IInv,
           \/ \E s \in Services : ChooseService(s)
           \/ \E r \in Resources : ChooseResource(r)
           \/ \E d \in Days : ChooseDate(d)
           \/ \E t \in Times : ChooseTime(t)
           \/ \E x \in Details : TypeDetails(x)
           \/ Advance \/ GoBack
    PROVE  IInv'
  <1>1. selection \in Selections /\ Chosen(selection)
    BY SelectionChosen DEF IInv, Formed
  <1>2. selection.time # None => Shown(cache, selection) # None
    BY DEF IInv, Formed
  <1>3. ASSUME FormShown
        PROVE  context.data # None /\ context.data \in Data
    BY <1>3 DEF FormShown, IInv, Around
  <1>4. ASSUME NEW sel, Chosen(sel), sel.time # None => Shown(cache, sel) # None,
               FormShown, Choose(sel), UNCHANGED Others
        PROVE  IInv'
    BY <1>3, <1>4, ChooseKeeps, OthersKeep DEF IInv
  <1>5. ASSUME NEW s \in Services, ChooseService(s)
        PROVE  IInv'
    <2> DEFINE r == ResourceAfterServiceChange(context.data, s, selection.resource)
               sel == [selection EXCEPT !.service = s, !.time = None, !.resource = r]
    <2>1. FormShown /\ Choose(sel) /\ UNCHANGED Others
      BY <1>5 DEF ChooseService, At
    <2>2. r \in Resources \cup {None}
      BY <1>3, <2>1, ResourceAfter
    <2>3. Chosen(sel) /\ sel.time = None
      <3> HIDE DEF r
      <3> QED
        BY <1>1, <2>2 DEF Selections, Chosen
    <2> HIDE DEF sel
    <2> QED
      BY <1>4, <2>1, <2>3
  <1>6. ASSUME NEW r \in Resources, ChooseResource(r)
        PROVE  IInv'
    <2> DEFINE sel == [selection EXCEPT !.resource = r, !.time = None]
    <2>1. FormShown /\ Choose(sel) /\ UNCHANGED Others
      BY <1>6 DEF ChooseResource, At
    <2>2. Chosen(sel) /\ sel.time = None
      BY <1>1 DEF Selections, Chosen
    <2> HIDE DEF sel
    <2> QED
      BY <1>4, <2>1, <2>2
  <1>7. ASSUME NEW d \in Days, ChooseDate(d)
        PROVE  IInv'
    <2> DEFINE sel == [selection EXCEPT !.date = d, !.time = None]
    <2>1. FormShown /\ Choose(sel) /\ UNCHANGED Others
      BY <1>7 DEF ChooseDate, At
    <2>2. Chosen(sel) /\ sel.time = None
      BY <1>1 DEF Selections, Chosen
    <2> HIDE DEF sel
    <2> QED
      BY <1>4, <2>1, <2>2
  <1>8. ASSUME NEW t \in Times, ChooseTime(t)
        PROVE  IInv'
    <2> DEFINE sel == [selection EXCEPT !.time = t]
    <2>1. FormShown /\ Choose(sel) /\ UNCHANGED Others /\ Shown(cache, selection) # None
      BY <1>8 DEF ChooseTime, At
    <2>2. /\ Chosen(sel)
          /\ sel.service = selection.service /\ sel.resource = selection.resource
          /\ sel.date = selection.date
      BY <1>1 DEF Selections, Chosen
    <2> HIDE DEF sel
    <2>3. Shown(cache, sel) = Shown(cache, selection)
      BY <2>2 DEF Shown
    <2> QED
      BY <1>4, <2>1, <2>2, <2>3
  <1>9. ASSUME NEW x \in Details, TypeDetails(x)
        PROVE  IInv'
    <2> DEFINE sel == [selection EXCEPT !.details = x]
    <2>1. FormShown /\ Choose(sel) /\ UNCHANGED Others
      BY <1>9 DEF TypeDetails, At
    <2>2. /\ Chosen(sel) /\ sel.time = selection.time
          /\ sel.service = selection.service /\ sel.resource = selection.resource
          /\ sel.date = selection.date
      BY <1>1 DEF Selections, Chosen
    <2> HIDE DEF sel
    <2>3. Shown(cache, sel) = Shown(cache, selection)
      BY <2>2 DEF Shown
    <2> QED
      BY <1>2, <1>4, <2>1, <2>2, <2>3
  <1>10. ASSUME NEW x, FormShown, Choose([selection EXCEPT !.step = x]), UNCHANGED Others
         PROVE  IInv'
    <2> DEFINE sel == [selection EXCEPT !.step = x]
    <2>1. /\ Chosen(sel) /\ sel.time = selection.time
          /\ sel.service = selection.service /\ sel.resource = selection.resource
          /\ sel.date = selection.date
      BY <1>1 DEF Selections, Chosen
    <2>2. Choose(sel)
      BY <1>10
    <2> HIDE DEF sel
    <2>3. Shown(cache, sel) = Shown(cache, selection)
      BY <2>1 DEF Shown
    <2> QED
      BY <1>2, <1>4, <1>10, <2>1, <2>2, <2>3
  <1>11. ASSUME Advance
         PROVE  IInv'
    BY <1>10, <1>11 DEF Advance, CanContinue
  <1>12. ASSUME GoBack
         PROVE  IInv'
    BY <1>10, <1>12 DEF GoBack
  <1> QED
    BY <1>5, <1>6, <1>7, <1>8, <1>9, <1>11, <1>12

\* What the visitor sends is about the selection.
LEMMA SendingKeeps ==
    ASSUME IInv, RetryAvailability \/ FindNextAvailable \/ Confirm \/ RetryContext
    PROVE  IInv'
  <1>1. ASSUME RetryAvailability
        PROVE  IInv'
    BY <1>1, OthersKeep DEF IInv, Formed, RetryAvailability
  <1>2. ASSUME FindNextAvailable
        PROVE  IInv'
    <2>1. Shown(cache, selection) # None
      BY <1>2 DEF FindNextAvailable
    <2>2. <<selection.service, selection.resource, selection.date>> \in Keys
      BY <2>1 DEF Shown
    <2>3. /\ selection.service \in Services /\ selection.resource \in Resources
          /\ selection.date \in Days
      BY <2>2 DEF Keys
    <2>4. context.data \in Data /\ context.data # None
      BY <1>2 DEF FindNextAvailable, At, FormShown, IInv, Around
    <2>5. context.data.first \in 1..LastDay
      BY <2>4 DEF Data
    <2>6. search' \in Searches
      BY <1>2, <2>3, <2>5 DEF FindNextAvailable, Searches
    <2>7. Around'
      BY <1>2, <2>4, <2>6 DEF FindNextAvailable, server, IInv, Around
    <2> QED
      BY <1>2, <2>7 DEF FindNextAvailable, IInv
  <1>3. ASSUME Confirm
        PROVE  IInv'
    <2>1. context.data \in Data /\ context.data # None
      BY <1>3 DEF Confirm, At, FormShown, IInv, Around
    <2>2. selection.service \in Services /\ selection.resource \in Resources
      BY <1>3, <2>1, OffersFinite DEF Confirm, Usable
    <2>3. selection.date \in Days /\ selection.time \in Times /\ selection.details \in Details
      BY <1>3 DEF Confirm, IInv, Formed, Selections
    <2>4. confirm' \in Confirmations
      BY <1>3, <2>2, <2>3 DEF Confirm, Confirmations
    <2>5. Around'
      BY <1>3, <2>1, <2>4 DEF Confirm, server, IInv, Around
    <2> QED
      BY <1>3, <2>5 DEF Confirm, IInv
  <1>4. ASSUME RetryContext
        PROVE  IInv'
    <2>1. context' = [context EXCEPT !.loading = TRUE]
      BY <1>4 DEF RetryContext
    <2>2. /\ context' \in [data : Data \cup {None}, error : {"no", "failed", "missing"}, loading : BOOLEAN]
          /\ context'.data = context.data /\ context'.loading
      BY <2>1 DEF IInv, Around
    <2> QED
      BY <1>4, <2>2 DEF RetryContext, server, IInv, Around
  <1> QED
    BY <1>1, <1>2, <1>3, <1>4

-----------------------------------------------------------------------------
(* Answers, and what happens around the visitor. *)

\* A repaired selection is one, without a time, with the choices the repairs
\* leave or set.
LEMMA RepairedIs ==
    ASSUME NEW data \in Data, NEW sel \in Selections, NEW W \in SUBSET Confirmations,
           NEW last, NEW by, RepairedLast(data, W, last, by)
    PROVE  LET r == Repaired(data, sel, W, last, by)
           IN  /\ Chosen(r) /\ r.time = None
               /\ r.date = IF \A c \in W : c.date \in Window(data.first) THEN sel.date ELSE data.first
               /\ r.service = IF \A c \in W : c.service \in Listed(data) THEN sel.service ELSE None
               /\ r.resource = IF Outdated(data, W) = {} THEN sel.resource ELSE RepairedResource(data, by)
               /\ r.step = RepairedStep(data, last)
  <1> DEFINE date == IF \A c \in W : c.date \in Window(data.first) THEN sel.date ELSE data.first
             service == IF \A c \in W : c.service \in Listed(data) THEN sel.service ELSE None
             resource == IF Outdated(data, W) = {} THEN sel.resource ELSE RepairedResource(data, by)
             step == RepairedStep(data, last)
             r == [sel EXCEPT !.time = None, !.date = date, !.service = service,
                              !.resource = resource, !.step = step]
  <1>1. date \in Days \cup {None}
    BY DEF Data, Days, Selections
  <1>2. service \in Services \cup {None}
    BY DEF Selections
  <1>3. resource \in Resources \cup {None}
    BY ResourceAfter DEF RepairedResource, Selections
  <1>4. Repaired(data, sel, W, last, by) = r
    BY DEF Repaired
  <1> HIDE DEF date, service, resource, step
  <1>5. /\ r.time = None /\ r.date = date /\ r.service = service
        /\ r.resource = resource /\ r.step = step
        /\ Chosen(r)
    BY <1>1, <1>2, <1>3 DEF Selections, Chosen
  <1> QED
    BY <1>4, <1>5 DEF date, service, resource, step

\* A new context, with repairs or without.
LEMMA AnswerContextKeeps ==
    ASSUME IInv, AnswerContext
    PROVE  IInv'
  <1>1. PICK error \in {"no", "failed", "missing"} :
            LET data == IF error = "no" THEN [offers |-> catalog, first |-> today] ELSE context.data
            IN  /\ error = "no" => catalog # None
                /\ context' = [data |-> data, error |-> error, loading |-> FALSE]
                /\ IF repairs = {} THEN Render(data, selection, cache)
                   ELSE \E last, by \in repairs :
                          /\ RepairedLast(data, repairs, last, by)
                          /\ Render(data, Repaired(data, selection, repairs, last, by), cache)
    BY DEF AnswerContext
  <1> DEFINE data == IF error = "no" THEN [offers |-> catalog, first |-> today] ELSE context.data
  <1>2. data \in Data \cup {None}
    BY <1>1 DEF IInv, Around, Data
  <1>3. /\ context' = [data |-> data, error |-> error, loading |-> FALSE]
        /\ repairs = {} => Render(data, selection, cache)
        /\ repairs # {} => \E last, by \in repairs :
                             /\ RepairedLast(data, repairs, last, by)
                             /\ Render(data, Repaired(data, selection, repairs, last, by), cache)
    BY <1>1
  <1>4. data = None => context.data = None
    BY <1>1 DEF IInv, Around, Data
  <1> HIDE DEF data
  <1>5. selection \in Selections /\ Chosen(selection) /\ cache \in Caches
    BY SelectionChosen DEF IInv, Formed
  <1>6. PICK sel :
            /\ Render(data, sel, cache) /\ Chosen(sel)
            /\ data = None => sel \in Selections /\ sel.time = None
            /\ sel.time # None => Shown(cache, sel) # None
    <2>1. CASE repairs = {}
      BY <1>3, <1>4, <1>5, <2>1 DEF IInv, Formed
    <2>2. CASE repairs # {}
      <3>1. data # None /\ data \in Data /\ repairs \in SUBSET Confirmations
        BY <1>2, <1>4, <2>2 DEF IInv, Around
      <3>2. PICK last \in repairs, by \in repairs :
                /\ RepairedLast(data, repairs, last, by)
                /\ Render(data, Repaired(data, selection, repairs, last, by), cache)
        BY <1>3, <2>2
      <3>3. /\ Chosen(Repaired(data, selection, repairs, last, by))
            /\ Repaired(data, selection, repairs, last, by).time = None
        BY <1>5, <3>1, <3>2, RepairedIs
      <3> QED
        BY <3>1, <3>2, <3>3
    <2> QED
      BY <2>1, <2>2
  <1>7. Formed(data, selection', cache', load')
    BY <1>2, <1>5, <1>6, RenderForms
  <1>8. Around'
    BY <1>2, <1>3, <1>4 DEF AnswerContext, server, IInv, Around
  <1> QED
    BY <1>3, <1>7, <1>8 DEF IInv

\* Starts are times.
LEMMA StartsAreTimes ==
    \A s \in Services : \A r, d : Starts(s, r, d) \in SUBSET Times /\ Starts(s, r, d) # None
  BY DEF Starts

\* The times of the selection arrive, or the request for them fails.
LEMMA AnswerAvailabilityKeeps ==
    ASSUME IInv, AnswerAvailability
    PROVE  IInv'
  <1> DEFINE key == <<selection.service, selection.resource, selection.date>>
             starts == Availability(selection.service, selection.resource, selection.date)
  <1>1. Around' /\ context' = context
    BY OthersKeep DEF AnswerAvailability
  <1>2. load = "sent" /\ Usable(context.data, selection) /\ selection.date # None /\ context.data # None
    BY DEF AnswerAvailability, IInv, Formed
  <1>3. context.data \in Data
    BY <1>2 DEF IInv, Around
  <1>4. selection \in Selections /\ Chosen(selection) /\ cache \in Caches
    BY SelectionChosen DEF IInv, Formed
  <1>5. CASE /\ starts # None
             /\ cache' = [cache EXCEPT ![key] = starts]
             /\ selection' = Effects(context.data, selection, cache')
             /\ load' = "idle"
    <2>1. selection.service \in Services /\ selection.resource \in Resources
      BY <1>2, <1>3, OffersFinite DEF Usable
    <2>2. key \in Keys
      BY <1>2, <1>4, <2>1 DEF Keys, Selections
    <2>3. starts \in SUBSET Times
      BY <1>5, <2>1, StartsAreTimes DEF Availability
    <2>4. cache' \in Caches /\ Shown(cache', selection) = starts
      <3> HIDE DEF starts, key
      <3>1. cache' \in Caches /\ cache'[key] = starts
        BY <1>4, <1>5, <2>2, <2>3 DEF Caches
      <3> QED
        BY <2>2, <3>1 DEF Shown, key
    <2>5. /\ selection' \in Selections
          /\ selection'.time # None => /\ Shown(cache', selection') # None
                                       /\ selection'.time \in Shown(cache', selection')
      BY <1>3, <1>4, <1>5, <2>4, EffectsAre, EffectsKeepOffers
    <2> QED
      BY <1>1, <1>2, <1>5, <2>4, <2>5 DEF IInv, Formed
  <1>6. CASE load' = "failed" /\ UNCHANGED <<cache, selection>>
    BY <1>1, <1>2, <1>6 DEF IInv, Formed
  <1> QED
    BY <1>5, <1>6 DEF AnswerAvailability

\* The answer of a search is applied to what is selected by now.
LEMMA AnswerSearchKeeps ==
    ASSUME IInv, AnswerSearch
    PROVE  IInv'
  <1> DEFINE d == NextAvailability(search.service, search.resource, search.from)
             moved == IF d \in Window(search.first)
                      THEN [selection EXCEPT !.date = d, !.time = None] ELSE selection
             starts == Starts(search.service, search.resource, d)
             key == <<search.service, search.resource, d>>
             c == [cache EXCEPT ![key] = starts]
  <1>1. /\ Around' /\ context' = context
        /\ search \in Searches /\ context.data # None
    BY DEF AnswerSearch, server, IInv, Around
  <1>2. CASE Render(context.data, moved, c)
    <2>1. context.data \in Data /\ selection \in Selections /\ cache \in Caches
      BY <1>1 DEF IInv, Around, Formed
    <2>2. starts \in SUBSET Times /\ starts # None
      BY <1>1, StartsAreTimes DEF Searches
    <2>3. d \in Window(search.first) => d \in Days
      BY <1>1 DEF Searches, Window, Days
    <2> HIDE DEF starts, d
    <2>4. c \in Caches /\ \A k \in Keys : c[k] \in {cache[k], starts}
      BY <2>1, <2>2 DEF Caches
    <2>5. Chosen(moved)
      BY <2>1, <2>3 DEF Selections, Chosen
    <2>6. moved.time # None => moved = selection
      BY <2>1 DEF Selections
    <2>7. moved.time # None => Shown(c, moved) # None
      <3> SUFFICES ASSUME moved.time # None
                   PROVE  Shown(c, moved) # None
        OBVIOUS
      <3>1. moved = selection /\ Shown(cache, selection) # None
        BY <2>6 DEF IInv, Formed
      <3> HIDE DEF c, moved
      <3> QED
        BY <2>2, <2>4, <3>1 DEF Shown
    <2> HIDE DEF c, moved
    <2>8. Formed(context.data, selection', cache', load')
      BY <1>1, <1>2, <2>1, <2>4, <2>5, <2>7, RenderForms
    <2> QED
      BY <1>1, <2>8 DEF IInv
  <1>3. CASE UNCHANGED <<selection, cache, load>>
    BY <1>1, <1>3 DEF IInv
  <1> QED
    BY <1>2, <1>3 DEF AnswerSearch

\* The server decides, or its reply is lost.
LEMMA DecisionKeeps ==
    ASSUME IInv, DecideConfirm \/ LoseReply
    PROVE  IInv'
  <1>1. ASSUME DecideConfirm
        PROVE  IInv'
    <2>1. PICK reply \in {CreateAnswer(confirm), "failed"} :
              /\ confirm' = [confirm EXCEPT !.reply = reply]
              /\ taken' = IF reply = "booked"
                          THEN taken \cup {<<confirm.resource, confirm.date, confirm.time>>} ELSE taken
      BY <1>1 DEF DecideConfirm
    <2>2. reply \in {"field", "not_found", "window", "slot", "booked", "failed"}
      BY DEF CreateAnswer
    <2>3. confirm \in Confirmations /\ context.data # None
      BY <1>1 DEF DecideConfirm, IInv, Around
    <2>4. confirm' \in Confirmations
      BY <2>1, <2>2, <2>3 DEF Confirmations
    <2>5. taken' \subseteq Resources \X Days \X Times
      BY <2>1, <2>3 DEF Confirmations, IInv, Around
    <2>6. Around'
      BY <1>1, <2>3, <2>4, <2>5 DEF DecideConfirm, IInv, Around
    <2> QED
      BY <1>1, <2>6 DEF DecideConfirm, IInv
  <1>2. ASSUME LoseReply
        PROVE  IInv'
    <2>1. confirm \in Confirmations /\ context.data # None
      BY <1>2 DEF LoseReply, IInv, Around
    <2>2. confirm' \in Confirmations
      BY <1>2, <2>1 DEF LoseReply, Confirmations
    <2>3. Around'
      BY <1>2, <2>1, <2>2 DEF LoseReply, server, IInv, Around
    <2> QED
      BY <1>2, <2>3 DEF LoseReply, IInv
  <1> QED
    BY <1>1, <1>2

\* The reply to a confirmation.
LEMMA AnswerConfirmKeeps ==
    ASSUME IInv, AnswerConfirm
    PROVE  IInv'
  <1>1. /\ confirm \in Confirmations /\ context.data # None /\ context.data \in Data
        /\ selection \in Selections /\ cache \in Caches
    BY DEF AnswerConfirm, IInv, Around, Formed
  <1>2. confirm' = None /\ UNCHANGED <<server, search>>
    BY DEF AnswerConfirm
  <1>3. ASSUME UNCHANGED context, repairs' = repairs
        PROVE  Around'
    BY <1>2, <1>3 DEF server, IInv, Around
  <1>4. CASE Booked \/ LinkUnavailable \/ ConfirmFailed
    BY <1>3, <1>4 DEF Booked, LinkUnavailable, ConfirmFailed, IInv
  <1>5. CASE SlotUnavailable
    <2> DEFINE sel == [selection EXCEPT !.time = None, !.step = "dateTime"]
    <2>1. /\ Chosen(sel) /\ sel.time = None
          /\ sel.service = selection.service /\ sel.resource = selection.resource
          /\ sel.date = selection.date
      BY <1>1 DEF Selections, Chosen
    <2>2. /\ selection' = Effects(context.data, sel, cache) /\ cache' = cache
          /\ load' = IF Usable(context.data, selection) /\ selection.date # None THEN "sent" ELSE load
      BY <1>5 DEF SlotUnavailable
    <2> HIDE DEF sel
    <2>3. selection' \in Selections /\ selection'.date = sel.date /\ selection'.time = None
      BY <1>1, <2>1, <2>2, EffectsAre
    <2>4. Usable(context.data, selection) => Usable(context.data, selection')
      BY <1>1, <2>1, <2>2, EffectsKeepChoices DEF Usable
    <2>5. Formed(context.data, selection', cache', load')
      BY <1>1, <2>1, <2>2, <2>3, <2>4 DEF IInv, Formed
    <2> QED
      BY <1>3, <1>5, <2>5 DEF SlotUnavailable, IInv
  <1>6. CASE OptionsChanged
    <2>1. context' = [context EXCEPT !.loading = TRUE] /\ repairs' = repairs \cup {confirm}
      BY <1>6 DEF OptionsChanged
    <2>2. /\ context' \in [data : Data \cup {None}, error : {"no", "failed", "missing"}, loading : BOOLEAN]
          /\ context'.data = context.data /\ context'.loading
      BY <2>1 DEF IInv, Around
    <2>3. Around'
      BY <1>1, <1>2, <2>1, <2>2 DEF server, IInv, Around
    <2> QED
      BY <1>6, <2>2, <2>3 DEF OptionsChanged, IInv
  <1>7. CASE FieldRefused
    <2> DEFINE sel == [selection EXCEPT !.step = "details"]
    <2>1. /\ Chosen(sel) /\ sel.time = selection.time
          /\ sel.service = selection.service /\ sel.resource = selection.resource
          /\ sel.date = selection.date
      BY <1>1 DEF Selections, Chosen
    <2>2. Choose(sel)
      BY <1>7 DEF FieldRefused
    <2> HIDE DEF sel
    <2>3. Shown(cache, sel) = Shown(cache, selection)
      BY <2>1 DEF Shown
    <2>4. sel.time # None => Shown(cache, sel) # None
      BY <2>1, <2>3 DEF IInv, Formed
    <2> QED
      BY <1>1, <1>3, <1>7, <2>1, <2>2, <2>4, ChooseKeeps DEF FieldRefused, IInv
  <1> QED
    BY <1>4, <1>5, <1>6, <1>7 DEF AnswerConfirm

\* Others book, offers change, days pass, and the browser comes back on line.
LEMMA WorldKeeps ==
    ASSUME IInv, World
    PROVE  IInv'
  <1>1. ASSUME NEW r \in Resources, NEW d \in Days, NEW t \in Times, OthersBook(r, d, t)
        PROVE  IInv'
    BY <1>1 DEF OthersBook, Change, IInv, Around
  <1>2. ASSUME NEW c \in Catalogs \cup {None}, OffersChange(c)
        PROVE  IInv'
    BY <1>2 DEF OffersChange, Change, IInv, Around
  <1>3. ASSUME DayPasses
        PROVE  IInv'
    BY <1>3 DEF DayPasses, Change, IInv, Around
  <1>4. ASSUME Reconnect
        PROVE  IInv'
    <2>1. context' = context \/ context' = [context EXCEPT !.loading = TRUE]
      BY <1>4 DEF Reconnect
    <2>2. /\ context' \in [data : Data \cup {None}, error : {"no", "failed", "missing"}, loading : BOOLEAN]
          /\ context'.data = context.data /\ (context.loading => context'.loading)
      BY <2>1 DEF IInv, Around
    <2>3. Around'
      BY <1>4, <2>2 DEF Reconnect, Change, IInv, Around
    <2>4. Formed(context.data, selection', cache', load')
      BY <1>4 DEF Reconnect, IInv, Formed
    <2> QED
      BY <2>2, <2>3, <2>4 DEF IInv
  <1> QED
    BY <1>1, <1>2, <1>3, <1>4 DEF World

\* The invariant is inductive.
LEMMA StepHolds == IInv /\ [Next]_vars => IInv'
  <1> SUFFICES ASSUME IInv, [Next]_vars
               PROVE  IInv'
    OBVIOUS
  <1>1. CASE Visitor
    BY <1>1, ChoiceKeeps, SendingKeeps DEF Visitor
  <1>2. CASE Answers
    BY <1>2, AnswerContextKeeps, AnswerAvailabilityKeeps, AnswerSearchKeeps, DecisionKeeps,
       AnswerConfirmKeeps DEF Answers
  <1>3. CASE World
    BY <1>3, WorldKeeps
  <1>4. CASE UNCHANGED vars
    BY <1>4 DEF vars, server, IInv, Around
  <1> QED
    BY <1>1, <1>2, <1>3, <1>4 DEF Next

-----------------------------------------------------------------------------
(* The theorems about the booking page. *)

\* Every reachable state of the booking page satisfies the invariant.
THEOREM PageInvariance == Spec => []IInv
  BY InitHolds, StepHolds, PTL DEF Spec

\* SelectionConsistent: a time that is selected was offered for the service,
\* the resource and the day that are selected with it, whatever changed and
\* however late an answer came.
THEOREM SelectionStaysConsistent == Spec => []SelectionConsistent
  BY PageInvariance, IInvIsEnough, PTL

\* A repaired selection leads on with the data it was repaired for.
LEMMA RepairGoesOn ==
    ASSUME NEW data \in Data, NEW sel \in Selections, NEW W \in SUBSET Confirmations,
           NEW c \in W, NEW by \in W, RepairedLast(data, W, c, by), NEW answers \in Caches,
           \A x \in W : sel.service = x.service /\ sel.resource = x.resource /\ sel.date = x.date,
           Listed(data) # {}
    PROVE  CanGoOn(data, Effects(data, Repaired(data, sel, W, c, by), answers))
  <1> DEFINE r == Repaired(data, sel, W, c, by)
             e == Effects(data, r, answers)
             initial == InitialBookingSelection(data)
  <1> SUFFICES CanGoOn(data, e)
    OBVIOUS
  <1>1. /\ Chosen(r) /\ r.date \in Window(data.first)
        /\ c.service \notin Listed(data) =>
              r.service = None /\ r.resource = None /\ r.step = VisibleBookingSteps(data, None)[1]
        /\ c.service \in Listed(data) => r.service = c.service
        /\ c.service \in Listed(data) /\ c.resource \notin data.offers[c.service] =>
              /\ r.resource = ResourceAfterServiceChange(data, c.service, None)
              /\ r.resource = None => r.step = "resource"
        /\ c.service \in Listed(data) /\ c.resource \in data.offers[c.service] => r.resource = c.resource
    <2>1. /\ Chosen(r)
          /\ r.date = IF \A x \in W : x.date \in Window(data.first) THEN sel.date ELSE data.first
          /\ r.service = IF \A x \in W : x.service \in Listed(data) THEN sel.service ELSE None
          /\ r.resource = IF Outdated(data, W) = {} THEN sel.resource ELSE RepairedResource(data, by)
          /\ r.step = RepairedStep(data, c)
      BY RepairedIs
    <2>2. data.first \in Window(data.first)
      BY DEF Data, Window
    <2>3. \A x \in W : x.service = c.service /\ x.resource = c.resource /\ x.date = c.date
      OBVIOUS
    <2>4. /\ c.service \notin Listed(data) \/ c.resource \notin data.offers[c.service] =>
               Outdated(data, W) # {} /\ c \in Outdated(data, {c})
          /\ c.service \in Listed(data) /\ c.resource \in data.offers[c.service] => Outdated(data, W) = {}
      BY <2>3 DEF Outdated
    <2>5. RepairedResource(data, by) = ResourceAfterServiceChange(data, c.service, None)
      BY <2>3 DEF RepairedResource
    <2>6. RepairedResource(data, c) = ResourceAfterServiceChange(data, c.service, None)
      BY DEF RepairedResource
    <2>7. c.service \notin Listed(data) => ResourceAfterServiceChange(data, c.service, None) = None
      BY DEF ResourceAfterServiceChange
    <2> HIDE DEF r
    <2>8. r.date \in Window(data.first)
      BY <2>1, <2>2, <2>3
    <2>9. CASE c.service \notin Listed(data)
      BY <2>1, <2>4, <2>5, <2>7, <2>8, <2>9 DEF RepairedStep
    <2>10. CASE c.service \in Listed(data)
      <3>1. r.service = c.service
        BY <2>1, <2>3, <2>10
      <3>2. CASE c.resource \in data.offers[c.service]
        BY <2>1, <2>4, <2>8, <2>10, <3>1, <3>2
      <3>3. CASE c.resource \notin data.offers[c.service]
        BY <2>1, <2>4, <2>5, <2>6, <2>8, <2>10, <3>1, <3>3 DEF RepairedStep
      <3> QED
        BY <3>2, <3>3
    <2> QED
      BY <2>9, <2>10
  <1> HIDE DEF r
  <1>2. /\ e.service = IF r.service = None THEN initial.service ELSE r.service
        /\ e.resource = IF r.resource = None THEN initial.resource ELSE r.resource
        /\ e.date = r.date
        /\ Contains(VisibleBookingSteps(data, e.service), r.step) => e.step = r.step
    BY <1>1, EffectsAre
  <1> HIDE DEF e
  <1>3. c.service \in Services /\ c.resource \in Resources
    BY DEF Confirmations
  <1>4. CASE c.service \notin Listed(data)
    <2>1. CASE Single(Listed(data))
      <3>1. /\ e.service = initial.service /\ e.service \in Listed(data)
            /\ e.service # None /\ Listed(data) = {e.service}
        BY <1>1, <1>2, <1>4, <2>1, InitialIs
      <3>2. e.resource = initial.resource
        BY <1>1, <1>2, <1>4
      <3>3. CASE Single(data.offers[e.service])
        <4>1. e.resource \in data.offers[e.service]
          BY <3>1, <3>2, <3>3, InitialIs
        <4> QED
          BY <1>1, <1>2, <3>1, <4>1 DEF CanGoOn, Usable
      <3>4. CASE ~Single(data.offers[e.service])
        <4>1. /\ e.service \in Services /\ IsFiniteSet(data.offers[e.service])
              /\ data.offers[e.service] # {}
          BY <3>1, OffersFinite
        <4>2. Cardinality(data.offers[e.service]) > 1
          BY <3>4, <4>1, OnlyOne
        <4>3. /\ ShownServices(data, e.service) = {e.service}
              /\ ShownServices(data, None) = {e.service}
          BY <1>3, <2>1, <3>1, OffersFinite DEF ShownServices
        <4>4. ~(Cardinality(Listed(data)) > 1)
          BY <2>1, OnlyOne, OffersFinite
        <4>5. r.step = "resource" /\ Contains(VisibleBookingSteps(data, e.service), "resource")
          BY <1>1, <1>4, <4>2, <4>3, <4>4, StepsAre
        <4> QED
          BY <1>2, <4>5 DEF CanGoOn
      <3> QED
        BY <3>3, <3>4
    <2>2. CASE ~Single(Listed(data))
      <3>1. Cardinality(Listed(data)) > 1
        BY <2>2, OnlyOne, OffersFinite
      <3>2. r.step = "service" /\ Contains(VisibleBookingSteps(data, e.service), "service")
        BY <1>1, <1>4, <3>1, StepsAre
      <3> QED
        BY <1>2, <3>2 DEF CanGoOn
    <2> QED
      BY <2>1, <2>2
  <1>5. CASE c.service \in Listed(data) /\ c.resource \notin data.offers[c.service]
    <2>1. e.service = c.service
      BY <1>1, <1>2, <1>3, <1>5
    <2>2. CASE r.resource # None
      <3>1. e.resource \in data.offers[c.service]
        BY <1>1, <1>2, <1>5, <2>2, ResourceAfter
      <3> QED
        BY <1>1, <1>2, <1>5, <2>1, <3>1 DEF CanGoOn, Usable
    <2>3. CASE r.resource = None
      <3>1. Cardinality(data.offers[c.service]) > 1
        BY <1>1, <1>5, <2>3, ResourceAfter
      <3>2. ShownServices(data, e.service) = {c.service}
        BY <1>5, <2>1 DEF ShownServices
      <3>3. r.step = "resource" /\ Contains(VisibleBookingSteps(data, e.service), "resource")
        BY <1>1, <1>5, <2>3, <3>1, <3>2, StepsAre
      <3> QED
        BY <1>2, <3>3 DEF CanGoOn
    <2> QED
      BY <2>2, <2>3
  <1>6. CASE c.service \in Listed(data) /\ c.resource \in data.offers[c.service]
    <2>1. e.service = c.service /\ e.resource = c.resource
      BY <1>1, <1>2, <1>3, <1>6
    <2> QED
      BY <1>1, <1>2, <1>6, <2>1 DEF CanGoOn, Usable
  <1> QED
    BY <1>4, <1>5, <1>6

\* Only a new context ends the repairs.
LEMMA RepairEndsWithContext ==
    ASSUME IInv, Next, repairs # {}, repairs' = {}
    PROVE  AnswerContext
  <1>1. ASSUME Visitor
        PROVE  repairs' = repairs
    BY <1>1 DEF Visitor, ChooseService, ChooseResource, ChooseDate, ChooseTime, TypeDetails, Advance,
       GoBack, RetryAvailability, FindNextAvailable, Confirm, RetryContext, Others
  <1>2. ASSUME World
        PROVE  repairs' = repairs
    BY <1>2 DEF World, OthersBook, OffersChange, DayPasses, Reconnect, Change
  <1>3. ASSUME AnswerAvailability \/ AnswerSearch \/ DecideConfirm \/ LoseReply
        PROVE  repairs' = repairs
    BY <1>3 DEF AnswerAvailability, AnswerSearch, DecideConfirm, LoseReply, Others
  <1>4. ASSUME AnswerConfirm
        PROVE  repairs' # {}
    BY <1>4 DEF AnswerConfirm, Booked, SlotUnavailable, LinkUnavailable, FieldRefused, ConfirmFailed,
       OptionsChanged
  <1> QED
    BY <1>1, <1>2, <1>3, <1>4 DEF Next, Answers

\* A step that ends the repairs does what RepairedAndOn asks for.
LEMMA RepairStep == IInv /\ [Next]_vars => [RepairedAndOn]_vars
  <1> SUFFICES ASSUME IInv, Next, repairs # {}, repairs' = {},
                      \A c \in repairs, f \in {"service", "resource", "date"} : selection[f] = c[f],
                      Listed(context'.data) # {}
               PROVE  CanGoOn(context'.data, selection')
    BY DEF RepairedAndOn
  <1>1. AnswerContext
    BY RepairEndsWithContext
  <1>2. /\ repairs \in SUBSET Confirmations /\ context.data \in Data
        /\ cache \in Caches /\ selection \in Selections
        /\ catalog \in Catalogs \cup {None} /\ today \in 1..LastDay
    BY DEF IInv, Around, Formed
  <1>3. PICK error \in {"failed"} \cup {x \in {"no"} : catalog # None}
                                 \cup {x \in {"missing"} : catalog = None} :
            LET data == IF error = "no" THEN [offers |-> catalog, first |-> today] ELSE context.data
            IN  /\ context' = [data |-> data, error |-> error, loading |-> FALSE]
                /\ \E last, by \in repairs :
                     /\ RepairedLast(data, repairs, last, by)
                     /\ Render(data, Repaired(data, selection, repairs, last, by), cache)
    BY <1>1, <1>2 DEF AnswerContext
  <1> DEFINE data == IF error = "no" THEN [offers |-> catalog, first |-> today] ELSE context.data
  <1>4. data \in Data
    <2>1. CASE error = "no"
      BY <1>2, <1>3, <2>1 DEF Data
    <2> QED
      BY <1>2, <2>1
  <1>5. PICK last \in repairs, by \in repairs :
            /\ context'.data = data /\ RepairedLast(data, repairs, last, by)
            /\ selection' = Effects(data, Repaired(data, selection, repairs, last, by), cache)
    BY <1>3 DEF Render
  <1> HIDE DEF data
  <1>6. \A x \in repairs :
            selection.service = x.service /\ selection.resource = x.resource /\ selection.date = x.date
    BY <1>2 DEF Selections, Confirmations
  <1> QED
    BY <1>2, <1>4, <1>5, <1>6, RepairGoesOn

\* RepairLeadsOn: after the refused confirmations have been repaired, in whatever
\* order, the visitor who left her selection alone can go on.
THEOREM RepairsLeadOn == Spec => RepairLeadsOn
  BY PageInvariance, RepairStep, PTL DEF Spec, RepairLeadsOn

-----------------------------------------------------------------------------
(* Managing a booking with its link. *)

CONSTANTS Tokens, MaxVisits, Requests

VARIABLES booking, around, visits, token, data, fetch, error, open, blocked, request

Manage == INSTANCE ManagePage WITH changes <- around

\* A request and a fetch, as far as the properties need them.
Asked == [kind : Manage!Kinds, token : Tokens, reply : {None, "done", "closed", "failed"}, mounted : BOOLEAN]
Fetching == [state : {"idle", "sent", "answered"}, answer : Manage!Answers \cup {None}]

LinkTyped ==
    /\ booking \in [Tokens -> Manage!Bookings]
    /\ token \in Tokens \cup {None} /\ data \in Manage!Answers \cup {None}
    /\ fetch \in Fetching /\ error \in {"no", "failed", "missing"}
    /\ open \in SUBSET Manage!Kinds /\ blocked \in SUBSET Manage!Kinds
    /\ request \in [Requests -> Asked \cup {None}]

\* A fetch is for the link in the address, and so is its answer.
FetchIsForTheLink ==
    /\ fetch.state = "idle" => fetch = Manage!Idle
    /\ fetch.state = "sent" => fetch = Manage!Sent
    /\ fetch.state # "idle" => token \in Tokens
    /\ fetch.state = "answered" =>
          /\ fetch.answer \in Manage!Answers
          /\ fetch.answer.of = token /\ fetch.answer.contactOf = token /\ fetch.answer.statusOf = token

\* The requests of the dialogs that are there: one of a kind, about the booking
\* on display.
DialogsAreTheirs ==
    /\ \A q \in Requests : Manage!Attached(q) => Manage!Mounted /\ request[q].token = token
    /\ \A p, q \in Requests : Manage!Attached(p) /\ Manage!Attached(q) /\ request[p].kind = request[q].kind => p = q

\* What is on display is of the link once no fetch is out and none has failed.
DisplayIsOfTheLink ==
    data # None =>
        /\ data.of = token
        /\ fetch.state = "idle" /\ error = "no" /\ token # None => data.contactOf = token /\ data.statusOf = token

\* A cancellation that is shown, answered or done is one in the table.
CancelledThere(t) == booking[t].status = "cancelled"
ShownIsCancelled ==
    /\ data # None /\ data.status = "cancelled" => CancelledThere(data.statusOf)
    /\ fetch.state = "answered" /\ fetch.answer.status = "cancelled" => CancelledThere(token)
DoneIsCancelled ==
    \A q \in Requests : request[q] # None /\ request[q].reply = "done" /\ request[q].kind = "cancel" =>
        CancelledThere(request[q].token)

\* A fetch that was answered before the booking was cancelled is replaced.
AnswerIsNotOlder ==
    data # None /\ data.status = "cancelled" /\ data.statusOf = token /\ fetch.state = "answered" =>
        fetch.answer.status = "cancelled"

LinkInv ==
    LinkTyped /\ FetchIsForTheLink /\ DialogsAreTheirs /\ DisplayIsOfTheLink
        /\ ShownIsCancelled /\ DoneIsCancelled /\ AnswerIsNotOlder

\* The invariant contains the properties.
LEMMA LinkInvIsEnough == LinkInv => Manage!LinkConsistent
  <1> SUFFICES ASSUME LinkInv
               PROVE  Manage!LinkConsistent
    OBVIOUS
  <1>1. Manage!SettledShowsTheLink
    BY DEF LinkInv, LinkTyped, DisplayIsOfTheLink, Manage!SettledShowsTheLink, Manage!View, Manage!Idle
  <1> QED
    BY <1>1 DEF LinkInv, LinkTyped, Fetching, DialogsAreTheirs, Manage!Attached, Manage!LinkConsistent,
       Manage!TypeOK

\* A guest opens the page of one link.
LEMMA LinkInitHolds == Manage!Init => LinkInv
  <1> SUFFICES ASSUME Manage!Init
               PROVE  LinkInv
    OBVIOUS
  <1>1. LinkTyped
    BY DEF Manage!Init, LinkTyped, Fetching, Manage!Bookings, Manage!Sent, Manage!End
  <1>2. FetchIsForTheLink
    BY DEF Manage!Init, FetchIsForTheLink, Manage!Sent
  <1>3. DialogsAreTheirs /\ DisplayIsOfTheLink /\ ShownIsCancelled /\ DoneIsCancelled /\ AnswerIsNotOlder
    BY DEF Manage!Init, DialogsAreTheirs, Manage!Attached, DisplayIsOfTheLink, ShownIsCancelled, DoneIsCancelled,
       AnswerIsNotOlder, Manage!Sent
  <1> QED
    BY <1>1, <1>2, <1>3 DEF LinkInv

\* What an action that may take the dialogs away leaves of the requests.
LEMMA DismountFacts ==
    ASSUME NEW r \in [Requests -> Asked \cup {None}]
    PROVE  /\ Manage!Dismount(r) \in [Requests -> Asked \cup {None}]
           /\ \A q \in Requests : Manage!Dismount(r)[q] # None =>
                /\ r[q] # None
                /\ Manage!Dismount(r)[q].kind = r[q].kind /\ Manage!Dismount(r)[q].token = r[q].token
                /\ Manage!Dismount(r)[q].reply = r[q].reply
                /\ Manage!Dismount(r)[q].mounted => r[q].mounted /\ Manage!View' = "active"
  BY DEF Manage!Dismount, Asked

\* Requests that are at most fewer, or without their dialogs, keep to the ones
\* there were.
Fewer(new, old) ==
    \A q \in Requests : new[q] # None =>
        /\ old[q] # None
        /\ new[q].kind = old[q].kind /\ new[q].token = old[q].token /\ new[q].reply = old[q].reply
        /\ new[q].mounted => old[q].mounted /\ Manage!View' = "active"

\* A booking that is cancelled stays so.
CancellationsStay ==
    \A t \in Tokens : booking[t].status = "cancelled" => booking'[t].status = "cancelled"

\* Fewer requests, or their dialogs gone, keep what is known of them.
LEMMA FewerRequests ==
    ASSUME LinkInv, token' = token \/ Manage!View' # "active", Fewer(request', request),
           CancellationsStay
    PROVE  DialogsAreTheirs' /\ DoneIsCancelled'
  BY DEF LinkInv, LinkTyped, Asked, DialogsAreTheirs, DoneIsCancelled, CancelledThere, CancellationsStay, Fewer,
     Manage!Attached, Manage!Mounted

\* Another link: nothing is on display yet.
LEMMA FollowLinkKeeps == LinkInv /\ (\E t \in Tokens \cup {None} : Manage!FollowLink(t)) => LinkInv'
  <1> SUFFICES ASSUME LinkInv, NEW t \in Tokens \cup {None}, Manage!FollowLink(t)
               PROVE  LinkInv'
    OBVIOUS
  <1>1. /\ token' = t /\ data' = None /\ error' = "no" /\ booking' = booking
        /\ fetch' = IF t = None THEN Manage!Idle ELSE Manage!Sent
        /\ request' = Manage!Dismount(request) /\ blocked' = {} /\ open' = open
    BY DEF Manage!FollowLink
  <1>2. Manage!View' # "active"
    BY <1>1 DEF Manage!View
  <1>3. LinkTyped'
    <2>1. request \in [Requests -> Asked \cup {None}] /\ booking \in [Tokens -> Manage!Bookings]
          /\ open \in SUBSET Manage!Kinds
      BY DEF LinkInv, LinkTyped
    <2>2. fetch' \in Fetching
      BY <1>1 DEF Fetching, Manage!Idle, Manage!Sent
    <2> QED
      BY <1>1, <2>1, <2>2, DismountFacts DEF LinkTyped
  <1>4. FetchIsForTheLink'
    BY <1>1 DEF FetchIsForTheLink, Manage!Idle, Manage!Sent
  <1>5. Fewer(request', request)
    BY <1>1, DismountFacts DEF LinkInv, LinkTyped, Fewer
  <1>6. /\ DialogsAreTheirs'
        /\ DoneIsCancelled'
    BY <1>1, <1>2, <1>5, FewerRequests DEF CancellationsStay
  <1>7. DisplayIsOfTheLink' /\ ShownIsCancelled' /\ AnswerIsNotOlder'
    BY <1>1 DEF DisplayIsOfTheLink, ShownIsCancelled, AnswerIsNotOlder, Manage!Idle, Manage!Sent
  <1> QED
    BY <1>3, <1>4, <1>6, <1>7 DEF LinkInv

\* Opening and closing a dialog, and sending its request.
LEMMA DialogKeeps ==
    ASSUME Manage!NamesApart,
           LinkInv,
           \E kind \in Manage!Kinds :
              \/ Manage!OpenDialog(kind) \/ Manage!CloseDialog(kind)
              \/ \E q \in Requests : Manage!Send(kind, q)
    PROVE  LinkInv'
  <1> PICK kind \in Manage!Kinds :
              \/ Manage!OpenDialog(kind) \/ Manage!CloseDialog(kind)
              \/ \E q \in Requests : Manage!Send(kind, q)
    OBVIOUS
  <1>1. /\ UNCHANGED <<booking, token, data, fetch, error, blocked>> /\ Manage!Mounted
        /\ open' \in SUBSET Manage!Kinds
    <2>1. open \in SUBSET Manage!Kinds
      BY DEF LinkInv, LinkTyped
    <2> QED
      BY <2>1 DEF Manage!OpenDialog, Manage!CloseDialog, Manage!Send
  <1>2. Manage!Mounted' /\ token \in Tokens
    BY <1>1 DEF LinkInv, LinkTyped, Manage!Mounted, Manage!View, Manage!ManagedBookingPresentation
  <1>3. CASE request' = request
    BY <1>1, <1>2, <1>3 DEF LinkInv, LinkTyped, FetchIsForTheLink, DialogsAreTheirs, DisplayIsOfTheLink,
       ShownIsCancelled, DoneIsCancelled, AnswerIsNotOlder, Manage!Attached, CancelledThere
  <1>4. ASSUME NEW q \in Requests, Manage!Send(kind, q)
        PROVE  LinkInv'
    <2> DEFINE r == [kind |-> kind, token |-> token, reply |-> None, mounted |-> TRUE]
    <2>1. ~Manage!Pending(kind) /\ request' = [request EXCEPT ![q] = r]
      BY <1>4 DEF Manage!Send
    <2>2. r \in Asked
      BY <1>2 DEF Asked
    <2>3. LinkTyped'
      BY <1>1, <2>1, <2>2 DEF LinkInv, LinkTyped
    <2>4. DialogsAreTheirs'
      BY <1>1, <1>2, <2>1 DEF LinkInv, LinkTyped, DialogsAreTheirs, Manage!Attached, Manage!Pending
    <2>5. ShownIsCancelled' /\ DoneIsCancelled'
      BY <1>1, <2>1 DEF Manage!NamesApart, LinkInv, LinkTyped, ShownIsCancelled, DoneIsCancelled, CancelledThere
    <2> QED
      BY <1>1, <2>3, <2>4, <2>5 DEF LinkInv, FetchIsForTheLink, DisplayIsOfTheLink, AnswerIsNotOlder
  <1> QED
    BY <1>3, <1>4 DEF Manage!OpenDialog, Manage!CloseDialog

\* A fetch is sent again after an error.
LEMMA RetryKeeps == LinkInv /\ Manage!RetryLoading => LinkInv'
  <1> SUFFICES ASSUME LinkInv, Manage!RetryLoading
               PROVE  LinkInv'
    OBVIOUS
  <1>1. /\ UNCHANGED <<booking, token, data, open, blocked, request>>
        /\ Manage!View = "failed" /\ fetch' = Manage!Sent
        /\ error' = IF data = None THEN "no" ELSE error
    BY DEF Manage!RetryLoading, Manage!ErrorWhenFetching
  <1>2. token \in Tokens /\ \A q \in Requests : ~Manage!Attached(q)
    BY <1>1 DEF LinkInv, LinkTyped, DialogsAreTheirs, Manage!Mounted, Manage!View
  <1>3. LinkTyped' /\ FetchIsForTheLink'
    BY <1>1, <1>2 DEF LinkInv, LinkTyped, Fetching, FetchIsForTheLink, Manage!Sent
  <1>4. DialogsAreTheirs' /\ DisplayIsOfTheLink' /\ ShownIsCancelled' /\ DoneIsCancelled' /\ AnswerIsNotOlder'
    BY <1>1, <1>2 DEF LinkInv, DialogsAreTheirs, DisplayIsOfTheLink, ShownIsCancelled, DoneIsCancelled,
       CancelledThere, AnswerIsNotOlder, Manage!Attached, Manage!Sent
  <1> QED
    BY <1>3, <1>4 DEF LinkInv

\* The server answers a fetch with the booking of the link.
LEMMA AnswerFetchKeeps == LinkInv /\ Manage!AnswerFetch => LinkInv'
  <1> SUFFICES ASSUME LinkInv, Manage!AnswerFetch
               PROVE  LinkInv'
    OBVIOUS
  <1>1. /\ UNCHANGED <<booking, token, data, error, open, blocked, request>>
        /\ fetch = Manage!Sent
        /\ fetch' = [state |-> "answered", answer |-> Manage!AnswerFor(token)]
    BY DEF Manage!AnswerFetch
  <1>2. token \in Tokens /\ booking[token] \in Manage!Bookings
    BY <1>1 DEF LinkInv, LinkTyped, FetchIsForTheLink, Manage!Sent
  <1>3. /\ Manage!AnswerFor(token) \in Manage!Answers
        /\ Manage!AnswerFor(token).of = token /\ Manage!AnswerFor(token).contactOf = token
        /\ Manage!AnswerFor(token).statusOf = token
        /\ Manage!AnswerFor(token).status = booking[token].status
    BY <1>2 DEF Manage!AnswerFor, Manage!Answers, Manage!Bookings, Manage!CanEditContact, Manage!CanCancel
  <1>4. LinkTyped' /\ FetchIsForTheLink'
    BY <1>1, <1>2, <1>3 DEF LinkInv, LinkTyped, Fetching, FetchIsForTheLink
  <1>5. DialogsAreTheirs'
    BY <1>1 DEF LinkInv, DialogsAreTheirs, Manage!Attached, Manage!Mounted, Manage!View,
       Manage!ManagedBookingPresentation
  <1>6. DisplayIsOfTheLink' /\ ShownIsCancelled' /\ DoneIsCancelled' /\ AnswerIsNotOlder'
    BY <1>1, <1>3 DEF LinkInv, DisplayIsOfTheLink, ShownIsCancelled, DoneIsCancelled, CancelledThere,
       AnswerIsNotOlder
  <1> QED
    BY <1>4, <1>5, <1>6 DEF LinkInv

\* An answer is put on display, or the fetch fails.
LEMMA ReceiveKeeps == LinkInv /\ (Manage!Receive \/ Manage!FetchFails) => LinkInv'
  <1> SUFFICES ASSUME LinkInv, Manage!Receive \/ Manage!FetchFails
               PROVE  LinkInv'
    OBVIOUS
  <1>1. /\ UNCHANGED <<booking, token, open, blocked>>
        /\ fetch' = Manage!Idle /\ error' \in {"no", "failed", "missing"}
        /\ request' = Manage!Dismount(request)
        /\ \/ fetch.state = "answered" /\ data' = fetch.answer
           \/ error' # "no" /\ data' = data
    BY DEF Manage!Receive, Manage!FetchFails
  <1>2. LinkTyped'
    BY <1>1, DismountFacts DEF LinkInv, LinkTyped, Fetching, FetchIsForTheLink, Manage!Idle
  <1>3. FetchIsForTheLink' /\ AnswerIsNotOlder'
    BY <1>1 DEF FetchIsForTheLink, AnswerIsNotOlder, Manage!Idle
  <1>4. DialogsAreTheirs' /\ DoneIsCancelled'
    <2>1. Fewer(request', request)
      BY <1>1, DismountFacts DEF LinkInv, LinkTyped, Fewer
    <2> QED
      BY <1>1, <2>1, FewerRequests DEF CancellationsStay
  <1>5. DisplayIsOfTheLink' /\ ShownIsCancelled'
    BY <1>1 DEF LinkInv, DisplayIsOfTheLink, ShownIsCancelled, CancelledThere, FetchIsForTheLink, Manage!Idle
  <1> QED
    BY <1>2, <1>3, <1>4, <1>5 DEF LinkInv

\* The server decides on a request, or its reply is lost.
LEMMA DecideKeeps ==
    ASSUME LinkInv, NEW q \in Requests, Manage!Decide(q) \/ Manage!LoseReply(q)
    PROVE  LinkInv'
  <1> DEFINE r == request[q]
  <1>1. /\ UNCHANGED <<token, data, fetch, error, open, blocked>> /\ r # None /\ r \in Asked
        /\ \E reply \in {"done", "closed", "failed"} :
             /\ request' = [request EXCEPT ![q].reply = reply]
             /\ booking' = [booking EXCEPT ![r.token].status =
                               IF reply = "done" /\ r.kind = "cancel" THEN "cancelled" ELSE @]
    <2>1. CASE Manage!Decide(q)
      BY <2>1 DEF Manage!Decide, LinkInv, LinkTyped
    <2>2. CASE Manage!LoseReply(q)
      BY <2>2 DEF Manage!LoseReply, LinkInv, LinkTyped, Asked, Manage!Bookings
    <2> QED
      BY <2>1, <2>2
  <1>2. PICK reply \in {"done", "closed", "failed"} :
             /\ request' = [request EXCEPT ![q].reply = reply]
             /\ booking' = [booking EXCEPT ![r.token].status =
                               IF reply = "done" /\ r.kind = "cancel" THEN "cancelled" ELSE @]
    BY <1>1
  <1>3. /\ booking' \in [Tokens -> Manage!Bookings] /\ CancellationsStay
        /\ \A t \in Tokens : booking'[t].stage = booking[t].stage
        /\ reply = "done" /\ r.kind = "cancel" => booking'[r.token].status = "cancelled"
    BY <1>1, <1>2 DEF LinkInv, LinkTyped, Asked, Manage!Bookings, CancellationsStay
  <1>4. /\ request' \in [Requests -> Asked \cup {None}]
        /\ \A p \in Requests : request'[p] # None =>
              /\ request[p] # None
              /\ request'[p].kind = request[p].kind /\ request'[p].token = request[p].token
              /\ request'[p].mounted = request[p].mounted
              /\ p # q => request'[p].reply = request[p].reply
        /\ request'[q] # None => request'[q].reply = reply
    BY <1>1, <1>2 DEF LinkInv, LinkTyped, Asked
  <1>5. LinkTyped' /\ FetchIsForTheLink' /\ DisplayIsOfTheLink' /\ AnswerIsNotOlder'
    BY <1>1, <1>3, <1>4 DEF LinkInv, LinkTyped, FetchIsForTheLink, DisplayIsOfTheLink, AnswerIsNotOlder
  <1>6. Manage!Mounted' = Manage!Mounted
    <2>1. data # None => data.of \in Tokens
      BY DEF LinkInv, LinkTyped, Manage!Answers
    <2> QED
      BY <1>1, <1>3, <2>1 DEF Manage!Mounted, Manage!View, Manage!ManagedBookingPresentation
  <1>7. DialogsAreTheirs'
    BY <1>1, <1>4, <1>6 DEF LinkInv, DialogsAreTheirs, Manage!Attached
  <1>8. ShownIsCancelled'
    BY <1>1, <1>3 DEF LinkInv, LinkTyped, FetchIsForTheLink, ShownIsCancelled, CancelledThere, CancellationsStay,
       Manage!Answers
  <1>9. DoneIsCancelled'
    BY <1>1, <1>3, <1>4 DEF LinkInv, LinkTyped, DoneIsCancelled, CancelledThere, CancellationsStay, Asked
  <1> QED
    BY <1>5, <1>7, <1>8, <1>9 DEF LinkInv

\* The page applies an answer, for whatever link is in the address by now.
LEMMA ApplyKeeps ==
    ASSUME Manage!NamesApart,
           LinkInv, NEW q \in Requests, Manage!Apply(q)
    PROVE  LinkInv'
  <1> DEFINE r == request[q]
  <1>1. /\ UNCHANGED <<booking, token>> /\ r # None /\ r \in Asked
        /\ request' = Manage!Dismount([request EXCEPT ![q] = None])
    BY DEF Manage!Apply, LinkInv, LinkTyped
  <1>2. [request EXCEPT ![q] = None] \in [Requests -> Asked \cup {None}]
    BY DEF LinkInv, LinkTyped
  <1>3. request' \in [Requests -> Asked \cup {None}] /\ Fewer(request', request)
    <2> DEFINE rest == [request EXCEPT ![q] = None]
    <2>1. \A p \in Requests : rest[p] # None => request[p] # None /\ rest[p] = request[p]
      BY DEF LinkInv, LinkTyped
    <2> HIDE DEF rest
    <2> QED
      BY <1>1, <1>2, <2>1, DismountFacts DEF rest, Fewer
  <1>4. DialogsAreTheirs' /\ DoneIsCancelled'
    BY <1>1, <1>3, FewerRequests DEF CancellationsStay
  <1>5. /\ fetch' = fetch \/ (token # None /\ fetch' = Manage!Sent)
        /\ data # None /\ token # None => fetch' = Manage!Sent \/ (data' = data /\ error' = error)
    BY DEF Manage!Apply, Manage!ApplyDone, Manage!ApplyClosed, Manage!ApplyFailed, Manage!Refetched
  <1>6. /\ data' # None => data # None /\ data'.of = data.of
        /\ data' \in Manage!Answers \cup {None} /\ error' \in {"no", "failed", "missing"}
        /\ open' \in SUBSET Manage!Kinds /\ blocked' \in SUBSET Manage!Kinds
    <2>1. /\ data \in Manage!Answers \cup {None} /\ error \in {"no", "failed", "missing"}
          /\ open \in SUBSET Manage!Kinds /\ blocked \in SUBSET Manage!Kinds
          /\ r.kind \in Manage!Kinds /\ r.token \in Tokens
      BY <1>1 DEF LinkInv, LinkTyped, Asked
    <2>2. CASE Manage!ApplyDone(r)
      BY <2>1, <2>2 DEF Manage!ApplyDone, Manage!Answers
    <2>3. CASE Manage!ApplyClosed(r)
      BY <2>1, <2>3 DEF Manage!ApplyClosed, Manage!ErrorWhenFetching
    <2>4. CASE Manage!ApplyFailed(r)
      BY <2>1, <2>4 DEF Manage!ApplyFailed
    <2> QED
      BY <2>2, <2>3, <2>4 DEF Manage!Apply
  <1>7. LinkTyped' /\ FetchIsForTheLink'
    <2>1. /\ fetch \in Fetching /\ token \in Tokens \cup {None}
          /\ booking \in [Tokens -> Manage!Bookings]
      BY DEF LinkInv, LinkTyped
    <2>2. fetch' \in Fetching
      BY <1>5, <2>1 DEF Fetching, Manage!Sent
    <2>3. FetchIsForTheLink'
      BY <1>1, <1>5, <2>1 DEF LinkInv, FetchIsForTheLink, Manage!Sent
    <2> QED
      BY <1>1, <1>3, <1>6, <2>1, <2>2, <2>3 DEF LinkTyped
  <1>8. DisplayIsOfTheLink'
    BY <1>1, <1>5, <1>6 DEF LinkInv, DisplayIsOfTheLink, Manage!Sent
  <1>9. data' # None /\ data'.status = "cancelled" =>
            \/ data'.statusOf = data.statusOf /\ data.status = "cancelled"
            \/ r.reply = "done" /\ r.kind = "cancel" /\ r # None /\ data'.statusOf = r.token
    <2>1. data \in Manage!Answers \cup {None} /\ r.kind \in Manage!Kinds
      BY <1>1 DEF LinkInv, LinkTyped, Asked
    <2> QED
      <3>1. CASE Manage!ApplyDone(r)
        BY <1>1, <2>1, <3>1 DEF Manage!ApplyDone, Manage!Answers, Manage!Kinds
      <3>2. CASE data' = data
        BY <3>2
      <3> QED
        BY <3>1, <3>2 DEF Manage!Apply, Manage!ApplyClosed, Manage!ApplyFailed
  <1>10. ShownIsCancelled'
    BY <1>1, <1>5, <1>6, <1>9 DEF LinkInv, ShownIsCancelled, DoneIsCancelled, CancelledThere, Manage!Sent
  <1>11. AnswerIsNotOlder'
    BY <1>1, <1>5, <1>6 DEF Manage!NamesApart, LinkInv, LinkTyped, FetchIsForTheLink, AnswerIsNotOlder, Manage!Sent
  <1> QED
    BY <1>4, <1>7, <1>8, <1>10, <1>11 DEF LinkInv

\* Time passes, the staff is at work, or the browser is online again.
LEMMA AroundKeeps ==
    ASSUME LinkInv,
           \/ \E t \in Tokens : Manage!TimePasses(t) \/ Manage!StaffCancels(t) \/ Manage!StaffMarksNoShow(t)
           \/ Manage!Reconnect
    PROVE  LinkInv'
  <1>1. /\ booking' \in [Tokens -> Manage!Bookings] /\ CancellationsStay
        /\ UNCHANGED <<token, data, error, open, blocked>>
        /\ request' = Manage!Dismount(request)
        /\ fetch' = fetch \/ (token # None /\ fetch' = Manage!Sent)
    <2>1. CASE \E t \in Tokens :
                  Manage!TimePasses(t) \/ Manage!StaffCancels(t) \/ Manage!StaffMarksNoShow(t)
      <3> PICK t \in Tokens : Manage!TimePasses(t) \/ Manage!StaffCancels(t) \/ Manage!StaffMarksNoShow(t)
        BY <2>1
      <3>1. booking \in [Tokens -> Manage!Bookings]
        BY DEF LinkInv, LinkTyped
      <3>2. \E b \in Manage!Bookings :
               /\ booking' = [booking EXCEPT ![t] = b]
               /\ booking[t].status = "cancelled" => b.status = "cancelled"
        <4>1. CASE Manage!TimePasses(t)
          <5>1. booking' = [booking EXCEPT ![t] = [booking[t] EXCEPT !.stage = @ + 1]]
            BY <4>1 DEF Manage!TimePasses, Manage!Change
          <5>2. [booking[t] EXCEPT !.stage = @ + 1] \in Manage!Bookings
            BY <3>1, <4>1 DEF Manage!TimePasses, Manage!Bookings, Manage!End
          <5> QED
            BY <3>1, <5>1, <5>2 DEF Manage!Bookings
        <4>2. CASE Manage!StaffCancels(t)
          BY <3>1, <4>2 DEF Manage!StaffCancels, Manage!Change, Manage!Bookings
        <4>3. CASE Manage!StaffMarksNoShow(t)
          BY <3>1, <4>3 DEF Manage!StaffMarksNoShow, Manage!Change, Manage!Bookings
        <4> QED
          BY <4>1, <4>2, <4>3
      <3>3. booking' \in [Tokens -> Manage!Bookings] /\ CancellationsStay
        BY <3>1, <3>2 DEF CancellationsStay
      <3>4. /\ UNCHANGED <<token, data, error, open, blocked, fetch>>
            /\ request' = Manage!Dismount(request)
        BY DEF Manage!TimePasses, Manage!StaffCancels, Manage!StaffMarksNoShow, Manage!Change
      <3> QED
        BY <3>3, <3>4
    <2>2. CASE Manage!Reconnect
      BY <2>2 DEF Manage!Reconnect, Manage!Change, LinkInv, LinkTyped, CancellationsStay
    <2> QED
      BY <2>1, <2>2
  <1>2. DialogsAreTheirs' /\ DoneIsCancelled'
    <2>1. Fewer(request', request)
      BY <1>1, DismountFacts DEF LinkInv, LinkTyped, Fewer
    <2> QED
      BY <1>1, <2>1, FewerRequests
  <1>3. LinkTyped'
    BY <1>1, DismountFacts DEF LinkInv, LinkTyped, Fetching, Manage!Sent
  <1>4. FetchIsForTheLink' /\ DisplayIsOfTheLink' /\ AnswerIsNotOlder'
    BY <1>1 DEF LinkInv, LinkTyped, FetchIsForTheLink, DisplayIsOfTheLink, AnswerIsNotOlder, Manage!Sent
  <1>5. ShownIsCancelled'
    BY <1>1 DEF LinkInv, LinkTyped, FetchIsForTheLink, ShownIsCancelled, CancelledThere, CancellationsStay,
       Manage!Answers, Manage!Sent
  <1> QED
    BY <1>2, <1>3, <1>4, <1>5 DEF LinkInv

\* Every step keeps the invariant.
LEMMA LinkStepHolds ==
    ASSUME Manage!NamesApart
    PROVE  LinkInv /\ [Manage!Next]_(Manage!vars) => LinkInv'
  <1> SUFFICES ASSUME LinkInv, [Manage!Next]_(Manage!vars)
               PROVE  LinkInv'
    OBVIOUS
  <1>1. CASE Manage!Next
    BY <1>1, FollowLinkKeeps, DialogKeeps, RetryKeeps, AnswerFetchKeeps, ReceiveKeeps, DecideKeeps, ApplyKeeps,
       AroundKeeps DEF Manage!Next
  <1>2. CASE UNCHANGED Manage!vars
    BY <1>2 DEF Manage!vars, LinkInv, LinkTyped, FetchIsForTheLink, DialogsAreTheirs, DisplayIsOfTheLink,
       ShownIsCancelled, DoneIsCancelled, CancelledThere, AnswerIsNotOlder, Manage!Attached, Manage!Mounted,
       Manage!View, Manage!ManagedBookingPresentation
  <1> QED
    BY <1>1, <1>2

\* Every reachable state of the page satisfies the invariant.
THEOREM LinkInvariance ==
    ASSUME Manage!NamesApart
    PROVE  Manage!Spec => []LinkInv
  <1>1. LinkInv /\ [Manage!Next]_(Manage!vars) => LinkInv'
    BY LinkStepHolds
  <1> QED
    BY <1>1, LinkInitHolds, PTL DEF Manage!Spec

\* ManagePage!LinkConsistent: the page shows the booking of its link.
THEOREM PageKeepsToItsLink ==
    ASSUME Manage!NamesApart
    PROVE  Manage!Spec => []Manage!LinkConsistent
  <1>1. Manage!Spec => []LinkInv
    BY LinkInvariance
  <1> QED
    BY <1>1, LinkInvIsEnough, PTL

\* ManagePage!CancellationStaysShown: no late answer takes it back.
THEOREM ShownCancellationsStay ==
    ASSUME Manage!NamesApart
    PROVE  Manage!Spec => Manage!CancellationStaysShown
  <1>1. LinkInv /\ [Manage!Next]_(Manage!vars) => [Manage!CancellationKept]_(Manage!vars)
    <2> SUFFICES ASSUME LinkInv, Manage!Next, token' = token, data # None, data' # None,
                        data.status = "cancelled", data.statusOf = token
                 PROVE  data'.status = "cancelled"
      BY DEF Manage!CancellationKept
    <2>1. CASE Manage!Receive
      BY <2>1 DEF Manage!Receive, LinkInv, AnswerIsNotOlder
    <2>2. ASSUME NEW q \in Requests, Manage!Apply(q)
          PROVE  data'.status = "cancelled"
      BY <2>2 DEF Manage!Apply, Manage!ApplyDone, Manage!ApplyClosed, Manage!ApplyFailed, LinkInv, LinkTyped,
         Manage!Answers
    <2>3. CASE data' = data
      BY <2>3
    <2> QED
      BY <2>1, <2>2, <2>3 DEF Manage!Next, Manage!FollowLink, Manage!OpenDialog, Manage!CloseDialog, Manage!Send,
         Manage!RetryLoading, Manage!AnswerFetch, Manage!FetchFails, Manage!Decide, Manage!LoseReply,
         Manage!TimePasses, Manage!StaffCancels, Manage!StaffMarksNoShow, Manage!Reconnect, Manage!Change
  <1>2. Manage!Spec => []LinkInv
    BY LinkInvariance
  <1> QED
    BY <1>1, <1>2, PTL DEF Manage!Spec, Manage!CancellationStaysShown

-----------------------------------------------------------------------------
(* The dialogs of the platform's pages. *)

CONSTANTS Organizations, MaxMoves

VARIABLES organization, page, list, fetching, dialog, draft, deciding, mailed, others, moves

Desk == INSTANCE PlatformDesk WITH request <- deciding, changes <- others

Decisions ==
    [kind : Desk!Kinds, target : Desk!Targets, text : Desk!Texts \cup {None},
     reply : {None, "done", "refused", "failed", "refreshing", "shown"}, mounted : BOOLEAN, here : BOOLEAN]
OnDesk(q) == deciding[q] # None /\ deciding[q].mounted

DeskTyped ==
    /\ page \in Desk!Pages
    /\ dialog \in Desk!Texts \cup {None}
    /\ dialog # None => Desk!PageOf(dialog.kind) = page
    /\ draft \in [Desk!Boxes -> Desk!Texts \cup {None}]
    /\ \A b \in Desk!Boxes : draft[b] # None =>
         Desk!Box(draft[b].kind) = b /\ Desk!PageOf(draft[b].kind) = page
    /\ deciding \in [Requests -> Decisions \cup {None}]

\* A decision belongs to one dialog, in the directory to the open one.
DecisionsBelong ==
    /\ \A q \in Requests : OnDesk(q) /\ page = "directory" =>
         dialog = [kind |-> deciding[q].kind, target |-> deciding[q].target]
    /\ \A q \in Requests : deciding[q] # None /\ deciding[q].here /\ page = "directory" => OnDesk(q)
    /\ \A p, q \in Requests :
         OnDesk(p) /\ OnDesk(q) /\ Desk!Box(deciding[p].kind) = Desk!Box(deciding[q].kind) => p = q

\* The text of a rejection was written in the dialog it is sent from.
TextsFit ==
    /\ dialog # None /\ dialog.kind = "reject" /\ draft["decision"] # None => draft["decision"] = dialog
    /\ \A q \in Requests : deciding[q] # None /\ deciding[q].kind = "reject" =>
         deciding[q].text = [kind |-> "reject", target |-> deciding[q].target]
    /\ Desk!FeedbackFitsTheRequest

DeskInv == DeskTyped /\ DecisionsBelong /\ TextsFit

\* The invariant contains the properties.
LEMMA DeskInvIsEnough == DeskInv => Desk!DialogsConsistent
  BY DEF DeskInv, DeskTyped, DecisionsBelong, TextsFit, Decisions, OnDesk, Desk!DialogsConsistent, Desk!TypeOK,
     Desk!AnswerMeetsItsDialog

\* No dialog is open at first.
LEMMA DeskInitHolds == Desk!Init => DeskInv
  BY DEF Desk!Init, Desk!NoTexts, DeskInv, DeskTyped, DecisionsBelong, TextsFit, OnDesk, Desk!Pages, Desk!Boxes,
     Desk!FeedbackFitsTheRequest

\* A dialog is opened.
LEMMA OpenKeeps ==
    ASSUME Desk!NamesApart,
           DeskInv, NEW kind \in Desk!Kinds, NEW o \in Desk!Targets, Desk!Open(kind, o)
    PROVE  DeskInv'
  <1> DEFINE text == [kind |-> kind, target |-> o]
  <1>1. /\ dialog = None /\ dialog' = text /\ text \in Desk!Texts /\ page = Desk!PageOf(kind)
        /\ UNCHANGED <<page, deciding, mailed>>
        /\ draft' = IF Desk!Box(kind) = "decision" THEN [draft EXCEPT !["decision"] = None] ELSE draft
    BY DEF Desk!Open, Desk!Texts
  <1>2. DeskTyped'
    BY <1>1 DEF DeskInv, DeskTyped, Desk!Boxes
  <1>3. DecisionsBelong'
    BY <1>1 DEF Desk!NamesApart, DeskInv, DeskTyped, DecisionsBelong, OnDesk, Decisions, Desk!Texts
  <1>4. TextsFit'
    BY <1>1 DEF DeskInv, DeskTyped, TextsFit, Desk!FeedbackFitsTheRequest, Desk!Boxes, Desk!Box, Desk!Kinds
  <1> QED
    BY <1>2, <1>3, <1>4 DEF DeskInv

\* A text is typed.
LEMMA TypeKeeps == DeskInv /\ Desk!Type => DeskInv'
  <1> SUFFICES ASSUME DeskInv, Desk!Type
               PROVE  DeskInv'
    OBVIOUS
  <1>1. /\ dialog # None /\ UNCHANGED <<dialog, page, deciding, mailed>>
        /\ draft' = [draft EXCEPT ![Desk!Box(dialog.kind)] = dialog]
    BY DEF Desk!Type
  <1>2. dialog \in Desk!Texts /\ dialog.kind \in Desk!Kinds
    BY <1>1 DEF DeskInv, DeskTyped, Desk!Texts
  <1>3. DeskTyped'
    BY <1>1, <1>2 DEF DeskInv, DeskTyped
  <1>4. DecisionsBelong'
    BY <1>1 DEF DeskInv, DecisionsBelong, OnDesk
  <1>5. TextsFit'
    BY <1>1, <1>2 DEF DeskInv, DeskTyped, TextsFit, Desk!FeedbackFitsTheRequest, Desk!Boxes, Desk!Box
  <1> QED
    BY <1>3, <1>4, <1>5 DEF DeskInv

\* A dialog is cancelled or closed: in the directory none that waits.
LEMMA CloseKeeps == DeskInv /\ (Desk!Cancel \/ Desk!Escape) => DeskInv'
  <1> SUFFICES ASSUME DeskInv, Desk!Cancel \/ Desk!Escape
               PROVE  DeskInv'
    OBVIOUS
  <1>1. /\ dialog # None /\ dialog' = None /\ UNCHANGED <<page, mailed>>
        /\ page = "directory" => ~Desk!Pending(dialog.kind)
        /\ draft' \in {draft, [draft EXCEPT ![Desk!Box(dialog.kind)] = None]}
    BY DEF Desk!Cancel, Desk!Escape
  <1>2. /\ deciding' \in [Requests -> Decisions \cup {None}]
        /\ \A q \in Requests : deciding'[q] # None =>
             /\ deciding[q] # None
             /\ deciding'[q].kind = deciding[q].kind /\ deciding'[q].target = deciding[q].target
             /\ deciding'[q].text = deciding[q].text /\ deciding'[q].here = deciding[q].here
             /\ deciding'[q].mounted => deciding[q].mounted
    <2>1. deciding \in [Requests -> Decisions \cup {None}]
      BY DEF DeskInv, DeskTyped
    <2>2. CASE deciding' = deciding
      BY <2>1, <2>2
    <2>3. CASE deciding' = Desk!Dismiss
      BY <2>1, <2>3 DEF Desk!Dismiss, Decisions
    <2> QED
      BY <2>2, <2>3 DEF Desk!Cancel, Desk!Escape
  <1>3. DeskTyped'
    BY <1>1, <1>2 DEF DeskInv, DeskTyped
  <1>4. page = "directory" => \A q \in Requests : ~OnDesk(q)
    BY <1>1 DEF DeskInv, DecisionsBelong, OnDesk, Desk!Pending
  <1>5. DecisionsBelong'
    BY <1>1, <1>2, <1>4 DEF DeskInv, DecisionsBelong, OnDesk
  <1>6. TextsFit'
    BY <1>1, <1>2 DEF DeskInv, TextsFit, Desk!FeedbackFitsTheRequest
  <1> QED
    BY <1>3, <1>5, <1>6 DEF DeskInv

\* A decision is sent, with the text of its dialog.
LEMMA SubmitKeeps ==
    ASSUME DeskInv, NEW q \in Requests, Desk!Submit(q)
    PROVE  DeskInv'
  <1> DEFINE r == [kind |-> dialog.kind, target |-> dialog.target, text |-> draft[Desk!Box(dialog.kind)],
                   reply |-> None, mounted |-> TRUE, here |-> TRUE]
  <1>1. /\ dialog # None /\ deciding[q] = None /\ ~Desk!Pending(dialog.kind)
        /\ dialog.kind = "reject" => draft[Desk!Box(dialog.kind)] # None
        /\ deciding' = [deciding EXCEPT ![q] = r] /\ UNCHANGED <<page, dialog, draft, mailed>>
    BY DEF Desk!Submit, Desk!Required
  <1>2. /\ dialog \in Desk!Texts /\ dialog.kind \in Desk!Kinds /\ dialog.target \in Desk!Targets
        /\ dialog = [kind |-> dialog.kind, target |-> dialog.target]
        /\ Desk!Box(dialog.kind) \in Desk!Boxes
    BY <1>1 DEF DeskInv, DeskTyped, Desk!Texts, Desk!Kinds, Desk!Box, Desk!Boxes
  <1>3. r \in Decisions
    BY <1>1, <1>2 DEF DeskInv, DeskTyped, Decisions
  <1>4. DeskTyped'
    BY <1>1, <1>3 DEF DeskInv, DeskTyped
  <1>5. DecisionsBelong'
    BY <1>1, <1>2 DEF DeskInv, DeskTyped, DecisionsBelong, OnDesk, Desk!Pending
  <1>6. dialog.kind = "reject" => r.text = [kind |-> "reject", target |-> r.target]
    BY <1>1, <1>2 DEF DeskInv, TextsFit, Desk!Box
  <1>7. TextsFit'
    BY <1>1, <1>6 DEF DeskInv, DeskTyped, TextsFit, Desk!FeedbackFitsTheRequest
  <1> QED
    BY <1>4, <1>5, <1>7 DEF DeskInv

\* Another page.
LEMMA MoveKeeps ==
    ASSUME DeskInv, NEW p \in Desk!Pages, Desk!Move(p)
    PROVE  DeskInv'
  <1>1. /\ page' = p /\ dialog' = None /\ draft' = Desk!NoTexts /\ mailed' = mailed
        /\ deciding' \in [Requests -> Decisions \cup {None}]
        /\ \A q \in Requests : deciding'[q] # None =>
             /\ deciding[q] # None
             /\ deciding'[q].kind = deciding[q].kind /\ deciding'[q].target = deciding[q].target
             /\ deciding'[q].text = deciding[q].text
             /\ ~deciding'[q].mounted /\ ~deciding'[q].here
    BY DEF Desk!Move, DeskInv, DeskTyped, Decisions
  <1>2. DeskTyped'
    BY <1>1 DEF DeskTyped, Desk!NoTexts
  <1>3. DecisionsBelong'
    BY <1>1 DEF DecisionsBelong, OnDesk
  <1>4. TextsFit'
    BY <1>1 DEF DeskInv, TextsFit, Desk!FeedbackFitsTheRequest
  <1> QED
    BY <1>2, <1>3, <1>4 DEF DeskInv

\* The server decides, its reply is lost, or it arrives.
LEMMA DecisionOnItsWayKeeps ==
    ASSUME DeskInv, NEW q \in Requests, Desk!Decide(q) \/ Desk!LoseReply(q) \/ Desk!Answer(q)
    PROVE  DeskInv'
  <1>1. /\ UNCHANGED <<page, dialog, draft>>
        /\ deciding[q] # None
        /\ \E reply \in {"done", "refused", "failed", "refreshing", "shown"} :
              deciding' = [deciding EXCEPT ![q].reply = reply]
        /\ mailed' \in {mailed, [target |-> deciding[q].target, kind |-> deciding[q].kind, text |-> deciding[q].text]}
    BY DEF Desk!Decide, Desk!LoseReply, Desk!Answer
  <1>2. /\ deciding' \in [Requests -> Decisions \cup {None}]
        /\ \A p \in Requests : deciding'[p] # None =>
             /\ deciding[p] # None
             /\ deciding'[p].kind = deciding[p].kind /\ deciding'[p].target = deciding[p].target
             /\ deciding'[p].text = deciding[p].text
             /\ deciding'[p].mounted = deciding[p].mounted /\ deciding'[p].here = deciding[p].here
    BY <1>1 DEF DeskInv, DeskTyped, Decisions
  <1>3. DeskTyped'
    BY <1>1, <1>2 DEF DeskInv, DeskTyped
  <1>4. DecisionsBelong'
    BY <1>1, <1>2 DEF DeskInv, DecisionsBelong, OnDesk
  <1>5. TextsFit'
    BY <1>1, <1>2 DEF DeskInv, TextsFit, Desk!FeedbackFitsTheRequest
  <1> QED
    BY <1>3, <1>4, <1>5 DEF DeskInv

\* Success closes the dialog of the component.
LEMMA FinishKeeps ==
    ASSUME Desk!NamesApart,
           DeskInv, NEW q \in Requests, Desk!Finish(q)
    PROVE  DeskInv'
  <1>1. /\ UNCHANGED <<page, mailed>> /\ deciding[q] # None
        /\ deciding' = [deciding EXCEPT ![q] = None]
        /\ \/ /\ deciding[q].here
              /\ dialog' = IF dialog # None /\ Desk!Box(dialog.kind) = Desk!Box(deciding[q].kind)
                           THEN None ELSE dialog
              /\ draft' = [draft EXCEPT ![Desk!Box(deciding[q].kind)] = None]
           \/ UNCHANGED <<dialog, draft>>
    BY DEF Desk!Finish
  <1>2. /\ deciding' \in [Requests -> Decisions \cup {None}]
        /\ \A p \in Requests : deciding'[p] # None => p # q /\ deciding[p] # None /\ deciding'[p] = deciding[p]
    BY <1>1 DEF DeskInv, DeskTyped
  <1>3. DeskTyped'
    BY <1>1, <1>2 DEF DeskInv, DeskTyped
  <1>4. DecisionsBelong'
    BY <1>1, <1>2 DEF Desk!NamesApart, DeskInv, DecisionsBelong, OnDesk
  <1>5. TextsFit'
    BY <1>1, <1>2 DEF DeskInv, DeskTyped, TextsFit, Desk!FeedbackFitsTheRequest, Desk!Boxes
  <1> QED
    BY <1>3, <1>4, <1>5 DEF DeskInv

\* The invariant is inductive.
LEMMA DeskStepHolds ==
    ASSUME Desk!NamesApart
    PROVE  DeskInv /\ [Desk!Next]_(Desk!vars) => DeskInv'
  <1> SUFFICES ASSUME DeskInv, [Desk!Next]_(Desk!vars)
               PROVE  DeskInv'
    OBVIOUS
  <1>1. CASE UNCHANGED <<page, dialog, draft, deciding, mailed>>
    BY <1>1 DEF DeskInv, DeskTyped, DecisionsBelong, TextsFit, OnDesk, Desk!FeedbackFitsTheRequest
  <1> QED
    BY <1>1, OpenKeeps, TypeKeeps, CloseKeeps, SubmitKeeps, MoveKeeps, DecisionOnItsWayKeeps, FinishKeeps
       DEF Desk!Next, Desk!Fetched, Desk!Refetch, Desk!Others, Desk!vars

\* Every reachable state of the pages satisfies the invariant.
THEOREM DeskInvariance ==
    ASSUME Desk!NamesApart
    PROVE  Desk!Spec => []DeskInv
  <1>1. DeskInv /\ [Desk!Next]_(Desk!vars) => DeskInv'
    BY DeskStepHolds
  <1> QED
    BY <1>1, DeskInitHolds, PTL DEF Desk!Spec

\* PlatformDesk!DialogsConsistent: a decision, its answer and its text belong
\* to the dialog they were made in.
THEOREM DialogsStayConsistent ==
    ASSUME Desk!NamesApart
    PROVE  Desk!Spec => []Desk!DialogsConsistent
  <1>1. Desk!Spec => []DeskInv
    BY DeskInvariance
  <1> QED
    BY <1>1, DeskInvIsEnough, PTL

-----------------------------------------------------------------------------
(* The drafts of the schedule pages. *)

CONSTANTS Editors, Dates, Hours, MaxSaves, Unknown, Empty

VARIABLES stored, answers, refetch, place, editor, save, ask, saves

Tabs == INSTANCE Drafts WITH server <- stored, cache <- answers, fetch <- refetch

Answered == [Tabs!Keys -> [value : Tabs!Stored \cup {Unknown}, invalid : BOOLEAN, failed : BOOLEAN]]
Saves ==
    [key : Tabs!Keys, hours : Tabs!Stored, reply : {"none", "done", "failed"},
     here : BOOLEAN, owned : BOOLEAN, refresh : Tabs!Keys]

TabsTyped ==
    /\ stored \in [Tabs!Keys -> Tabs!Stored]
    /\ place \in Tabs!Places
    /\ answers \in Answered
    /\ refetch \in [Tabs!Keys -> [read : Tabs!Stored] \cup {None, Unknown}]
    /\ editor \in [Editors -> Tabs!Editing \cup {None}]
    /\ save \in [Editors -> Saves \cup {None}]

\* An editor is the one of its place; one that nobody touched shows the answer,
\* an exception apart.
EditorFits(e) ==
    editor[e] # None =>
        /\ Tabs!Mountable(e, place, answers) /\ editor[e].key = Tabs!KeyAt(e, place)
        /\ editor[e].mark = "new" /\ e \notin Tabs!OfDate =>
              /\ editor[e].stored = answers[editor[e].key].value
              /\ editor[e].draft = Tabs!Shown(editor[e].stored)

\* A save whose editor is still there saves what that editor holds.
SaveFits(e) ==
    save[e] # None /\ save[e].here =>
        /\ save[e].owned /\ editor[e] # None
        /\ editor[e].mark = "new" => e \in Tabs!OfDate
        /\ editor[e].mark = "typed" => editor[e].draft = Tabs!Shown(save[e].hours)

\* The drafts the dialog asks about are all that its change would lose.
AskedAbout ==
    ask # None =>
        /\ ask.to \in Tabs!Places /\ ask.drafts \subseteq Editors
        /\ \A e \in Editors : Tabs!Unsaved(e) /\ e \in Tabs!Concerned(ask.to) => e \in ask.drafts

TabsInv == TabsTyped /\ (\A e \in Editors : EditorFits(e) /\ SaveFits(e)) /\ AskedAbout

\* A content on display compares equal to itself.
LEMMA ShownCompares ==
    ASSUME Tabs!ConstantsFit,
           NEW e \in Editors, NEW h
    PROVE  Tabs!Compared(e, Tabs!Shown(h)) = h
  BY DEF Tabs!ConstantsFit, Tabs!Compared, Tabs!Shown, Tabs!OrganizationHoursRead, Tabs!ResourceHoursRead,
     Tabs!ExceptionRead, Tabs!RulesRead, Tabs!OfDate

\* New data in a mounted editor.
LEMMA SyncedFacts ==
    ASSUME NEW e \in Editors, NEW r \in Tabs!Editing, NEW v \in Tabs!Stored
    PROVE  /\ Tabs!Synced(e, r, v) \in Tabs!Editing
           /\ Tabs!Synced(e, r, v).key = r.key /\ Tabs!Synced(e, r, v).stored = v
           /\ Tabs!Dirty(e, r) =>
                Tabs!Synced(e, r, v).draft = r.draft /\ Tabs!Synced(e, r, v).mark = r.mark
           /\ ~Tabs!Dirty(e, r) =>
                /\ Tabs!Synced(e, r, v).draft = Tabs!Shown(v)
                /\ Tabs!Synced(e, r, v).mark # "typed"
                /\ Tabs!Synced(e, r, v).mark = "new" => r.mark = "new"
  BY DEF Tabs!Synced, Tabs!Editing, Tabs!Shown, Tabs!Contents

\* The editors a place has over its answers.
LEMMA MountedFacts ==
    ASSUME Tabs!ConstantsFit,
           NEW e \in Editors, NEW r \in Tabs!Editing \cup {None}, NEW p \in Tabs!Places, NEW c \in Answered
    PROVE  /\ Tabs!Mounted(e, r, p, c) \in Tabs!Editing \cup {None}
           /\ Tabs!Mounted(e, r, p, c) # None =>
                Tabs!Mountable(e, p, c) /\ Tabs!Mounted(e, r, p, c).key = Tabs!KeyAt(e, p)
           /\ Tabs!Mountable(e, p, c) /\ r # None /\ r.key = Tabs!KeyAt(e, p) => Tabs!Mounted(e, r, p, c) = r
           /\ Tabs!Mounted(e, r, p, c) \notin {None, r} \/ (Tabs!Mounted(e, r, p, c) # None /\ r = None) =>
                /\ Tabs!Mounted(e, r, p, c).mark = "new"
                /\ e \notin Tabs!OfDate =>
                     /\ Tabs!Mounted(e, r, p, c).stored = c[Tabs!KeyAt(e, p)].value
                     /\ Tabs!Mounted(e, r, p, c).draft = Tabs!Shown(Tabs!Mounted(e, r, p, c).stored)
           /\ r # None /\ r.key # Tabs!KeyAt(e, p) => Tabs!Mounted(e, r, p, c) # r
  <1> DEFINE k == Tabs!KeyAt(e, p)
             o == Tabs!Opened(e, k, c[k].value)
  <1>1. k \in Tabs!Keys
    BY DEF Tabs!Keys
  <1> HIDE DEF k
  <1>2. Tabs!Mountable(e, p, c) => c[k].value \in Tabs!Stored
    BY <1>1 DEF Tabs!Mountable, Answered, k
  <1>3. Tabs!Mountable(e, p, c) =>
            /\ o \in Tabs!Editing /\ o.key = k /\ o.mark = "new" /\ o.stored = c[k].value
            /\ e \notin Tabs!OfDate => o.draft = Tabs!Shown(c[k].value)
    BY <1>1, <1>2 DEF Tabs!Opened, Tabs!Editing, Tabs!Contents, Tabs!Stored, Tabs!Shown
  <1>4. Tabs!Mounted(e, r, p, c) =
            IF ~Tabs!Mountable(e, p, c) THEN None ELSE IF r # None /\ r.key = k THEN r ELSE o
    BY DEF Tabs!Mounted, k, o
  <1> HIDE DEF o
  <1>5. None \notin Tabs!Editing
    BY DEF Tabs!ConstantsFit
  <1> QED
    BY <1>3, <1>4, <1>5 DEF k

-----------------------------------------------------------------------------
(* The actions. *)

\* A key of the page.
LEMMA KeyOf == ASSUME NEW e \in Editors, NEW p \in Tabs!Places
               PROVE  Tabs!KeyAt(e, p) \in Tabs!Keys
  BY DEF Tabs!Keys

\* The key of the organization's hours, where editors of hours are.
LEMMA HoursKeyOf ==
    ASSUME Tabs!ConstantsFit,
           NEW x \in Editors, NEW p \in Tabs!Places, Tabs!TabOf(x) = "hours"
    PROVE  Tabs!KeyAt("organization hours", p) \in Tabs!Keys
  <1>1. "organization hours" \in Editors
    BY DEF Tabs!ConstantsFit, Tabs!TabOf, Tabs!OfDate
  <1> QED
    BY <1>1, KeyOf

\* Typing takes no save's place.
LEMMA EditKeeps ==
    ASSUME TabsInv, NEW e \in Editors, NEW d \in Tabs!Contents, Tabs!Edit(e, d)
    PROVE  TabsInv'
  <1>1. /\ ask = None /\ editor[e] # None /\ ~Tabs!Saving(e)
        /\ editor' = [editor EXCEPT ![e].draft = d, ![e].mark = "typed"]
        /\ UNCHANGED <<stored, answers, refetch, place, save, ask>>
    BY DEF Tabs!Edit, Tabs!OnScreen
  <1>2. editor[e] \in Tabs!Editing /\ editor \in [Editors -> Tabs!Editing \cup {None}]
    BY <1>1 DEF TabsInv, TabsTyped
  <1>3. /\ editor' \in [Editors -> Tabs!Editing \cup {None}]
        /\ editor'[e].key = editor[e].key /\ editor'[e].mark = "typed"
        /\ \A x \in Editors : x # e => editor'[x] = editor[x]
    BY <1>1, <1>2 DEF Tabs!Editing
  <1>4. TabsTyped' /\ AskedAbout'
    BY <1>1, <1>3 DEF TabsInv, TabsTyped, AskedAbout
  <1>5. ASSUME NEW x \in Editors
        PROVE  EditorFits(x)' /\ SaveFits(x)'
    <2>1. EditorFits(x) /\ SaveFits(x)
      BY DEF TabsInv
    <2>2. EditorFits(x)'
      BY <1>1, <1>3, <2>1 DEF EditorFits, Tabs!Mountable
    <2>3. SaveFits(x)'
      BY <1>1, <1>3, <2>1 DEF SaveFits, Tabs!Saving
    <2> QED
      BY <2>2, <2>3
  <1> QED
    BY <1>4, <1>5 DEF TabsInv

\* A save takes what its editor holds.
LEMMA SaveKeeps ==
    ASSUME Tabs!ConstantsFit,
           TabsInv, NEW e \in Editors, Tabs!Save(e)
    PROVE  TabsInv'
  <1> DEFINE new == [key |-> editor[e].key, hours |-> editor[e].draft.hours, reply |-> "none",
                     here |-> TRUE, owned |-> TRUE, refresh |-> editor[e].key]
  <1>1. /\ ask = None /\ editor[e] # None /\ editor[e].draft.text = "read" /\ Tabs!Dirty(e, editor[e])
        /\ save' = [save EXCEPT ![e] = new]
        /\ UNCHANGED <<stored, answers, refetch, place, editor, ask>>
    BY DEF Tabs!Save, Tabs!OnScreen
  <1>2. editor[e] \in Tabs!Editing
    BY <1>1 DEF TabsInv, TabsTyped
  <1>3. new \in Saves /\ editor[e].draft = Tabs!Shown(new.hours)
    BY <1>1, <1>2 DEF Saves, Tabs!Editing, Tabs!Contents, Tabs!Shown
  <1>4. TabsTyped' /\ AskedAbout'
    BY <1>1, <1>3 DEF TabsInv, TabsTyped, AskedAbout
  <1>5. editor[e].mark = "new" => e \in Tabs!OfDate
    BY <1>1, ShownCompares DEF TabsInv, EditorFits, Tabs!Dirty
  <1>6. ASSUME NEW x \in Editors
        PROVE  EditorFits(x)' /\ SaveFits(x)'
    <2>1. EditorFits(x) /\ SaveFits(x) /\ save \in [Editors -> Saves \cup {None}]
      BY DEF TabsInv, TabsTyped
    <2>2. EditorFits(x)'
      BY <1>1, <2>1 DEF EditorFits, Tabs!Mountable
    <2>3. SaveFits(x)'
      BY <1>1, <1>3, <1>5, <2>1 DEF SaveFits
    <2> QED
      BY <2>2, <2>3
  <1> QED
    BY <1>4, <1>6 DEF TabsInv

\* What neither the editors nor their answers see.
LEMMA BehindTheEditorsKeeps ==
    ASSUME TabsInv,
           \/ \E e \in Editors : Tabs!Store(e)
           \/ \E k \in Tabs!Keys : Tabs!Read(k) \/ Tabs!Refetch(k)
           \/ \E k \in Tabs!Keys, h \in Tabs!Stored : Tabs!OthersSave(k, h)
    PROVE  TabsInv'
  <1>1. /\ stored \in [Tabs!Keys -> Tabs!Stored] /\ save \in [Editors -> Saves \cup {None}]
        /\ refetch \in [Tabs!Keys -> [read : Tabs!Stored] \cup {None, Unknown}]
    BY DEF TabsInv, TabsTyped
  <1>2. /\ UNCHANGED <<answers, place, editor, ask>>
        /\ stored' \in [Tabs!Keys -> Tabs!Stored] /\ save' \in [Editors -> Saves \cup {None}]
        /\ refetch' \in [Tabs!Keys -> [read : Tabs!Stored] \cup {None, Unknown}]
        /\ \A x \in Editors : save'[x] # None =>
             save[x] # None /\ save'[x].here = save[x].here /\ save'[x].owned = save[x].owned
                /\ save'[x].hours = save[x].hours
    <2>1. ASSUME NEW e \in Editors, Tabs!Store(e)
          PROVE  <1>2
      <3>1. /\ save[e] # None /\ UNCHANGED <<answers, place, editor, ask, refetch>>
            /\ stored' = stored \/ stored' = [stored EXCEPT ![save[e].key] = save[e].hours]
            /\ \E r \in {"done", "failed"} : save' = [save EXCEPT ![e].reply = r]
        BY <2>1 DEF Tabs!Store
      <3> QED
        BY <1>1, <3>1 DEF Saves
    <2>2. ASSUME NEW k \in Tabs!Keys, Tabs!Read(k) \/ Tabs!Refetch(k)
          PROVE  <1>2
      <3>1. /\ UNCHANGED <<stored, answers, place, editor, save, ask>>
            /\ \E v \in [read : Tabs!Stored] \cup {None, Unknown} : refetch' = [refetch EXCEPT ![k] = v]
        BY <1>1, <2>2 DEF Tabs!Read, Tabs!Refetch
      <3> QED
        BY <1>1, <3>1
    <2>3. ASSUME NEW k \in Tabs!Keys, NEW h \in Tabs!Stored, Tabs!OthersSave(k, h)
          PROVE  <1>2
      BY <1>1, <2>3 DEF Tabs!OthersSave
    <2> QED
      BY <2>1, <2>2, <2>3
  <1>3. TabsTyped'
    BY <1>2 DEF TabsInv, TabsTyped
  <1>4. AskedAbout'
    BY <1>2 DEF TabsInv, AskedAbout, Tabs!Unsaved, Tabs!DirtyAmong, Tabs!Concerned
  <1>5. ASSUME NEW x \in Editors
        PROVE  EditorFits(x)' /\ SaveFits(x)'
    <2>1. EditorFits(x) /\ SaveFits(x)
      BY DEF TabsInv
    <2> QED
      BY <1>2, <2>1 DEF EditorFits, SaveFits, Tabs!Mountable
  <1> QED
    BY <1>3, <1>4, <1>5 DEF TabsInv

\* The answer to a save.
LEMMA AnswerKeeps ==
    ASSUME Tabs!ConstantsFit,
           TabsInv, NEW e \in Editors, Tabs!Answer(e)
    PROVE  TabsInv'
  <1>1. /\ answers \in Answered /\ save \in [Editors -> Saves \cup {None}]
        /\ editor \in [Editors -> Tabs!Editing \cup {None}] /\ None \notin Tabs!Editing
        /\ refetch \in [Tabs!Keys -> [read : Tabs!Stored] \cup {None, Unknown}]
    BY DEF TabsInv, TabsTyped, Tabs!ConstantsFit
  <1>2. /\ UNCHANGED <<stored, place, ask>> /\ save[e] # None
        /\ save' = [save EXCEPT ![e] = None]
        /\ \/ UNCHANGED <<answers, refetch, editor>>
           \/ /\ answers' = [answers EXCEPT ![save[e].refresh].invalid = TRUE]
              /\ \E v \in {Unknown, None} : refetch' = [refetch EXCEPT ![save[e].refresh] = v]
              /\ \/ editor' = editor
                 \/ save[e].here /\ editor' = [editor EXCEPT ![e].stored = save[e].hours]
    <2>1. CASE save[e].reply = "failed"
      BY <2>1 DEF Tabs!Answer
    <2>2. CASE save[e].reply # "failed"
      <3>1. /\ answers' = [answers EXCEPT ![save[e].refresh].invalid = TRUE]
            /\ refetch' = [refetch EXCEPT ![save[e].refresh] =
                              IF save[e].refresh \in Tabs!WatchedAt(place) THEN Unknown ELSE None]
            /\ editor' = IF save[e].here THEN [editor EXCEPT ![e].stored = save[e].hours] ELSE editor
        BY <2>2 DEF Tabs!Answer
      <3>2. /\ UNCHANGED <<stored, place, ask>> /\ save[e] # None
            /\ save' = [save EXCEPT ![e] = None]
        BY DEF Tabs!Answer
      <3> QED
        BY <3>1, <3>2
    <2> QED
      BY <2>1, <2>2
  <1>3. /\ save[e].refresh \in Tabs!Keys /\ save[e].hours \in Tabs!Stored
        /\ save[e].here => editor[e] \in Tabs!Editing
    <2>1. SaveFits(e)
      BY DEF TabsInv
    <2>2. save[e] \in Saves
      BY <1>1, <1>2
    <2>3. save[e].here => editor[e] \in Tabs!Editing
      BY <1>1, <1>2, <2>1 DEF SaveFits
    <2>4. save[e].refresh \in Tabs!Keys /\ save[e].hours \in Tabs!Stored
      BY <2>2 DEF Saves
    <2> QED
      BY <2>3, <2>4
  <1>4. /\ answers' \in Answered
        /\ \A k \in Tabs!Keys : answers'[k].value = answers[k].value /\ answers'[k].failed = answers[k].failed
        /\ refetch' \in [Tabs!Keys -> [read : Tabs!Stored] \cup {None, Unknown}]
        /\ save' \in [Editors -> Saves \cup {None}]
    <2>1. save' \in [Editors -> Saves \cup {None}]
      BY <1>1, <1>2
    <2>2. refetch' \in [Tabs!Keys -> [read : Tabs!Stored] \cup {None, Unknown}]
      BY <1>1, <1>2, <1>3
    <2>3. /\ answers' \in Answered
          /\ \A k \in Tabs!Keys : answers'[k].value = answers[k].value /\ answers'[k].failed = answers[k].failed
      <3> DEFINE k == save[e].refresh
                 row == [answers[k] EXCEPT !.invalid = TRUE]
                 Row == [value : Tabs!Stored \cup {Unknown}, invalid : BOOLEAN, failed : BOOLEAN]
      <3>1. \A old \in Row : LET x == [old EXCEPT !.invalid = TRUE]
                            IN  x \in Row /\ x.value = old.value /\ x.failed = old.failed
        OBVIOUS
      <3>2. k \in Tabs!Keys /\ answers[k] \in Row
        BY <1>1, <1>2, <1>3 DEF Answered
      <3>3. row \in Row /\ row.value = answers[k].value /\ row.failed = answers[k].failed
        BY <3>1, <3>2
      <3>4. answers' = answers \/ answers' = [answers EXCEPT ![k] = row]
        BY <1>2
      <3> HIDE DEF k, row
      <3> QED
        BY <1>1, <3>2, <3>3, <3>4 DEF Answered
    <2> QED
      BY <2>1, <2>2, <2>3
  <1>5. /\ editor' \in [Editors -> Tabs!Editing \cup {None}]
        /\ \A x \in Editors :
             \/ editor'[x] = editor[x]
             \/ /\ x = e /\ save[e].here /\ editor'[e] \in Tabs!Editing
                /\ editor'[e].key = editor[e].key /\ editor'[e].draft = editor[e].draft
                /\ editor'[e].mark = editor[e].mark /\ editor'[e].stored = save[e].hours
    BY <1>1, <1>2, <1>3 DEF Tabs!Editing
  <1>6. TabsTyped'
    BY <1>2, <1>4, <1>5 DEF TabsInv, TabsTyped
  <1>7. ASSUME NEW x \in Editors
        PROVE  /\ EditorFits(x)' /\ SaveFits(x)'
               /\ Tabs!Unsaved(x)' => Tabs!Unsaved(x)
    <2>1. EditorFits(x) /\ SaveFits(x) /\ SaveFits(e) /\ place \in Tabs!Places
      BY DEF TabsInv, TabsTyped
    <2>2. Tabs!Mountable(x, place, answers) => Tabs!Mountable(x, place, answers')
      <3>1. x = "resource hours" => Tabs!TabOf(x) = "hours"
        BY DEF Tabs!TabOf
      <3> QED
        BY <1>4, <2>1, <3>1, KeyOf, HoursKeyOf DEF Tabs!Mountable
    <2>3. CASE editor'[x] = editor[x]
      <3>1. EditorFits(x)'
        BY <1>2, <1>4, <2>1, <2>2, <2>3, KeyOf DEF EditorFits
      <3>2. SaveFits(x)'
        BY <1>1, <1>2, <2>1, <2>3 DEF SaveFits
      <3> QED
        BY <2>3, <3>1, <3>2 DEF Tabs!Unsaved, Tabs!DirtyAmong
    <2>4. CASE editor'[x] # editor[x]
      <3>1. /\ x = e /\ save[e].here /\ editor'[e] # None /\ editor[e] # None
            /\ editor'[e].key = editor[e].key /\ editor'[e].draft = editor[e].draft
            /\ editor'[e].mark = editor[e].mark /\ editor'[e].stored = save[e].hours
        BY <1>1, <1>3, <1>5, <2>4
      <3>2. EditorFits(x)'
        BY <1>2, <2>1, <2>2, <3>1 DEF EditorFits, SaveFits
      <3>3. SaveFits(x)'
        BY <1>1, <1>2, <3>1 DEF SaveFits
      <3>4. ~Tabs!Unsaved(x)'
        BY <1>2, <2>1, <3>1, ShownCompares DEF Tabs!Unsaved, Tabs!DirtyAmong, SaveFits, Tabs!Dirty
      <3> QED
        BY <3>2, <3>3, <3>4
    <2> QED
      BY <2>3, <2>4
  <1>8. AskedAbout'
    BY <1>2, <1>7 DEF TabsInv, AskedAbout, Tabs!Concerned
  <1> QED
    BY <1>6, <1>7, <1>8 DEF TabsInv

\* New data arrives: an unsaved draft stays.
LEMMA ArriveKeeps ==
    ASSUME Tabs!ConstantsFit,
           TabsInv, NEW k \in Tabs!Keys, Tabs!Arrive(k)
    PROVE  TabsInv' /\ \A x \in Editors : Tabs!Unsaved(x) => editor'[x] # None /\ editor'[x].draft = editor[x].draft
  <1> DEFINE v == refetch[k].read
             c == [answers EXCEPT ![k] = [value |-> v, invalid |-> FALSE, failed |-> FALSE]]
             s(x) == IF editor[x] # None /\ editor[x].key = k /\ v # answers[k].value
                     THEN Tabs!Synced(x, editor[x], v) ELSE editor[x]
  <1>1. /\ answers' = c /\ UNCHANGED <<stored, place, save, ask>>
        /\ refetch' = [refetch EXCEPT ![k] = None] /\ refetch[k] \notin {None, Unknown}
        /\ editor' = [x \in Editors |-> Tabs!Mounted(x, s(x), place, c)]
    BY DEF Tabs!Arrive
  <1>2. /\ answers \in Answered /\ place \in Tabs!Places /\ None \notin Tabs!Editing
        /\ editor \in [Editors -> Tabs!Editing \cup {None}] /\ v \in Tabs!Stored /\ v # Unknown
        /\ refetch \in [Tabs!Keys -> [read : Tabs!Stored] \cup {None, Unknown}]
    BY <1>1 DEF TabsInv, TabsTyped, Tabs!ConstantsFit
  <1>3. c \in Answered /\ c[k].value = v /\ ~c[k].failed /\ \A j \in Tabs!Keys : j # k => c[j] = answers[j]
    BY <1>2 DEF Answered
  <1> HIDE DEF c
  <1>4. ASSUME NEW x \in Editors, editor[x] = None
        PROVE  /\ editor'[x] \in Tabs!Editing \cup {None}
               /\ EditorFits(x)' /\ SaveFits(x)' /\ ~Tabs!Unsaved(x)'
    <2>1. EditorFits(x) /\ SaveFits(x)
      BY DEF TabsInv
    <2>2. editor'[x] = Tabs!Mounted(x, None, place, c)
      BY <1>1, <1>4
    <2>3. /\ editor'[x] \in Tabs!Editing \cup {None}
          /\ editor'[x] # None =>
               /\ Tabs!Mountable(x, place, c) /\ editor'[x].key = Tabs!KeyAt(x, place)
               /\ editor'[x].mark = "new"
               /\ x \notin Tabs!OfDate =>
                    /\ editor'[x].stored = c[Tabs!KeyAt(x, place)].value
                    /\ editor'[x].draft = Tabs!Shown(editor'[x].stored)
      BY <1>2, <1>3, <2>2, MountedFacts
    <2>4. EditorFits(x)' /\ ~Tabs!Unsaved(x)'
      BY <1>1, <2>3 DEF EditorFits, Tabs!Unsaved, Tabs!DirtyAmong
    <2>5. SaveFits(x)'
      BY <1>1, <1>4, <2>1 DEF SaveFits
    <2> QED
      BY <2>3, <2>4, <2>5
  <1>5. ASSUME NEW x \in Editors, editor[x] # None
        PROVE  /\ editor'[x] \in Tabs!Editing
               /\ EditorFits(x)' /\ SaveFits(x)'
               /\ Tabs!Unsaved(x)' => Tabs!Unsaved(x)
               /\ Tabs!Unsaved(x) => editor'[x].draft = editor[x].draft
    <2>1. /\ EditorFits(x) /\ SaveFits(x) /\ editor[x] \in Tabs!Editing
          /\ Tabs!KeyAt(x, place) \in Tabs!Keys
      BY <1>2, <1>5, KeyOf DEF TabsInv
    <2>2. Tabs!Mountable(x, place, c) /\ editor[x].key = Tabs!KeyAt(x, place)
      <3>1. x = "resource hours" => Tabs!TabOf(x) = "hours"
        BY DEF Tabs!TabOf
      <3> QED
        BY <1>2, <1>3, <1>5, <2>1, <3>1, HoursKeyOf DEF EditorFits, Tabs!Mountable
    <2>3. s(x) \in Tabs!Editing /\ s(x).key = editor[x].key
      BY <1>2, <2>1, SyncedFacts
    <2>4. editor'[x] = s(x)
      BY <1>1, <1>2, <1>3, <2>2, <2>3, MountedFacts
    <2>5. CASE editor[x].key = k /\ v # answers[k].value
      <3>1. /\ editor'[x] \in Tabs!Editing
            /\ editor'[x].key = editor[x].key /\ editor'[x].stored = v
            /\ Tabs!Dirty(x, editor[x]) =>
                 editor'[x].draft = editor[x].draft /\ editor'[x].mark = editor[x].mark
            /\ ~Tabs!Dirty(x, editor[x]) =>
                 /\ editor'[x].draft = Tabs!Shown(v) /\ editor'[x].mark # "typed"
                 /\ editor'[x].mark = "new" => editor[x].mark = "new"
        BY <1>2, <1>5, <2>1, <2>4, <2>5, SyncedFacts
      <3>2. editor[x].mark = "new" /\ x \notin Tabs!OfDate => ~Tabs!Dirty(x, editor[x])
        BY <1>5, <2>1, ShownCompares DEF EditorFits, Tabs!Dirty
      <3>3. EditorFits(x)'
        BY <1>1, <1>3, <2>2, <2>5, <3>1, <3>2 DEF EditorFits
      <3>4. SaveFits(x)'
        BY <1>1, <1>2, <2>1, <3>1 DEF SaveFits
      <3>5. /\ Tabs!Unsaved(x)' => Tabs!Unsaved(x)
            /\ Tabs!Unsaved(x) => editor'[x].draft = editor[x].draft
        BY <1>5, <3>1 DEF Tabs!Unsaved, Tabs!DirtyAmong
      <3> QED
        BY <3>1, <3>3, <3>4, <3>5
    <2>6. CASE ~(editor[x].key = k /\ v # answers[k].value)
      <3>1. editor'[x] = editor[x]
        BY <2>4, <2>6
      <3>2. EditorFits(x)'
        BY <1>1, <1>3, <2>1, <2>2, <2>6, <3>1 DEF EditorFits
      <3>3. SaveFits(x)'
        BY <1>1, <2>1, <3>1 DEF SaveFits
      <3> QED
        BY <2>1, <3>1, <3>2, <3>3 DEF Tabs!Unsaved, Tabs!DirtyAmong
    <2> QED
      BY <2>5, <2>6
  <1>6. TabsTyped'
    <2>1. editor' \in [Editors -> Tabs!Editing \cup {None}]
      BY <1>1, <1>4, <1>5
    <2>2. refetch' \in [Tabs!Keys -> [read : Tabs!Stored] \cup {None, Unknown}]
      BY <1>1, <1>2
    <2> QED
      BY <1>1, <1>3, <2>1, <2>2 DEF TabsInv, TabsTyped
  <1>7. AskedAbout'
    BY <1>1, <1>4, <1>5 DEF TabsInv, AskedAbout, Tabs!Concerned
  <1>8. \A x \in Editors : Tabs!Unsaved(x) => editor'[x] # None /\ editor'[x].draft = editor[x].draft
    BY <1>2, <1>5 DEF Tabs!Unsaved, Tabs!DirtyAmong
  <1> QED
    BY <1>4, <1>5, <1>6, <1>7, <1>8 DEF TabsInv

\* A failed fetch: the editors that stay are as they were, and only those of
\* the hours may go, for the error of the organization's.
LEMMA FetchFailsKeeps ==
    ASSUME Tabs!ConstantsFit,
           TabsInv, NEW k \in Tabs!Keys, Tabs!FetchFails(k)
    PROVE  /\ TabsInv'
           /\ \A x \in Editors : Tabs!Unsaved(x) =>
                \/ editor'[x] = editor[x]
                \/ Tabs!TabOf(x) = "hours" /\ k = Tabs!KeyAt("organization hours", place)
  <1> DEFINE hidden == k.editor \in Tabs!ErrorFirst /\ answers[k].value # Unknown
             c == [answers EXCEPT ![k].failed = hidden]
  <1>1. /\ answers' = c /\ UNCHANGED <<stored, place, ask>>
        /\ refetch' = [refetch EXCEPT ![k] = None]
        /\ editor' = [x \in Editors |-> Tabs!Mounted(x, editor[x], place, c)]
        /\ save' = [x \in Editors |->
              IF save[x] = None THEN None ELSE [save[x] EXCEPT !.here = @ /\ editor'[x] # None]]
    BY DEF Tabs!FetchFails
  <1>2. /\ answers \in Answered /\ place \in Tabs!Places /\ None \notin Tabs!Editing
        /\ editor \in [Editors -> Tabs!Editing \cup {None}]
        /\ save \in [Editors -> Saves \cup {None}]
        /\ refetch \in [Tabs!Keys -> [read : Tabs!Stored] \cup {None, Unknown}]
    BY DEF TabsInv, TabsTyped, Tabs!ConstantsFit
  <1>3. /\ c \in Answered
        /\ \A j \in Tabs!Keys : c[j].value = answers[j].value /\ (j # k => c[j].failed = answers[j].failed)
    <2>1. hidden \in BOOLEAN
      OBVIOUS
    <2> HIDE DEF hidden
    <2> QED
      BY <1>2, <2>1 DEF Answered
  <1> HIDE DEF c
  <1>4. ASSUME NEW x \in Editors
        PROVE  /\ editor'[x] \in Tabs!Editing \cup {None}
               /\ save'[x] \in Saves \cup {None}
               /\ EditorFits(x)' /\ SaveFits(x)'
               /\ Tabs!Unsaved(x)' => Tabs!Unsaved(x)
               /\ Tabs!Unsaved(x) =>
                     \/ editor'[x] = editor[x]
                     \/ Tabs!TabOf(x) = "hours" /\ k = Tabs!KeyAt("organization hours", place)
    <2>1. /\ EditorFits(x) /\ SaveFits(x) /\ editor[x] \in Tabs!Editing \cup {None}
          /\ Tabs!KeyAt(x, place) \in Tabs!Keys
      BY <1>2, KeyOf DEF TabsInv
    <2>2. editor'[x] = Tabs!Mounted(x, editor[x], place, c)
      BY <1>1
    <2>3. /\ editor'[x] \in Tabs!Editing \cup {None}
          /\ editor'[x] # None =>
               Tabs!Mountable(x, place, c) /\ editor'[x].key = Tabs!KeyAt(x, place)
          /\ Tabs!Mountable(x, place, c) /\ editor[x] # None => editor'[x] = editor[x]
          /\ editor'[x] # None /\ editor'[x] # editor[x] =>
               /\ editor'[x].mark = "new"
               /\ x \notin Tabs!OfDate =>
                    /\ editor'[x].stored = c[Tabs!KeyAt(x, place)].value
                    /\ editor'[x].draft = Tabs!Shown(editor'[x].stored)
      BY <1>2, <1>3, <2>1, <2>2, MountedFacts DEF EditorFits
    <2>4. EditorFits(x)'
      BY <1>1, <1>3, <2>1, <2>3 DEF EditorFits
    <2>5. /\ save'[x] \in Saves \cup {None}
          /\ save'[x] # None /\ save'[x].here =>
               /\ save[x] # None /\ save[x].here /\ editor'[x] # None
               /\ save'[x].owned = save[x].owned /\ save'[x].hours = save[x].hours
      <3>1. save[x] \in Saves \cup {None}
        BY <1>2
      <3>2. save'[x] = IF save[x] = None THEN None ELSE [save[x] EXCEPT !.here = @ /\ editor'[x] # None]
        BY <1>1
      <3> QED
        BY <3>1, <3>2 DEF Saves
    <2>6. SaveFits(x)'
      BY <2>1, <2>3, <2>5 DEF SaveFits
    <2>7. Tabs!Unsaved(x)' => Tabs!Unsaved(x)
      BY <2>3 DEF Tabs!Unsaved, Tabs!DirtyAmong
    <2>8. ASSUME Tabs!Unsaved(x), editor'[x] # editor[x]
          PROVE  Tabs!TabOf(x) = "hours" /\ k = Tabs!KeyAt("organization hours", place)
      <3>1. Tabs!Mountable(x, place, answers) /\ ~Tabs!Mountable(x, place, c)
        BY <2>1, <2>3, <2>8 DEF EditorFits, Tabs!Unsaved, Tabs!DirtyAmong
      <3>2. x = "resource hours" => Tabs!TabOf(x) = "hours"
        BY DEF Tabs!TabOf
      <3> QED
        BY <1>2, <1>3, <2>1, <3>1, <3>2, HoursKeyOf DEF Tabs!Mountable
    <2> QED
      BY <2>3, <2>4, <2>5, <2>6, <2>7, <2>8
  <1>5. TabsTyped'
    <2>1. /\ editor' \in [Editors -> Tabs!Editing \cup {None}]
          /\ save' \in [Editors -> Saves \cup {None}]
      BY <1>1, <1>4
    <2>2. refetch' \in [Tabs!Keys -> [read : Tabs!Stored] \cup {None, Unknown}]
      BY <1>1, <1>2
    <2> QED
      BY <1>1, <1>3, <2>1, <2>2 DEF TabsInv, TabsTyped
  <1>6. AskedAbout'
    BY <1>1, <1>4 DEF TabsInv, AskedAbout, Tabs!Concerned
  <1> QED
    BY <1>4, <1>5, <1>6 DEF TabsInv

\* A change of place: it loses no draft but those it concerns.
LEMMA GoKeeps ==
    ASSUME Tabs!ConstantsFit,
           TabsInv, NEW p \in Tabs!Places, Tabs!Go(p), UNCHANGED <<stored, answers>>
    PROVE  /\ TabsTyped'
           /\ \A x \in Editors : EditorFits(x)' /\ SaveFits(x)'
           /\ \A x \in Editors : Tabs!Unsaved(x) /\ x \notin Tabs!Concerned(p) => editor'[x] = editor[x]
  <1>1. /\ answers \in Answered /\ place \in Tabs!Places /\ None \notin Tabs!Editing
        /\ editor \in [Editors -> Tabs!Editing \cup {None}]
        /\ save \in [Editors -> Saves \cup {None}]
        /\ refetch \in [Tabs!Keys -> [read : Tabs!Stored] \cup {None, Unknown}]
    BY DEF TabsInv, TabsTyped, Tabs!ConstantsFit
  <1> DEFINE new == [x \in Editors |-> Tabs!Mounted(x, editor[x], p, answers)]
             owned(x) == save[x].owned /\ Tabs!OwnerAt(x, p)
             here(x) == /\ save[x].here /\ new[x] # None
                        /\ Tabs!TabOf(x) = place.tab /\ Tabs!KeyAt(x, p) = Tabs!KeyAt(x, place)
  <1>2. /\ place' = p /\ editor' = new
        /\ save' = [x \in Editors |->
              IF save[x] = None THEN None
              ELSE [save[x] EXCEPT !.owned = owned(x),
                                   !.refresh = IF owned(x) THEN Tabs!KeyAt(x, p) ELSE @,
                                   !.here = here(x)]]
    BY DEF Tabs!Go
  <1>3. refetch' \in [Tabs!Keys -> [read : Tabs!Stored] \cup {None, Unknown}]
    <2>1. PICK old : refetch' = [k \in Tabs!Keys |->
                       IF k \notin Tabs!WatchedAt(p) THEN None
                       ELSE IF k \in old /\ refetch[k] = None THEN Unknown ELSE refetch[k]]
      BY DEF Tabs!Go
    <2> QED
      BY <1>1, <2>1
  <1>4. ASSUME NEW x \in Editors
        PROVE  /\ save'[x] \in Saves \cup {None}
               /\ save'[x] # None /\ save'[x].here =>
                    /\ save[x] # None /\ save[x].here /\ save'[x].hours = save[x].hours
                    /\ editor'[x] # None /\ Tabs!KeyAt(x, p) = Tabs!KeyAt(x, place)
                    /\ save'[x].owned = (save[x].owned /\ Tabs!OwnerAt(x, p))
    <2>1. CASE save[x] = None
      BY <1>2, <2>1
    <2>2. CASE save[x] # None
      <3> DEFINE refresh == IF owned(x) THEN Tabs!KeyAt(x, p) ELSE save[x].refresh
      <3>1. save[x] \in Saves /\ Tabs!KeyAt(x, p) \in Tabs!Keys
        BY <1>1, <2>2, KeyOf
      <3>2. owned(x) \in BOOLEAN /\ here(x) \in BOOLEAN /\ refresh \in Tabs!Keys
        BY <3>1 DEF Saves
      <3>3. save'[x] = [save[x] EXCEPT !.owned = owned(x), !.refresh = refresh, !.here = here(x)]
        BY <1>2, <2>2
      <3>4. editor'[x] = new[x]
        BY <1>2
      <3> HIDE DEF refresh, new
      <3>5. /\ save'[x] \in Saves
            /\ save'[x].owned = owned(x) /\ save'[x].here = here(x) /\ save'[x].hours = save[x].hours
        BY <3>1, <3>2, <3>3 DEF Saves
      <3> QED
        BY <2>2, <3>4, <3>5
    <2> QED
      BY <2>1, <2>2
  <1>5. ASSUME NEW x \in Editors
        PROVE  /\ editor'[x] \in Tabs!Editing \cup {None}
               /\ EditorFits(x)' /\ SaveFits(x)'
               /\ Tabs!Unsaved(x) /\ x \notin Tabs!Concerned(p) => editor'[x] = editor[x]
    <2>1. EditorFits(x) /\ SaveFits(x) /\ editor[x] \in Tabs!Editing \cup {None}
      BY <1>1 DEF TabsInv
    <2>2. editor'[x] = Tabs!Mounted(x, editor[x], p, answers)
      BY <1>2
    <2>3. /\ editor'[x] \in Tabs!Editing \cup {None}
          /\ editor'[x] # None =>
               Tabs!Mountable(x, p, answers) /\ editor'[x].key = Tabs!KeyAt(x, p)
          /\ Tabs!Mountable(x, p, answers) /\ editor[x] # None /\ editor[x].key = Tabs!KeyAt(x, p) =>
               editor'[x] = editor[x]
          /\ editor'[x] # None /\ editor'[x] # editor[x] =>
               /\ editor'[x].mark = "new"
               /\ x \notin Tabs!OfDate =>
                    /\ editor'[x].stored = answers[Tabs!KeyAt(x, p)].value
                    /\ editor'[x].draft = Tabs!Shown(editor'[x].stored)
      BY <1>1, <2>1, <2>2, MountedFacts
    <2>4. EditorFits(x)'
      BY <1>2, <2>1, <2>3 DEF EditorFits
    <2>5. SaveFits(x)'
      <3> SUFFICES ASSUME save'[x] # None, save'[x].here
                   PROVE  /\ save'[x].owned /\ editor'[x] # None
                          /\ editor'[x].mark = "new" => x \in Tabs!OfDate
                          /\ editor'[x].mark = "typed" => editor'[x].draft = Tabs!Shown(save'[x].hours)
        BY DEF SaveFits
      <3>1. /\ save[x] # None /\ save[x].here /\ save'[x].hours = save[x].hours
            /\ editor'[x] # None /\ Tabs!KeyAt(x, p) = Tabs!KeyAt(x, place)
            /\ save'[x].owned = (save[x].owned /\ Tabs!OwnerAt(x, p))
        BY <1>4
      <3>2. editor'[x] = editor[x]
        BY <2>1, <2>3, <3>1 DEF EditorFits, SaveFits
      <3>3. Tabs!OwnerAt(x, p)
        BY <2>3, <3>1 DEF Tabs!Mountable, Tabs!OwnerAt
      <3> QED
        BY <2>1, <3>1, <3>2, <3>3 DEF SaveFits
    <2>6. ASSUME Tabs!Unsaved(x), x \notin Tabs!Concerned(p)
          PROVE  editor'[x] = editor[x]
      <3>1. p.tab = place.tab /\ Tabs!KeyAt(x, p) = Tabs!KeyAt(x, place)
        BY <2>6 DEF Tabs!Concerned, Tabs!KeyAt
      <3>2. Tabs!KeyAt("organization hours", p) = Tabs!KeyAt("organization hours", place)
        BY DEF Tabs!KeyAt, Tabs!OfResource, Tabs!OfDate
      <3> QED
        BY <2>1, <2>3, <2>6, <3>1, <3>2 DEF EditorFits, Tabs!Unsaved, Tabs!DirtyAmong, Tabs!Mountable
    <2> QED
      BY <2>3, <2>4, <2>5, <2>6
  <1>6. TabsTyped'
    <2>1. editor' \in [Editors -> Tabs!Editing \cup {None}] /\ save' \in [Editors -> Saves \cup {None}]
      BY <1>2, <1>4, <1>5
    <2> QED
      BY <1>2, <1>3, <2>1 DEF TabsInv, TabsTyped
  <1> QED
    BY <1>5, <1>6

\* The user asks for another place, and answers the dialog.
LEMMA RequestKeeps ==
    ASSUME Tabs!ConstantsFit,
           TabsInv,
           \/ \E p \in Tabs!Places : Tabs!RequestChange(p)
           \/ Tabs!KeepEditing \/ Tabs!DiscardAndContinue
    PROVE  /\ TabsInv'
           /\ \A x \in Editors : Tabs!Unsaved(x) =>
                \/ editor'[x] = editor[x]
                \/ Tabs!DiscardAndContinue /\ x \in ask.drafts
  <1>1. ASSUME NEW p \in Tabs!Places, Tabs!Go(p), UNCHANGED <<stored, answers>>, ask' = None,
               \A x \in Editors : Tabs!Unsaved(x) /\ x \in Tabs!Concerned(p) =>
                   Tabs!DiscardAndContinue /\ x \in ask.drafts
        PROVE  /\ TabsInv'
               /\ \A x \in Editors : Tabs!Unsaved(x) =>
                    \/ editor'[x] = editor[x]
                    \/ Tabs!DiscardAndContinue /\ x \in ask.drafts
    BY <1>1, GoKeeps DEF TabsInv, AskedAbout
  <1>2. ASSUME NEW p \in Tabs!Places, Tabs!RequestChange(p)
        PROVE  /\ TabsInv'
               /\ \A x \in Editors : Tabs!Unsaved(x) =>
                    \/ editor'[x] = editor[x]
                    \/ Tabs!DiscardAndContinue /\ x \in ask.drafts
    <2>1. ask = None /\ UNCHANGED <<stored, answers, saves>>
      BY <1>2 DEF Tabs!RequestChange
    <2>2. CASE Tabs!DirtyAmong(Tabs!Concerned(p)) = {}
      <3>1. Tabs!Go(p) /\ ask' = None
        BY <1>2, <2>1, <2>2 DEF Tabs!RequestChange
      <3>2. \A x \in Editors : Tabs!Unsaved(x) => x \notin Tabs!Concerned(p)
        BY <2>2 DEF Tabs!DirtyAmong, Tabs!Unsaved
      <3> QED
        BY <1>1, <2>1, <3>1, <3>2
    <2>3. CASE Tabs!DirtyAmong(Tabs!Concerned(p)) # {}
      <3>1. /\ ask' = [to |-> p, drafts |-> Tabs!DirtyAmong(Tabs!Concerned(p))]
            /\ UNCHANGED <<place, editor, save, refetch>>
        BY <1>2, <2>3 DEF Tabs!RequestChange
      <3>2. AskedAbout'
        BY <3>1 DEF AskedAbout, Tabs!Unsaved, Tabs!DirtyAmong, Tabs!Concerned
      <3>3. TabsTyped' /\ \A x \in Editors : EditorFits(x)' /\ SaveFits(x)'
        BY <2>1, <3>1 DEF TabsInv, TabsTyped, EditorFits, SaveFits, Tabs!Mountable
      <3> QED
        BY <3>1, <3>2, <3>3 DEF TabsInv
    <2> QED
      BY <2>2, <2>3
  <1>3. CASE Tabs!KeepEditing
    <2>1. ask' = None /\ UNCHANGED <<stored, answers, refetch, place, editor, save>>
      BY <1>3 DEF Tabs!KeepEditing
    <2>2. TabsTyped' /\ AskedAbout' /\ \A x \in Editors : EditorFits(x)' /\ SaveFits(x)'
      BY <2>1 DEF TabsInv, TabsTyped, AskedAbout, EditorFits, SaveFits, Tabs!Mountable
    <2> QED
      BY <2>1, <2>2 DEF TabsInv
  <1>4. CASE Tabs!DiscardAndContinue
    <2>1. /\ ask # None /\ ask' = None /\ Tabs!Go(ask.to) /\ UNCHANGED <<stored, answers>>
      BY <1>4 DEF Tabs!DiscardAndContinue
    <2>2. ask.to \in Tabs!Places /\ \A x \in Editors : Tabs!Unsaved(x) /\ x \in Tabs!Concerned(ask.to) => x \in ask.drafts
      BY <2>1 DEF TabsInv, AskedAbout
    <2> DEFINE to == ask.to
    <2>3. to \in Tabs!Places /\ Tabs!Go(to) /\ \A x \in Editors : Tabs!Unsaved(x) /\ x \in Tabs!Concerned(to) => x \in ask.drafts
      BY <2>1, <2>2
    <2> HIDE DEF to
    <2> QED
      BY <1>1, <1>4, <2>1, <2>3
  <1> QED
    BY <1>2, <1>3, <1>4

\* The page is empty at first.
LEMMA TabsInitHolds == Tabs!Init => TabsInv
  <1> SUFFICES ASSUME Tabs!Init
               PROVE  TabsInv
    OBVIOUS
  <1>1. TabsTyped
    BY DEF Tabs!Init, TabsTyped, Answered, Tabs!Places
  <1>2. AskedAbout /\ \A e \in Editors : EditorFits(e) /\ SaveFits(e)
    BY DEF Tabs!Init, AskedAbout, EditorFits, SaveFits
  <1> QED
    BY <1>1, <1>2 DEF TabsInv

\* The invariant is inductive, and no step but an error loses an unsaved
\* draft unasked.
LEMMA TabsStepHolds ==
    ASSUME Tabs!ConstantsFit,
           TabsInv, Tabs!Next
    PROVE  TabsInv' /\ Tabs!DraftsKeptButForErrors
  <1>1. ASSUME editor' = editor
        PROVE  Tabs!DraftsKeptButForErrors
    BY <1>1 DEF Tabs!DraftsKeptButForErrors, Tabs!KeptOrAsked, Tabs!Unsaved, Tabs!DirtyAmong
  <1>2. ASSUME NEW e \in Editors, Tabs!Save(e) \/ Tabs!Store(e)
        PROVE  TabsInv' /\ Tabs!DraftsKeptButForErrors
    BY <1>1, <1>2, SaveKeeps, BehindTheEditorsKeeps DEF Tabs!Save, Tabs!Store
  <1>3. ASSUME NEW k \in Tabs!Keys, Tabs!Read(k) \/ Tabs!Refetch(k)
        PROVE  TabsInv' /\ Tabs!DraftsKeptButForErrors
    BY <1>1, <1>3, BehindTheEditorsKeeps DEF Tabs!Read, Tabs!Refetch
  <1>4. ASSUME NEW k \in Tabs!Keys, NEW h \in Tabs!Stored, Tabs!OthersSave(k, h)
        PROVE  TabsInv' /\ Tabs!DraftsKeptButForErrors
    BY <1>1, <1>4, BehindTheEditorsKeeps DEF Tabs!OthersSave
  <1>5. ASSUME NEW k \in Tabs!Keys, Tabs!Arrive(k)
        PROVE  TabsInv' /\ Tabs!DraftsKeptButForErrors
    BY <1>5, ArriveKeeps DEF Tabs!DraftsKeptButForErrors, Tabs!KeptOrAsked
  <1>6. ASSUME NEW e \in Editors, Tabs!Answer(e)
        PROVE  TabsInv' /\ Tabs!DraftsKeptButForErrors
    <2>1. editor \in [Editors -> Tabs!Editing \cup {None}] /\ save \in [Editors -> Saves \cup {None}]
          /\ None \notin Tabs!Editing /\ SaveFits(e)
      BY DEF TabsInv, TabsTyped, Tabs!ConstantsFit
    <2>2. editor' = editor \/ (save[e].here /\ editor[e] # None /\ save[e].hours \in Tabs!Stored
                                 /\ editor' = [editor EXCEPT ![e].stored = save[e].hours])
      BY <1>6, <2>1 DEF Tabs!Answer, SaveFits, Saves
    <2>3. \A x \in Editors : editor[x] # None => editor'[x] # None /\ editor'[x].draft = editor[x].draft
      BY <2>1, <2>2 DEF Tabs!Editing
    <2> QED
      BY <1>6, <2>3, AnswerKeeps DEF Tabs!DraftsKeptButForErrors, Tabs!KeptOrAsked, Tabs!Unsaved, Tabs!DirtyAmong
  <1>7. ASSUME NEW e \in Editors, NEW d \in Tabs!Contents, Tabs!Edit(e, d)
        PROVE  TabsInv' /\ Tabs!DraftsKeptButForErrors
    <2>1. \A x \in Editors : x # e => editor'[x] = editor[x]
      BY <1>7 DEF Tabs!Edit, TabsInv, TabsTyped
    <2>2. \A x \in Editors : Tabs!Unsaved(x) => editor[x] # None
      BY DEF Tabs!Unsaved, Tabs!DirtyAmong
    <2>3. \A x \in Editors : Tabs!Unsaved(x) => Tabs!KeptOrAsked(x)
      BY <1>7, <2>1, <2>2 DEF Tabs!KeptOrAsked
    <2> QED
      BY <1>7, <2>3, EditKeeps DEF Tabs!DraftsKeptButForErrors
  <1>8. ASSUME (\E p \in Tabs!Places : Tabs!RequestChange(p)) \/ Tabs!KeepEditing \/ Tabs!DiscardAndContinue
        PROVE  TabsInv' /\ Tabs!DraftsKeptButForErrors
    <2>1. /\ TabsInv'
          /\ \A x \in Editors : Tabs!Unsaved(x) =>
               \/ editor'[x] = editor[x]
               \/ Tabs!DiscardAndContinue /\ x \in ask.drafts
      BY <1>8, RequestKeeps
    <2>2. \A x \in Editors : Tabs!Unsaved(x) => editor[x] # None
      BY DEF Tabs!Unsaved, Tabs!DirtyAmong
    <2>3. \A x \in Editors : Tabs!Unsaved(x) => Tabs!KeptOrAsked(x)
      BY <2>1, <2>2 DEF Tabs!KeptOrAsked
    <2> QED
      BY <2>1, <2>3 DEF Tabs!DraftsKeptButForErrors
  <1>9. ASSUME NEW k \in Tabs!Keys, Tabs!FetchFails(k)
        PROVE  TabsInv' /\ Tabs!DraftsKeptButForErrors
    <2>1. /\ TabsInv'
          /\ \A x \in Editors : Tabs!Unsaved(x) =>
               \/ editor'[x] = editor[x]
               \/ Tabs!TabOf(x) = "hours" /\ Tabs!FetchFails(Tabs!KeyAt("organization hours", place))
      BY <1>9, FetchFailsKeeps
    <2> QED
      BY <2>1 DEF Tabs!DraftsKeptButForErrors, Tabs!KeptOrAsked, Tabs!Unsaved, Tabs!DirtyAmong
  <1> QED
    BY <1>2, <1>3, <1>4, <1>5, <1>6, <1>7, <1>8, <1>9 DEF Tabs!Next

\* A step that changes nothing keeps it, too.
LEMMA TabsRest == TabsInv /\ UNCHANGED Tabs!vars => TabsInv'
  BY DEF Tabs!vars, TabsInv, TabsTyped, AskedAbout, EditorFits, SaveFits, Tabs!Unsaved, Tabs!DirtyAmong, Tabs!Mountable, Tabs!Concerned

\* Every reachable state of the schedule pages satisfies the invariant.
THEOREM TabsInvariance ==
    ASSUME Tabs!ConstantsFit
    PROVE  Tabs!Spec => []TabsInv
  <1>1. TabsInv /\ [Tabs!Next]_(Tabs!vars) => TabsInv'
    BY TabsStepHolds, TabsRest
  <1> QED
    BY <1>1, TabsInitHolds, PTL DEF Tabs!Spec

\* Drafts!OnlyErrorsLoseDrafts: no unsaved draft leaves the screen unasked, but
\* those of the hours when a fetch of the organization's hours fails.
THEOREM OnlyErrorsDropDrafts ==
    ASSUME Tabs!ConstantsFit
    PROVE  Tabs!Spec => Tabs!OnlyErrorsLoseDrafts
  <1>1. TabsInv /\ [Tabs!Next]_(Tabs!vars) => [Tabs!DraftsKeptButForErrors]_(Tabs!vars)
    BY TabsStepHolds
  <1>2. Tabs!Spec => []TabsInv
    BY TabsInvariance
  <1> QED
    BY <1>1, <1>2, PTL DEF Tabs!Spec, Tabs!OnlyErrorsLoseDrafts

\* Drafts!TypeOK: the editors on the screen are those of the tab, the resource
\* and the date; and what nobody touched shows the answer, exceptions apart.
THEOREM EditorsStayConsistent ==
    ASSUME Tabs!ConstantsFit
    PROVE  Tabs!Spec => [](Tabs!TypeOK /\ (Editors \cap Tabs!OfDate = {} => Tabs!UntouchedAsStored))
  <1>1. TabsInv => Tabs!TypeOK /\ (Editors \cap Tabs!OfDate = {} => Tabs!UntouchedAsStored)
    <2> SUFFICES ASSUME TabsInv
                 PROVE  Tabs!TypeOK /\ (Editors \cap Tabs!OfDate = {} => Tabs!UntouchedAsStored)
      OBVIOUS
    <2>1. Tabs!TypeOK
      BY DEF TabsInv, TabsTyped, Answered, EditorFits, AskedAbout, Tabs!TypeOK, Tabs!Editing, Tabs!Mountable
    <2>2. ASSUME Editors \cap Tabs!OfDate = {}
          PROVE  Tabs!UntouchedAsStored
      BY <2>2 DEF TabsInv, EditorFits, Tabs!UntouchedAsStored
    <2> QED
      BY <2>1, <2>2
  <1>2. Tabs!Spec => []TabsInv
    BY TabsInvariance
  <1> QED
    BY <1>1, <1>2, PTL
=============================================================================
