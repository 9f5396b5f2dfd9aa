-------------------------------- MODULE Slug --------------------------------
(***************************************************************************)
(* The slugs made of an organization's name: the base, the candidates that *)
(* manual provisioning tries one after the other, and the suggestion of    *)
(* the approval dialog.  Characters are digits, one letter and one         *)
(* character that a slug cannot hold; the dash is what that becomes.       *)
(***************************************************************************)
EXTENDS Integers, Sequences

CONSTANTS
    MaxName,        \* length of the names that are checked
    MaxBase,        \* 72 in the code, at least 4
    MaxSuggestion,  \* 80 in the code
    Tries           \* 100 in the code

VARIABLE name

Letter == 10
Dash == 11
Chars == {2, Letter, Dash}
Names == UNION {[1 .. n -> Chars] : n \in 0 .. MaxName}

\* What the constants stand for.
SlugFits ==
    /\ MaxName \in Nat /\ MaxSuggestion \in Nat
    /\ MaxBase \in Nat /\ MaxBase >= 4 /\ Tries \in 1 .. 100

Init == name \in Names
Rename(n) == name' = n
Next == \E n \in [1 .. MaxName -> Chars] : Rename(n)
Spec == Init /\ [][Next]_name

-----------------------------------------------------------------------------
\* Runs of other characters become one dash; dashes at the ends are cut off.
EndsWith(s, c) == s # <<>> /\ s[Len(s)] = c
Collapsed(s) ==
    LET first[n \in 0 .. Len(s)] ==
            IF n = 0 THEN <<>>
            ELSE IF s[n] = Dash /\ EndsWith(first[n - 1], Dash) THEN first[n - 1]
            ELSE Append(first[n - 1], s[n])
    IN  first
Collapse(s) == Collapsed(s)[Len(s)]
CutLeft(s) == IF s # <<>> /\ Head(s) = Dash THEN Tail(s) ELSE s
CutRight(s) == IF EndsWith(s, Dash) THEN SubSeq(s, 1, Len(s) - 1) ELSE s
Slice(s, n) == SubSeq(s, 1, IF Len(s) < n THEN Len(s) ELSE n)

Normalized_CutFirst(s, n) == Slice(CutRight(CutLeft(Collapse(s))), n)
Normalized(s, n) == CutRight(Slice(CutRight(CutLeft(Collapse(s))), n))

\* "organization" when nothing is left.
OrganizationSlugBase(s) ==
    IF Normalized(s, MaxBase) = <<>> THEN Slice(<<10, 10, 10, 10>>, MaxBase) ELSE Normalized(s, MaxBase)

Digits(k) == IF k < 10 THEN <<k>> ELSE IF k < 100 THEN <<k \div 10, k % 10>> ELSE <<1, 0, 0>>

Candidate_NoDash(s, k) ==
    IF k = 1 THEN OrganizationSlugBase(s)
    ELSE Slice(OrganizationSlugBase(s), MaxBase - Len(Digits(k))) \o Digits(k)
Candidate(s, k) ==
    IF k = 1 THEN OrganizationSlugBase(s)
    ELSE Slice(OrganizationSlugBase(s), MaxBase - Len(Digits(k))) \o <<Dash>> \o Digits(k)

SlugSuggestion(s) == Normalized(s, MaxSuggestion)

-----------------------------------------------------------------------------
\* The check constraint organization_slug_format.
WellFormed(s) ==
    /\ s # <<>> /\ Head(s) # Dash /\ ~EndsWith(s, Dash)
    /\ \A i \in 1 .. Len(s) - 1 : ~(s[i] = Dash /\ s[i + 1] = Dash)

\* Whatever the name, the slug tried first is accepted by the database, and
\* what the approval dialog proposes is accepted by its own pattern unless the
\* name leaves nothing.
FirstSlugAccepted ==
    /\ WellFormed(OrganizationSlugBase(name))
    /\ SlugSuggestion(name) # <<>> => WellFormed(SlugSuggestion(name))

\* No slug is tried twice: the search gives each of its tries to another slug.
CandidatesDiffer ==
    \A k, m \in 1 .. Tries : k # m => Candidate(name, k) # Candidate(name, m)

\* Every slug the search tries is one the database accepts, as the check
\* constraint demands (0003_create_organization_foundation.ts:35); a slug it does
\* not accept makes manual provisioning fail instead of trying the next.
CandidatesAccepted ==
    \A k \in 1 .. Tries : WellFormed(Candidate(name, k))

\* The slug tried first is accepted, and no slug is tried twice.
SlugsFit == FirstSlugAccepted /\ CandidatesDiffer
=============================================================================
