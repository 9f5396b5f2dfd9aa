-------------------------- MODULE BookingTxnProofs --------------------------
(***************************************************************************)
(* Theorems about BookingTxn for any number of requests, resources and     *)
(* slots, any limits of the retry loops and any number of lost connections *)
(* and changes of the organization.                                        *)
(*                                                                         *)
(* The exclusion check compares the row version of an attempt with the     *)
(* committed rows and with the versions other attempts wrote, and it runs  *)
(* once, some steps before the commit.  The invariant says why that is     *)
(* enough: what was checked stays apart from every row that is committed   *)
(* meanwhile (ChecksHold), because attempts that rewrite a row exclude     *)
(* each other by the organization's row (Serialized) and a creation is     *)
(* compared with every version written before it.                          *)
(***************************************************************************)
EXTENDS BookingTxn, TLAPS

USE SlotsAssumption, KindsAssumption, AttemptsAssumption, BoundsAssumption

-----------------------------------------------------------------------------
(* The inductive invariant.                                                *)

Snapshot == UNION {[S -> Row] : S \in SUBSET Requests}
Attempt == [snapshot : Snapshot, open : BOOLEAN, stale : SUBSET Requests, orgStale : BOOLEAN]

\* A creation names its booking after itself; other requests name a row there is.
Named ==
    \A c \in DOMAIN request :
        IF Creates(c) THEN request[c].booking = c ELSE request[c].booking \in DOMAIN table

\* Holders of the organization's row exclude each other.
Serialized ==
    \A c, d \in DOMAIN request :
        c # d /\ HoldsOrganization(c) => ~HoldsOrganization(d) /\ ~SharesOrganization(d)

\* What an attempt read and nobody changed since is what is committed.
SnapshotHolds(c) ==
    /\ DOMAIN tx[c].snapshot \subseteq DOMAIN table
    /\ \A b \in DOMAIN table \ tx[c].stale :
          b \in DOMAIN tx[c].snapshot /\ tx[c].snapshot[b] = table[b]
    /\ ~Creates(c) => request[c].booking \in DOMAIN tx[c].snapshot
    /\ ~tx[c].orgStale => open = tx[c].open
SnapshotsHold == \A c \in DOMAIN request : Active(c) => SnapshotHolds(c)

\* What an attempt decided stays true as long as it holds the organization's
\* row or a share of it.
DecisionHolds(c) ==
    /\ HoldsOrganization(c) \/ SharesOrganization(c) => open
    /\ Active(c) /\ request[c].kind = "public" => tx[c].open /\ pc[c] # "locking"
    /\ pc[c] = "referencing" => request[c].kind = "public"
    /\ HoldsOrganization(c) /\ ~Creates(c) =>
          table[request[c].booking].status = RequiredStatus(request[c].kind)
DecisionsHold == \A c \in DOMAIN request : DecisionHolds(c)

\* Confirmed rows and checked row versions keep apart.
Checked(c) == pc[c] \in {"referencing", "committing"}
Enters(c) == Checked(c) /\ Confirmed(NewRow(c))
Apart(s, t) == ~Overlapping(s, t)
RowsApart ==
    \A a, b \in DOMAIN table :
        a # b /\ Confirmed(table[a]) /\ Confirmed(table[b]) => Apart(table[a].slot, table[b].slot)
CheckHolds(c) ==
    /\ \A b \in DOMAIN table \ {request[c].booking} :
          Confirmed(table[b]) => Apart(table[b].slot, NewRow(c).slot)
    /\ \A d \in Others(c) : Enters(d) => Apart(NewRow(d).slot, NewRow(c).slot)
ChecksHold == RowsApart /\ \A c \in DOMAIN request : Enters(c) => CheckHolds(c)

\* A request takes effect once, and then never runs again.
Ended(c) ==
    /\ failure[c] # "none" <=> pc[c] = "failed"
    /\ answer[c] # "none" <=> pc[c] = "answered"
    /\ answer[c] = "ok" => applied[c] = 1
    /\ applied[c] # 0 =>
          /\ applied[c] = 1
          /\ answer[c] \in {"ok", "error"} \/ failure[c] = "connection_lost"
AppliedOnce ==
    /\ \A b \in DOMAIN table : applied[b] = 1
    /\ \A c \in Requests : Ended(c)

\* Behind a request that was refused for a conflict there is one that took
\* effect, still runs, or was stopped by something else than a conflict.
Lost(c) == failure[c] \in {"40P01", "23P01"} \/ answer[c] = "booking_conflict"
Ahead(c) ==
    \/ pc[c] = "starting" \/ Active(c)
    \/ pc[c] = "failed" /\ failure[c] \notin {"40P01", "23P01"}
    \/ answer[c] \in {"ok", "error", "closed"}
    \/ applied[c] = 1
SomeoneAhead == (\E c \in Requests : Lost(c)) => \E c \in Requests : Ahead(c)

Typed == TypeOK /\ tx \in [Requests -> Attempt]

IInv ==
    /\ Typed /\ Named /\ Serialized /\ SnapshotsHold /\ DecisionsHold
    /\ ChecksHold /\ AppliedOnce /\ SomeoneAhead

-----------------------------------------------------------------------------
(* Rows.                                                                   *)

\* A snapshot is a table.
LEMMA SnapshotIs ==
    \A s : s \in Snapshot <=> DOMAIN s \subseteq Requests /\ s \in [DOMAIN s -> Row]
BY DEF Snapshot

\* Being apart is symmetric.
LEMMA ApartSymmetric ==
    \A s, t \in Slots : Apart(s, t) => Apart(t, s)
BY DEF Apart, Overlapping

\* The row version a request writes is a row.
LEMMA NewRowTyped ==
    ASSUME Typed, Named, NEW c \in DOMAIN request
    PROVE  /\ NewRow(c) \in Row
           /\ request[c] \in Request
           /\ request[c].booking \in Requests
<1>1. request[c] \in Request
  BY DEF Typed, TypeOK
<1>2. request[c].booking \in Requests /\ request[c].slot \in Slots /\ request[c].kind \in RequestKind
  BY <1>1 DEF Request
<1>3. CASE Creates(c)
  BY <1>1, <1>2, <1>3 DEF NewRow, Row, Status
<1>4. CASE ~Creates(c)
  <2>1. table[request[c].booking] \in Row
    BY <1>4 DEF Named, Typed, TypeOK
  <2>2. request[c].kind \in {"move", "cancel", "no_show", "revert"}
    BY <1>2, <1>4 DEF Creates, RequestKind
  <2>3. Rewritten(c, table[request[c].booking]) \in Row
    BY <1>2, <2>1, <2>2 DEF Rewritten, Row, Status
  <2> QED
    BY <1>1, <1>2, <1>4, <2>3 DEF NewRow
<1> QED
  BY <1>1, <1>2, <1>3, <1>4

\* A row version is decided by the request and the row it replaces.
LEMMA NewRowKept ==
    ASSUME NEW c, request'[c] = request[c],
           Creates(c) \/ table'[request[c].booking] = table[request[c].booking]
    PROVE  NewRow(c)' = NewRow(c)
<1>1. Creates(c)' <=> Creates(c)
  BY Zenon DEF Creates
<1>2. CASE Creates(c)
  BY <1>1, <1>2, Zenon DEF NewRow
<1>3. CASE ~Creates(c)
  <2>1. NewRow(c) = Rewritten(c, table[request[c].booking])
    BY <1>3 DEF NewRow
  <2>2. NewRow(c)' = Rewritten(c, table[request[c].booking])'
    BY <1>1, <1>3 DEF NewRow
  <2>3. Rewritten(c, table[request[c].booking])' = Rewritten(c, table[request[c].booking])
    BY <1>3, Zenon DEF Rewritten
  <2> QED
    BY <2>1, <2>2, <2>3
<1> QED
  BY <1>2, <1>3

\* A request that is under way was submitted.
LEMMA Submitted ==
    ASSUME Typed
    PROVE  /\ DOMAIN request \subseteq Requests
           /\ \A c \in Requests : pc[c] # "idle" <=> c \in DOMAIN request
BY DEF Typed, TypeOK

-----------------------------------------------------------------------------
(* What the steps of one request have in common that commit nothing.       *)

\* Only c moves on, and the tables stay.
Alone(c) ==
    /\ c \in DOMAIN request
    /\ UNCHANGED <<table, open, orgChanges, request, applied>>
    /\ lost' \in 0 .. MaxLost
    /\ pc' \in [Requests -> Location] /\ tries' \in [Requests -> Tries]
    /\ tx' \in [Requests -> Attempt]
    /\ failure' \in [Requests -> Failure] /\ answer' \in [Requests -> Answer]
    /\ pc'[c] # "idle"
    /\ \A d \in Requests : d # c =>
          /\ pc'[d] = pc[d] /\ tx'[d] = tx[d]
          /\ failure'[d] = failure[d] /\ answer'[d] = answer[d]

\* An attempt that goes on keeps what it read, a new one reads what there is,
\* and a lock is taken when nobody is in the way and the decision is right.
Reads(c) ==
    /\ Active(c)' =>
          \/ Active(c) /\ tx'[c] = tx[c]
          \/ tx'[c] = [snapshot |-> table, open |-> open, stale |-> {}, orgStale |-> FALSE]
    /\ Active(c)' /\ request[c].kind = "public" => tx'[c].open /\ pc'[c] # "locking"
Locks(c) ==
    /\ HoldsOrganization(c)' =>
          \/ HoldsOrganization(c)
          \/ /\ OrganizationUsers(c) = {} /\ open
             /\ ~Creates(c) => table[request[c].booking].status = RequiredStatus(request[c].kind)
    /\ SharesOrganization(c)' => OrganizationHolders(c) = {} /\ open
    /\ pc'[c] = "referencing" => request[c].kind = "public"

\* A version is checked against the rows and the versions checked before.
Checks(c) == Enters(c)' => Enters(c) \/ CheckHolds(c)

\* A step that ends an attempt with a conflict leaves somebody ahead.
Ends(c) ==
    /\ failure'[c] # "none" <=> pc'[c] = "failed"
    /\ answer'[c] # "none" <=> pc'[c] = "answered"
    /\ answer'[c] # "ok"
    /\ applied[c] # 0 => answer'[c] = "error"
    /\ (Ahead(c) /\ ~Ahead(c)') \/ (Lost(c)' /\ ~Lost(c)) =>
          \E d \in Requests : d # c /\ Ahead(d)

Advance(c) == Alone(c) /\ Reads(c) /\ Locks(c) /\ Checks(c) /\ Ends(c)

-----------------------------------------------------------------------------
(* Such steps keep the invariant.                                          *)

\* Types and names.
LEMMA AdvanceTyped ==
    ASSUME IInv, NEW c \in Requests, Advance(c)
    PROVE  Typed' /\ Named'
<1>1. TypeOK'
  <2>1. \A d \in Requests : pc'[d] # "idle" <=> d \in DOMAIN request'
    BY DEF IInv, Typed, TypeOK, Advance, Alone
  <2>2. \A d \in Requests :
          /\ DOMAIN tx'[d].snapshot \subseteq Requests
          /\ tx'[d].snapshot \in [DOMAIN tx'[d].snapshot -> Row]
          /\ tx'[d].open \in BOOLEAN
          /\ tx'[d].stale \subseteq Requests
          /\ tx'[d].orgStale \in BOOLEAN
    BY SnapshotIs DEF Advance, Alone, Attempt
  <2> QED
    BY <2>1, <2>2 DEF IInv, Typed, TypeOK, Advance, Alone
<1>2. Named'
  BY DEF IInv, Named, Creates, Advance, Alone
<1> QED
  BY <1>1, <1>2 DEF Typed, Advance, Alone

\* The holders of the organization's row still exclude each other.
LEMMA AdvanceSerialized ==
    ASSUME IInv, NEW c \in Requests, Advance(c)
    PROVE  Serialized'
<1> SUFFICES ASSUME NEW d \in DOMAIN request, NEW e \in DOMAIN request, d # e,
                    HoldsOrganization(d)'
             PROVE  ~HoldsOrganization(e)' /\ ~SharesOrganization(e)'
  BY DEF Serialized, Advance, Alone
<1>1. \A x \in DOMAIN request : x # c =>
        /\ HoldsOrganization(x)' <=> HoldsOrganization(x)
        /\ SharesOrganization(x)' <=> SharesOrganization(x)
  BY Submitted DEF IInv, HoldsOrganization, SharesOrganization, Written, Advance, Alone
<1>2. CASE d # c /\ e # c
  BY <1>1, <1>2 DEF IInv, Serialized
<1>3. CASE d = c
  <2>1. HoldsOrganization(c) \/ OrganizationUsers(c) = {}
    BY <1>3 DEF Advance, Locks
  <2>2. e # c /\ e \in Others(c)
    BY <1>3 DEF Others
  <2>3. ~HoldsOrganization(e) /\ ~SharesOrganization(e)
    <3>1. CASE HoldsOrganization(c)
      BY <1>3, <2>2, <3>1 DEF IInv, Serialized
    <3>2. CASE OrganizationUsers(c) = {}
      BY <2>2, <3>2 DEF OrganizationUsers, OrganizationHolders
    <3> QED
      BY <2>1, <3>1, <3>2
  <2> QED
    BY <1>1, <2>2, <2>3
<1>4. CASE e = c
  <2>1. HoldsOrganization(d) /\ d \in Others(c)
    BY <1>1, <1>4 DEF Others
  <2>2. d \in OrganizationHolders(c) /\ d \in OrganizationUsers(c)
    BY <2>1 DEF OrganizationHolders, OrganizationUsers
  <2>3. ~HoldsOrganization(c)
    BY <1>4, <2>1 DEF IInv, Serialized
  <2> QED
    BY <1>4, <2>2, <2>3 DEF Advance, Locks
<1> QED
  BY <1>2, <1>3, <1>4

\* Snapshots and decisions still hold.
LEMMA AdvanceHolds ==
    ASSUME IInv, NEW c \in Requests, Advance(c)
    PROVE  SnapshotsHold' /\ DecisionsHold'
<1>1. ASSUME NEW d \in DOMAIN request, Active(d)' PROVE SnapshotHolds(d)'
  <2>1. CASE Active(d) /\ tx'[d] = tx[d]
    <3>1. SnapshotHolds(d)
      BY <2>1 DEF IInv, SnapshotsHold
    <3> QED
      BY <2>1, <3>1 DEF SnapshotHolds, Creates, Advance, Alone
  <2>2. CASE d = c /\ tx'[c] = [snapshot |-> table, open |-> open, stale |-> {}, orgStale |-> FALSE]
    <3>1. ~Creates(c) => request[c].booking \in DOMAIN table
      BY <2>2 DEF IInv, Named
    <3> QED
      BY <2>2, <3>1 DEF SnapshotHolds, Creates, Advance, Alone
  <2>3. d # c => Active(d) /\ tx'[d] = tx[d]
    BY <1>1, Submitted DEF IInv, Active, Advance, Alone
  <2> QED
    BY <1>1, <2>1, <2>2, <2>3 DEF Advance, Reads
<1>2. ASSUME NEW d \in DOMAIN request PROVE DecisionHolds(d)'
  <2>1. DecisionHolds(d)
    BY DEF IInv, DecisionsHold
  <2>2. CASE d # c
    <3>1. pc'[d] = pc[d] /\ tx'[d] = tx[d]
      BY <2>2, Submitted DEF IInv, Advance, Alone
    <3> QED
      BY <2>1, <3>1
      DEF DecisionHolds, HoldsOrganization, SharesOrganization, Written, Active, Creates,
          Advance, Alone
  <2>3. CASE d = c
    <3>1. HoldsOrganization(c)' =>
            /\ open
            /\ ~Creates(c) => table[request[c].booking].status = RequiredStatus(request[c].kind)
      BY <2>1, <2>3 DEF DecisionHolds, Advance, Locks
    <3> QED
      BY <2>3, <3>1 DEF DecisionHolds, Creates, Advance, Alone, Reads, Locks
  <2> QED
    BY <2>2, <2>3
<1> QED
  BY <1>1, <1>2 DEF SnapshotsHold, DecisionsHold, Advance, Alone

\* Rows and checked versions still keep apart.
LEMMA AdvanceChecked ==
    ASSUME IInv, NEW c \in Requests, Advance(c)
    PROVE  ChecksHold'
<1>1. RowsApart'
  BY DEF IInv, ChecksHold, RowsApart, Advance, Alone
<1>2. \A d \in DOMAIN request : NewRow(d)' = NewRow(d)
  BY NewRowKept DEF Advance, Alone
<1>3. \A d \in DOMAIN request : d # c => (Enters(d)' <=> Enters(d))
  BY <1>2, Submitted DEF IInv, Enters, Checked, Advance, Alone
<1>4. Enters(c)' => CheckHolds(c)
  BY DEF Advance, Alone, Checks, IInv, ChecksHold
<1>5. ASSUME NEW d \in DOMAIN request, Enters(d)' PROVE CheckHolds(d)'
  <2>1. CheckHolds(d)
    BY <1>3, <1>4, <1>5 DEF IInv, ChecksHold
  <2>2. ASSUME NEW b \in DOMAIN table \ {request[d].booking}, Confirmed(table[b])
        PROVE  Apart(table[b].slot, NewRow(d)'.slot)
    BY <1>2, <2>1, <2>2 DEF CheckHolds
  <2>3. ASSUME NEW e \in Others(d), Enters(e)'
        PROVE  Apart(NewRow(e)'.slot, NewRow(d)'.slot)
    <3>1. e \in DOMAIN request /\ e # d
      BY DEF Others
    <3>2. CASE Enters(e)
      BY <1>2, <2>1, <3>1, <3>2 DEF CheckHolds
    <3>3. CASE ~Enters(e)
      <4>1. e = c /\ Enters(d) /\ d \in Others(c)
        BY <1>3, <1>5, <2>3, <3>1, <3>3 DEF Others
      <4>2. Apart(NewRow(d).slot, NewRow(c).slot)
        BY <1>4, <2>3, <4>1 DEF CheckHolds
      <4>3. NewRow(d).slot \in Slots /\ NewRow(c).slot \in Slots
        BY <4>1, <3>1, NewRowTyped DEF IInv, Row
      <4> QED
        BY <1>2, <3>1, <4>1, <4>2, <4>3, ApartSymmetric
    <3> QED
      BY <3>2, <3>3
  <2>4. Others(d)' = Others(d) /\ table' = table /\ request' = request
    BY DEF Others, Advance, Alone
  <2> QED
    BY <2>2, <2>3, <2>4 DEF CheckHolds
<1> QED
  BY <1>1, <1>5 DEF ChecksHold, Advance, Alone

\* Answers still match what took effect, and nobody is refused for nothing.
LEMMA AdvanceEnds ==
    ASSUME IInv, NEW c \in Requests, Advance(c)
    PROVE  AppliedOnce' /\ SomeoneAhead'
<1>1. AppliedOnce'
  <2>1. Ended(c)'
    <3>1. Ended(c)
      BY DEF IInv, AppliedOnce
    <3> QED
      BY <3>1 DEF Ended, Advance, Alone, Ends
  <2>2. \A d \in Requests : d # c => Ended(d)'
    BY DEF IInv, AppliedOnce, Ended, Advance, Alone
  <2> QED
    BY <2>1, <2>2 DEF IInv, AppliedOnce, Advance, Alone
<1>2. \A d \in Requests : d # c => (Ahead(d)' <=> Ahead(d)) /\ (Lost(d)' <=> Lost(d))
  BY DEF Ahead, Lost, Active, Advance, Alone
<1>3. SomeoneAhead'
  <2>1. SUFFICES ASSUME NEW d \in Requests, Lost(d)'
                 PROVE  \E e \in Requests : Ahead(e)'
    BY DEF SomeoneAhead
  <2>2. CASE (Ahead(c) /\ ~Ahead(c)') \/ (Lost(c)' /\ ~Lost(c))
    <3>1. PICK e \in Requests : e # c /\ Ahead(e)
      BY <2>2, Zenon DEF Advance, Ends
    <3> QED
      BY <1>2, <3>1
  <2>3. CASE (Ahead(c) => Ahead(c)') /\ (Lost(c)' => Lost(c))
    <3>1. Lost(d)
      BY <1>2, <2>1, <2>3
    <3>2. PICK e \in Requests : Ahead(e)
      BY <3>1 DEF IInv, SomeoneAhead
    <3> QED
      BY <1>2, <2>3, <3>2
  <2> QED
    BY <2>2, <2>3
<1> QED
  BY <1>1, <1>3

\* A request that moves on to its next step, leaving the rows alone, keeps the
\* invariant: this sums up the parts above.
LEMMA AdvanceKeepsIInv ==
    ASSUME IInv, NEW c \in Requests, Advance(c)
    PROVE  IInv'
BY AdvanceTyped, AdvanceSerialized, AdvanceHolds, AdvanceChecked, AdvanceEnds DEF IInv

-----------------------------------------------------------------------------
(* The steps of one request, one by one.                                   *)

\* A request that runs was submitted and had no effect yet.
LEMMA RunningFacts ==
    ASSUME IInv, NEW c \in Requests, pc[c] = "starting" \/ Active(c)
    PROVE  /\ c \in DOMAIN request
           /\ failure[c] = "none" /\ answer[c] = "none" /\ applied[c] = 0
           /\ ~Lost(c)
<1>1. pc[c] \notin {"idle", "failed", "answered"}
  BY DEF Active, InTransaction
<1>2. c \in DOMAIN request
  BY <1>1, Submitted DEF IInv
<1>3. failure[c] = "none" /\ answer[c] = "none"
  BY <1>1 DEF IInv, AppliedOnce, Ended
<1>4. applied[c] = 0
  BY <1>3 DEF IInv, AppliedOnce, Ended
<1> QED
  BY <1>2, <1>3, <1>4 DEF Lost

\* Where there is a row, a request took effect.
LEMMA RowIsAhead ==
    ASSUME IInv, NEW c \in Requests, applied[c] = 0, DOMAIN table # {}
    PROVE  \E d \in Requests : d # c /\ Ahead(d)
<1>1. PICK b \in DOMAIN table : TRUE
  OBVIOUS
<1>2. b \in Requests /\ applied[b] = 1
  BY <1>1 DEF IInv, Typed, TypeOK, AppliedOnce
<1> QED
  BY <1>2 DEF Ahead

\* The empty attempt a request begins with is an attempt.
LEMMA NoAttemptTyped == NoAttempt \in Attempt
<1>1. NoTable \in Snapshot
  BY SnapshotIs DEF NoTable
<1> QED
  BY <1>1 DEF NoAttempt, Attempt

\* An attempt that is rolled back.
LEMMA RaiseAdvances ==
    ASSUME IInv, NEW c \in Requests, Active(c), NEW error \in Failure \ {"none"},
           Raise(c, error), tx' = [tx EXCEPT ![c] = NoAttempt],
           UNCHANGED <<table, open, orgChanges, request, tries, applied>>,
           lost' \in 0 .. MaxLost,
           error \in {"40P01", "23P01"} => \E d \in Requests : d # c /\ Ahead(d)
    PROVE  Advance(c)
<1>1. /\ c \in DOMAIN request
      /\ failure[c] = "none" /\ answer[c] = "none" /\ applied[c] = 0 /\ ~Lost(c)
  BY RunningFacts
<1>2. pc'[c] = "failed" /\ failure'[c] = error /\ answer'[c] = "none"
  BY <1>1 DEF Raise, IInv, Typed, TypeOK
<1>3. Alone(c)
  <2>1. pc' \in [Requests -> Location] /\ failure' \in [Requests -> Failure]
    BY DEF Raise, IInv, Typed, TypeOK, Location, Failure
  <2>2. tx' \in [Requests -> Attempt]
    BY NoAttemptTyped DEF IInv, Typed
  <2>3. \A d \in Requests : d # c =>
          /\ pc'[d] = pc[d] /\ tx'[d] = tx[d]
          /\ failure'[d] = failure[d] /\ answer'[d] = answer[d]
    BY DEF Raise, IInv, Typed, TypeOK
  <2>4. answer' \in [Requests -> Answer] /\ tries' \in [Requests -> Tries]
    BY DEF Raise, IInv, Typed, TypeOK
  <2> QED
    BY <1>1, <1>2, <2>1, <2>2, <2>3, <2>4 DEF Alone
<1>4. Reads(c) /\ Locks(c) /\ Checks(c)
  BY <1>2 DEF Reads, Locks, Checks, Enters, Checked, Active, InTransaction,
       HoldsOrganization, SharesOrganization, Written
<1>5. Ends(c)
  <2>1. error \notin {"40P01", "23P01"} => Ahead(c)' /\ ~Lost(c)'
    BY <1>2 DEF Ahead, Lost
  <2> QED
    BY <1>1, <1>2, <2>1 DEF Ends
<1> QED
  BY <1>3, <1>4, <1>5 DEF Advance

\* A request that is refused.
LEMMA ReplyAdvances ==
    ASSUME IInv, NEW c \in Requests, pc[c] = "starting" \/ Active(c),
           NEW a \in {"closed", "unavailable", "invalid_status"},
           Reply(c, a), tx' = [tx EXCEPT ![c] = NoAttempt],
           UNCHANGED <<table, open, orgChanges, request, tries, applied, lost>>,
           a # "closed" => DOMAIN table # {}
    PROVE  Advance(c)
<1>1. /\ c \in DOMAIN request
      /\ failure[c] = "none" /\ answer[c] = "none" /\ applied[c] = 0 /\ ~Lost(c)
  BY RunningFacts
<1>2. pc'[c] = "answered" /\ failure'[c] = "none" /\ answer'[c] = a
  BY <1>1 DEF Reply, IInv, Typed, TypeOK
<1>3. Alone(c)
  <2>1. pc' \in [Requests -> Location] /\ answer' \in [Requests -> Answer]
    BY DEF Reply, IInv, Typed, TypeOK, Location, Answer
  <2>2. tx' \in [Requests -> Attempt]
    BY NoAttemptTyped DEF IInv, Typed
  <2>3. \A d \in Requests : d # c =>
          /\ pc'[d] = pc[d] /\ tx'[d] = tx[d]
          /\ failure'[d] = failure[d] /\ answer'[d] = answer[d]
    BY DEF Reply, IInv, Typed, TypeOK
  <2>4. failure' \in [Requests -> Failure] /\ tries' \in [Requests -> Tries]
        /\ lost' \in 0 .. MaxLost
    BY DEF Reply, IInv, Typed, TypeOK
  <2> QED
    BY <1>1, <1>2, <2>1, <2>2, <2>3, <2>4 DEF Alone
<1>4. Reads(c) /\ Locks(c) /\ Checks(c)
  BY <1>2 DEF Reads, Locks, Checks, Enters, Checked, Active, InTransaction,
       HoldsOrganization, SharesOrganization, Written
<1>5. Ends(c)
  <2>1. ~Lost(c)'
    BY <1>2 DEF Lost
  <2>2. a = "closed" => Ahead(c)'
    BY <1>2 DEF Ahead
  <2>3. a # "closed" => \E d \in Requests : d # c /\ Ahead(d)
    BY <1>1, RowIsAhead
  <2> QED
    BY <1>1, <1>2, <2>1, <2>2, <2>3 DEF Ends
<1> QED
  BY <1>3, <1>4, <1>5 DEF Advance

\* A request that goes on.
LEMMA GotoAdvances ==
    ASSUME IInv, NEW c \in Requests, pc[c] = "starting" \/ Active(c),
           NEW location \in InTransaction, Goto(c, location),
           UNCHANGED <<table, open, orgChanges, request, tries, applied, lost>>,
           tx' \in [Requests -> Attempt], \A d \in Requests : d # c => tx'[d] = tx[d],
           Reads(c), Locks(c), Checks(c)
    PROVE  Advance(c)
<1>1. /\ c \in DOMAIN request
      /\ failure[c] = "none" /\ answer[c] = "none" /\ applied[c] = 0 /\ ~Lost(c)
  BY RunningFacts
<1>2. pc'[c] = location /\ failure'[c] = "none" /\ answer'[c] = "none"
  BY <1>1 DEF Goto, IInv, Typed, TypeOK
<1>3. Alone(c)
  <2>1. pc' \in [Requests -> Location]
    BY DEF Goto, IInv, Typed, TypeOK, Location, InTransaction
  <2>2. \A d \in Requests : d # c =>
          pc'[d] = pc[d] /\ failure'[d] = failure[d] /\ answer'[d] = answer[d]
    BY DEF Goto, IInv, Typed, TypeOK
  <2>3. failure' \in [Requests -> Failure] /\ tries' \in [Requests -> Tries]
        /\ answer' \in [Requests -> Answer] /\ lost' \in 0 .. MaxLost
    BY DEF Goto, IInv, Typed, TypeOK
  <2> QED
    BY <1>1, <1>2, <2>1, <2>2, <2>3 DEF Alone, InTransaction
<1>4. Ends(c)
  <2>1. Ahead(c)' /\ ~Lost(c)'
    BY <1>2 DEF Ahead, Lost, Active
  <2> QED
    BY <1>1, <1>2, <2>1 DEF Ends, InTransaction
<1> QED
  BY <1>3, <1>4 DEF Advance

\* Without a change of its snapshot, an attempt keeps the reads it had.
LEMMA ReadsKept ==
    ASSUME IInv, NEW c \in Requests, Active(c), tx' = tx,
           NEW location \in InTransaction, location # "locking", Goto(c, location)
    PROVE  Reads(c) /\ tx' \in [Requests -> Attempt] /\ pc'[c] = location
<1>1. pc'[c] = location
  BY DEF Goto, IInv, Typed, TypeOK
<1>2. c \in DOMAIN request
  BY RunningFacts
<1>3. request[c].kind = "public" => tx[c].open
  BY <1>2 DEF IInv, DecisionsHold, DecisionHolds
<1> QED
  BY <1>1, <1>3 DEF Reads, IInv, Typed

\* A snapshot is taken, and a public request decided on it.
LEMMA BeginAdvances ==
    ASSUME IInv, NEW c \in Requests, Begin(c)
    PROVE  Advance(c)
<1> DEFINE taken == [snapshot |-> table, open |-> open, stale |-> {}, orgStale |-> FALSE]
<1>1. pc[c] = "starting" /\ c \in DOMAIN request
  BY RunningFacts DEF Begin
<1>2. ASSUME Goto(c, "locking") \/ Goto(c, "writing"),
             request[c].kind = "public" => open /\ ~Goto(c, "locking"),
             request[c].kind # "public" => ~Goto(c, "writing")
      PROVE  Advance(c)
  <2>1. PICK location \in {"locking", "writing"} : Goto(c, location)
    BY <1>2
  <2>2. pc'[c] = location
    BY <2>1 DEF Goto, IInv, Typed, TypeOK
  <2>3. tx' = [tx EXCEPT ![c] = taken]
    BY <2>2 DEF Begin
  <2>4. taken \in Attempt
    <3>1. table \in Snapshot
      BY SnapshotIs DEF IInv, Typed, TypeOK
    <3> QED
      BY <3>1 DEF Attempt, IInv, Typed, TypeOK
  <2> HIDE DEF taken
  <2>5. tx' \in [Requests -> Attempt] /\ tx'[c] = taken
        /\ \A d \in Requests : d # c => tx'[d] = tx[d]
    BY <2>3, <2>4 DEF IInv, Typed
  <2>6. Reads(c)
    BY <1>2, <2>1, <2>2, <2>5 DEF Reads, taken
  <2>7. Locks(c) /\ Checks(c)
    <3>1. request' = request
      BY DEF Begin
    <3>2. ~HoldsOrganization(c)' /\ ~SharesOrganization(c)' /\ pc'[c] # "referencing"
      BY <1>2, <2>1, <2>2, <3>1 DEF HoldsOrganization, SharesOrganization, Written
    <3> QED
      BY <2>1, <2>2, <3>2 DEF Locks, Checks, Enters, Checked
  <2> QED
    BY <1>1, <2>1, <2>5, <2>6, <2>7, GotoAdvances DEF Begin, InTransaction
<1>3. ASSUME NEW a \in {"closed", "unavailable"}, Reply(c, a),
             a = "unavailable" => Occupied(table, request[c].slot)
      PROVE  Advance(c)
  <2>1. pc'[c] = "answered"
    BY <1>3 DEF Reply, IInv, Typed, TypeOK
  <2>2. tx' = [tx EXCEPT ![c] = NoAttempt]
    BY <2>1 DEF Begin
  <2>3. a # "closed" => DOMAIN table # {}
    BY <1>3 DEF Occupied
  <2> QED
    BY <1>1, <1>3, <2>2, <2>3, ReplyAdvances DEF Begin
<1>4. CASE request[c].kind # "public"
  <2>1. Goto(c, "locking")
    BY <1>4 DEF Begin
  <2>2. ~Goto(c, "writing")
    BY <2>1 DEF Goto, IInv, Typed, TypeOK
  <2> QED
    BY <1>2, <1>4, <2>1, <2>2
<1>5. CASE request[c].kind = "public"
  <2>1. ~open => Reply(c, "closed")
    BY <1>5 DEF Begin
  <2>2. open /\ Occupied(table, request[c].slot) => Reply(c, "unavailable")
    BY <1>5 DEF Begin
  <2>3. open /\ ~Occupied(table, request[c].slot) => Goto(c, "writing") /\ open
    BY <1>5 DEF Begin
  <2>4. Goto(c, "writing") => ~Goto(c, "locking")
    BY DEF Goto, IInv, Typed, TypeOK
  <2> QED
    BY <1>2, <1>3, <1>5, <2>1, <2>2, <2>3, <2>4
<1> QED
  BY <1>4, <1>5

\* The organization's row is locked, and the request decided on what was read
\* and is still true.
LEMMA LockAdvances ==
    ASSUME IInv, NEW c \in Requests, LockOrganization(c)
    PROVE  Advance(c)
<1>1. pc[c] = "locking" /\ Active(c) /\ OrganizationUsers(c) = {}
  BY DEF LockOrganization, Active, InTransaction
<1>2. c \in DOMAIN request
  BY <1>1, RunningFacts
<1>3. SnapshotHolds(c) /\ DecisionHolds(c)
  BY <1>1, <1>2 DEF IInv, SnapshotsHold, DecisionsHold
<1>4. request[c].kind # "public" /\ (~Creates(c) => request[c].booking \in DOMAIN table)
  BY <1>1, <1>2, <1>3 DEF DecisionHolds, IInv, Named
<1>5. CASE Raise(c, "40001")
  <2>1. pc'[c] = "failed"
    BY <1>5 DEF Raise, IInv, Typed, TypeOK
  <2>2. tx' = [tx EXCEPT ![c] = NoAttempt]
    BY <2>1 DEF LockOrganization
  <2>3. lost' \in 0 .. MaxLost
    BY DEF LockOrganization, IInv, Typed, TypeOK
  <2> QED
    BY <1>1, <1>5, <2>2, <2>3, RaiseAdvances DEF LockOrganization, Failure
<1>6. ASSUME NEW a \in {"closed", "unavailable", "invalid_status"}, Reply(c, a),
             a # "closed" => DOMAIN table # {}
      PROVE  Advance(c)
  <2>1. pc'[c] = "answered"
    BY <1>6 DEF Reply, IInv, Typed, TypeOK
  <2>2. tx' = [tx EXCEPT ![c] = NoAttempt]
    BY <2>1 DEF LockOrganization
  <2> QED
    BY <1>1, <1>6, <2>2, ReplyAdvances DEF LockOrganization
<1>7. ASSUME Goto(c, "writing"), ~tx[c].orgStale, tx[c].open,
             ~Creates(c) =>
                /\ request[c].booking \notin tx[c].stale
                /\ tx[c].snapshot[request[c].booking].status = RequiredStatus(request[c].kind)
      PROVE  Advance(c)
  <2>1. pc'[c] = "writing"
    BY <1>7 DEF Goto, IInv, Typed, TypeOK
  <2>2. tx' = tx
    BY <2>1 DEF LockOrganization, IInv, Typed
  <2>3. Locks(c)
    <3>1. open
      BY <1>3, <1>7 DEF SnapshotHolds
    <3>2. ~Creates(c) => table[request[c].booking].status = RequiredStatus(request[c].kind)
      BY <1>3, <1>4, <1>7 DEF SnapshotHolds
    <3> QED
      BY <1>1, <1>4, <2>1, <3>1, <3>2 DEF Locks, SharesOrganization
  <2>4. Checks(c)
    BY <2>1 DEF Checks, Enters, Checked
  <2>5. Reads(c) /\ tx' \in [Requests -> Attempt]
    BY <1>1, <1>7, <2>2, ReadsKept DEF InTransaction
  <2> QED
    BY <1>1, <1>7, <2>2, <2>3, <2>4, <2>5, GotoAdvances DEF LockOrganization, InTransaction
<1>8. CASE tx[c].orgStale
  BY <1>5, <1>8 DEF LockOrganization
<1>9. CASE ~tx[c].orgStale
  <2>1. Decide(c)
    BY <1>9 DEF LockOrganization
  <2>2. CASE ~tx[c].open
    BY <1>6, <2>1, <2>2 DEF Decide
  <2>3. CASE tx[c].open /\ Creates(c)
    <3>1. CASE Occupied(tx[c].snapshot, request[c].slot)
      <4>1. DOMAIN table # {}
        BY <1>3, <3>1 DEF Occupied, SnapshotHolds
      <4> QED
        BY <1>6, <2>1, <2>3, <3>1, <4>1 DEF Decide
    <3>2. CASE ~Occupied(tx[c].snapshot, request[c].slot)
      BY <1>7, <1>9, <2>1, <2>3, <3>2 DEF Decide
    <3> QED
      BY <3>1, <3>2
  <2>4. CASE tx[c].open /\ ~Creates(c)
    <3>1. CASE RowChanged(c)
      BY <1>5, <2>1, <2>4, <3>1 DEF Decide
    <3>2. CASE ~RowChanged(c) /\ tx[c].snapshot[request[c].booking].status # RequiredStatus(request[c].kind)
      BY <1>4, <1>6, <2>1, <2>4, <3>2 DEF Decide
    <3>3. CASE ~RowChanged(c) /\ tx[c].snapshot[request[c].booking].status = RequiredStatus(request[c].kind)
      BY <1>7, <1>9, <2>1, <2>4, <3>3 DEF Decide, RowChanged
    <3> QED
      BY <3>1, <3>2, <3>3
  <2> QED
    BY <2>2, <2>3, <2>4
<1> QED
  BY <1>8, <1>9

\* A rolled back attempt, whose error is not one of a conflict or met somebody.
LEMMA RollbackAdvances ==
    ASSUME IInv, NEW c \in Requests, Active(c), NEW error \in Failure \ {"none"},
           Rollback(c, error), lost' \in 0 .. MaxLost,
           error \in {"40P01", "23P01"} => \E d \in Requests : d # c /\ Ahead(d)
    PROVE  Advance(c)
BY RaiseAdvances DEF Rollback

\* The row version is written.
LEMMA WriteAdvances ==
    ASSUME IInv, NEW c \in Requests, Write(c)
    PROVE  Advance(c)
<1>1. pc[c] = "writing" /\ Active(c) /\ lost' = lost
  BY DEF Write, Active, InTransaction
<1>2. c \in DOMAIN request
  BY <1>1, RunningFacts
<1>3. ASSUME Goto(c, "checking"),
             UNCHANGED <<table, open, orgChanges, request, tries, tx, applied>>
      PROVE  Advance(c)
  <2>1. Reads(c) /\ tx' \in [Requests -> Attempt] /\ pc'[c] = "checking"
    BY <1>1, <1>3, ReadsKept DEF InTransaction
  <2>2. Locks(c)
    BY <1>1, <1>3, <2>1 DEF Locks, HoldsOrganization, SharesOrganization
  <2>3. Checks(c)
    BY <2>1 DEF Checks, Enters, Checked
  <2> QED
    BY <1>1, <1>3, <2>1, <2>2, <2>3, GotoAdvances DEF InTransaction
<1>4. ASSUME NEW error \in {"reference_taken", "token_taken"}, Rollback(c, error)
      PROVE  Advance(c)
  <2>1. lost' \in 0 .. MaxLost
    BY <1>1 DEF IInv, Typed, TypeOK
  <2> QED
    BY <1>1, <1>4, <2>1, RollbackAdvances DEF Failure
<1> QED
  BY <1>3, <1>4 DEF Write

\* The exclusion check: with nobody to wait for and nothing violated, the
\* version keeps apart from the rows and from every version written before.
LEMMA ExcludeAdvances ==
    ASSUME IInv, NEW c \in Requests, Exclude(c)
    PROVE  Advance(c)
<1>1. pc[c] = "checking" /\ Active(c) /\ lost' = lost
  BY DEF Exclude, Active, InTransaction
<1>2. c \in DOMAIN request
  BY <1>1, RunningFacts
<1>3. DecisionHolds(c)
  BY <1>2 DEF IInv, DecisionsHold
<1>4. ASSUME ExclusionViolated(c), Rollback(c, "23P01")
      PROVE  Advance(c)
  <2>1. lost' \in 0 .. MaxLost
    BY <1>1 DEF IInv, Typed, TypeOK
  <2>2. DOMAIN table # {}
    BY <1>4 DEF ExclusionViolated, Met
  <2>3. \E d \in Requests : d # c /\ Ahead(d)
    BY <1>1, <2>2, RunningFacts, RowIsAhead
  <2> QED
    BY <1>1, <1>4, <2>1, <2>3, RollbackAdvances DEF Failure
<1>5. ASSUME ~ExclusionViolated(c), ExclusionRivals(c) = {},
             NEW location \in {"referencing", "committing"}, Goto(c, location),
             location = "referencing" <=> request[c].kind = "public",
             UNCHANGED <<table, open, orgChanges, request, tries, tx, applied>>
      PROVE  Advance(c)
  <2>1. Reads(c) /\ tx' \in [Requests -> Attempt] /\ pc'[c] = location
    BY <1>1, <1>5, ReadsKept DEF InTransaction
  <2>2. Locks(c)
    BY <1>1, <1>3, <1>5, <2>1 DEF Locks, HoldsOrganization, SharesOrganization, Written
  <2>3. ASSUME Confirmed(NewRow(c)) PROVE CheckHolds(c)
    <3>1. Rewriting(c) = {} /\ Arriving(c) = {}
      BY <1>5, <2>3 DEF ExclusionRivals
    <3>2. Met(c) = {}
      BY <1>5, <2>3, <3>1 DEF ExclusionViolated
    <3>3. ASSUME NEW b \in DOMAIN table \ {request[c].booking}, Confirmed(table[b])
          PROVE  Apart(table[b].slot, NewRow(c).slot)
      BY <3>2, <3>3 DEF Met, Apart, Overlapping, Excludes
    <3>4. ASSUME NEW d \in Others(c), Enters(d)
          PROVE  Apart(NewRow(d).slot, NewRow(c).slot)
      <4>1. Written(d) /\ Confirmed(NewRow(d))
        BY <3>4 DEF Enters, Checked, Written
      <4> QED
        BY <3>1, <4>1 DEF Arriving, Apart, Overlapping, Excludes
    <3> QED
      BY <3>3, <3>4 DEF CheckHolds
  <2>4. NewRow(c)' = NewRow(c)
    BY <1>5, NewRowKept
  <2>5. Checks(c)
    BY <2>3, <2>4 DEF Checks, Enters
  <2> QED
    BY <1>1, <1>5, <2>1, <2>2, <2>5, GotoAdvances DEF InTransaction
<1> QED
  BY <1>4, <1>5 DEF Exclude

\* The foreign key shares the organization's row, unless it changed.
LEMMA ReferenceAdvances ==
    ASSUME IInv, NEW c \in Requests, ReferenceOrganization(c)
    PROVE  Advance(c)
<1>1. /\ pc[c] = "referencing" /\ Active(c) /\ lost' = lost
      /\ OrganizationHolders(c) = {}
  BY DEF ReferenceOrganization, Active, InTransaction
<1>2. c \in DOMAIN request
  BY <1>1, RunningFacts
<1>3. DecisionHolds(c) /\ SnapshotHolds(c)
  BY <1>1, <1>2 DEF IInv, DecisionsHold, SnapshotsHold
<1>4. request[c].kind = "public" /\ tx[c].open
  BY <1>1, <1>3 DEF DecisionHolds
<1>5. CASE tx[c].orgStale
  <2>1. Rollback(c, "40001")
    BY <1>5 DEF ReferenceOrganization
  <2>2. lost' \in 0 .. MaxLost
    BY <1>1 DEF IInv, Typed, TypeOK
  <2> QED
    BY <1>1, <2>1, <2>2, RollbackAdvances DEF Failure
<1>6. CASE ~tx[c].orgStale
  <2>1. /\ Goto(c, "committing")
        /\ UNCHANGED <<table, open, orgChanges, request, tries, tx, applied>>
    BY <1>6 DEF ReferenceOrganization
  <2>2. Reads(c) /\ tx' \in [Requests -> Attempt] /\ pc'[c] = "committing"
    BY <1>1, <2>1, ReadsKept DEF InTransaction
  <2>3. open
    BY <1>3, <1>4, <1>6 DEF SnapshotHolds
  <2>4. Locks(c)
    BY <1>1, <1>4, <2>1, <2>2, <2>3 DEF Locks, HoldsOrganization
  <2>5. NewRow(c)' = NewRow(c)
    BY <2>1, NewRowKept
  <2>6. Checks(c)
    BY <1>1, <2>5 DEF Checks, Enters, Checked
  <2> QED
    BY <1>1, <2>1, <2>2, <2>4, <2>6, GotoAdvances DEF InTransaction
<1> QED
  BY <1>5, <1>6

\* A deadlock has two sides: the victim leaves the one it waited for ahead.
LEMMA VictimAdvances ==
    ASSUME IInv, NEW c \in Requests, DeadlockVictim(c)
    PROVE  Advance(c)
<1>1. Active(c)
  BY DEF DeadlockVictim, WaitsFor, Active, InTransaction
<1>2. PICK d \in WaitsFor(c) : TRUE
  BY DEF DeadlockVictim
<1>3. d \in Others(c) /\ Active(d)
  BY <1>2 DEF WaitsFor, OrganizationUsers, OrganizationHolders, HoldsOrganization,
     SharesOrganization, ExclusionRivals, Rewriting, Arriving, Written, Active, InTransaction
<1>4. d \in Requests /\ d # c /\ Ahead(d)
  BY <1>3, Submitted DEF IInv, Others, Ahead
<1>5. Rollback(c, "40P01") /\ lost' \in 0 .. MaxLost
  BY DEF DeadlockVictim, IInv, Typed, TypeOK
<1> QED
  BY <1>1, <1>4, <1>5, RollbackAdvances DEF Failure

\* An attempt that is refused with 40001, or breaks before its commit.
LEMMA FailureAdvances ==
    ASSUME IInv, NEW c \in Requests,
           \/ SerializationFailure(c)
           \/ Active(c) /\ Rollback(c, "connection_lost") /\ lost < MaxLost /\ lost' = lost + 1
    PROVE  Advance(c)
<1>1. lost' \in 0 .. MaxLost
  BY DEF SerializationFailure, IInv, Typed, TypeOK
<1> QED
  BY <1>1, RollbackAdvances DEF SerializationFailure, Failure

\* The retry loops: a next attempt, or the answer.
LEMMA HandleAdvances ==
    ASSUME IInv, NEW c \in Requests, HandleFailure(c)
    PROVE  Advance(c)
<1>1. pc[c] = "failed" /\ failure[c] # "none" /\ answer[c] = "none"
  BY DEF HandleFailure, IInv, AppliedOnce, Ended
<1>2. c \in DOMAIN request
  BY <1>1, Submitted DEF IInv
<1>3. applied[c] # 0 => failure[c] = "connection_lost"
  BY <1>1 DEF IInv, AppliedOnce, Ended
<1> DEFINE again == Retries(c) \/ RetriesReference(c) \/ RetriesToken(c)
<1>4. /\ pc' = [pc EXCEPT ![c] = IF again THEN "starting" ELSE "answered"]
      /\ failure' = [failure EXCEPT ![c] = "none"]
      /\ answer' = [answer EXCEPT ![c] =
                      IF again THEN "none"
                      ELSE IF failure[c] \in ConflictErrors(request[c].kind)
                      THEN "booking_conflict" ELSE "error"]
      /\ tx' = tx
  BY <1>1 DEF HandleFailure, IInv, Typed, TypeOK
<1>5. tries' \in [Requests -> Tries]
  <2>1. tries[c] \in Tries
    BY DEF IInv, Typed, TypeOK
  <2>2. /\ Retries(c) => tries[c].serialization + 1 \in 1 .. MaxSerialization
        /\ RetriesReference(c) => tries[c].reference + 1 \in 1 .. MaxReference
        /\ RetriesToken(c) => tries[c].token + 1 \in 1 .. MaxToken
        /\ 1 \in 1 .. MaxSerialization /\ 1 \in 1 .. MaxReference
    BY <2>1 DEF Retries, RetriesReference, RetriesToken, Tries
  <2>3. /\ Retries(c) => NextTry(tries[c]) \in Tries
        /\ RetriesReference(c) => NextReference(tries[c]) \in Tries
        /\ RetriesToken(c) => NextToken(tries[c]) \in Tries
    BY <2>1, <2>2 DEF NextTry, NextReference, NextToken, Tries
  <2> QED
    BY <2>3 DEF HandleFailure, IInv, Typed, TypeOK
<1>6. again => ~(failure[c] = "connection_lost")
  BY DEF Retries, RetriesReference, RetriesToken
<1>7. failure[c] \in ConflictErrors(request[c].kind) => failure[c] \in {"40P01", "23P01"}
  BY DEF ConflictErrors
<1> HIDE DEF again
<1>8. Alone(c)
  <2>1. pc' \in [Requests -> Location] /\ failure' \in [Requests -> Failure]
        /\ answer' \in [Requests -> Answer]
    BY <1>4 DEF IInv, Typed, TypeOK, Location, Failure, Answer
  <2>2. pc'[c] # "idle"
    BY <1>4 DEF IInv, Typed, TypeOK
  <2>3. \A d \in Requests : d # c =>
          /\ pc'[d] = pc[d] /\ tx'[d] = tx[d]
          /\ failure'[d] = failure[d] /\ answer'[d] = answer[d]
    BY <1>4 DEF IInv, Typed, TypeOK
  <2> QED
    BY <1>2, <1>4, <1>5, <2>1, <2>2, <2>3 DEF Alone, HandleFailure, IInv, Typed, TypeOK
<1>9. pc'[c] = (IF again THEN "starting" ELSE "answered") /\ failure'[c] = "none"
      /\ answer'[c] = (IF again THEN "none"
                       ELSE IF failure[c] \in ConflictErrors(request[c].kind)
                       THEN "booking_conflict" ELSE "error")
  BY <1>4 DEF IInv, Typed, TypeOK
<1>10. Reads(c) /\ Locks(c) /\ Checks(c)
  BY <1>9 DEF Reads, Locks, Checks, Enters, Checked, Active, InTransaction,
       HoldsOrganization, SharesOrganization, Written
<1>11. Ends(c)
  <2>1. CASE again
    <3>1. Ahead(c)' /\ ~Lost(c)'
      BY <1>9, <2>1 DEF Ahead, Lost
    <3> QED
      BY <1>3, <1>6, <1>9, <2>1, <3>1 DEF Ends
  <2>2. CASE ~again /\ failure[c] \in ConflictErrors(request[c].kind)
    <3>1. Lost(c)
      BY <1>7, <2>2 DEF Lost
    <3>2. ~Ahead(c)
      <4>1. failure[c] # "connection_lost"
        BY <1>7, <2>2
      <4> QED
        BY <1>1, <1>3, <1>7, <2>2, <4>1 DEF Ahead, Active, InTransaction, IInv, AppliedOnce, Ended
    <3> QED
      BY <1>3, <1>7, <1>9, <2>2, <3>1, <3>2 DEF Ends
  <2>3. CASE ~again /\ failure[c] \notin ConflictErrors(request[c].kind)
    <3>1. Ahead(c)' /\ ~Lost(c)'
      BY <1>9, <2>3 DEF Ahead, Lost
    <3> QED
      BY <1>9, <2>3, <3>1 DEF Ends
  <2> QED
    BY <2>1, <2>2, <2>3
<1> QED
  BY <1>8, <1>10, <1>11 DEF Advance

-----------------------------------------------------------------------------
(* A commit.                                                               *)

\* What a commit does: one row changes, and the others learn that it did.
Committed(c) ==
    /\ c \in DOMAIN request /\ pc[c] = "committing"
    /\ Apply(c)
    /\ \/ Reply(c, "ok") /\ UNCHANGED <<open, orgChanges, request, tries, lost>>
       \/ /\ lost < MaxLost /\ lost' = lost + 1
          /\ Raise(c, "connection_lost")
          /\ UNCHANGED <<open, orgChanges, request, tries>>

\* The row version that is committed.
LEMMA CommitRows ==
    ASSUME IInv, NEW c \in Requests, Committed(c)
    PROVE  /\ request[c].booking \in Requests
           /\ DOMAIN table' = DOMAIN table \cup {request[c].booking}
           /\ table'[request[c].booking] = NewRow(c)
           /\ \A b \in DOMAIN table : b # request[c].booking => table'[b] = table[b]
           /\ NewRow(c) \in Row
           /\ UNCHANGED <<open, orgChanges, request, tries>>
<1>1. NewRow(c) \in Row /\ request[c].booking \in Requests
  BY NewRowTyped DEF Committed, IInv
<1>2. table' = [d \in DOMAIN table \cup {request[c].booking} |->
                  IF d = request[c].booking THEN NewRow(c) ELSE table[d]]
  BY DEF Committed, Apply
<1> HIDE DEF NewRow
<1> QED
  BY <1>1, <1>2 DEF Committed

\* Where the requests stand after a commit.
LEMMA CommitRequests ==
    ASSUME IInv, NEW c \in Requests, Committed(c)
    PROVE  /\ pc' \in [Requests -> Location] /\ failure' \in [Requests -> Failure]
           /\ answer' \in [Requests -> Answer] /\ lost' \in 0 .. MaxLost
           /\ applied' = [applied EXCEPT ![c] = 1]
           /\ \/ pc'[c] = "answered" /\ answer'[c] = "ok" /\ failure'[c] = "none"
              \/ pc'[c] = "failed" /\ answer'[c] = "none" /\ failure'[c] = "connection_lost"
           /\ \A d \in Requests : d # c =>
                 pc'[d] = pc[d] /\ failure'[d] = failure[d] /\ answer'[d] = answer[d]
<1>1. Active(c) /\ failure[c] = "none" /\ answer[c] = "none" /\ applied[c] = 0
  BY RunningFacts DEF Committed, Active, InTransaction
<1>2. applied' = [applied EXCEPT ![c] = 1]
  BY <1>1 DEF Committed, Apply, IInv, Typed, TypeOK
<1>3. CASE Reply(c, "ok") /\ lost' = lost
  BY <1>1, <1>2, <1>3 DEF Reply, IInv, Typed, TypeOK, Location, Answer
<1>4. CASE Raise(c, "connection_lost") /\ lost < MaxLost /\ lost' = lost + 1
  BY <1>1, <1>2, <1>4 DEF Raise, IInv, Typed, TypeOK, Location, Failure
<1> QED
  BY <1>3, <1>4 DEF Committed

\* The attempts after a commit: c has none, the others may be stale.
LEMMA CommitAttempts ==
    ASSUME IInv, NEW c \in Requests, Committed(c)
    PROVE  /\ tx' \in [Requests -> Attempt]
           /\ \A d \in Requests : d # c /\ Active(d) =>
                 /\ tx'[d].snapshot = tx[d].snapshot /\ tx'[d].open = tx[d].open
                 /\ tx'[d].orgStale = tx[d].orgStale
                 /\ tx'[d].stale = tx[d].stale \cup {request[c].booking}
<1> DEFINE b == request[c].booking
<1>1. b \in Requests
  BY CommitRows
<1>2. tx' = [d \in Requests |->
               IF d = c THEN NoAttempt
               ELSE IF Active(d) THEN [tx[d] EXCEPT !.stale = @ \cup {b}]
               ELSE tx[d]]
  BY DEF Committed, Apply
<1> HIDE DEF b
<1>3. \A d \in Requests : tx[d] \in Attempt
  BY DEF IInv, Typed
<1>4. \A d \in Requests :
        /\ [tx[d] EXCEPT !.stale = @ \cup {b}] \in Attempt
        /\ [tx[d] EXCEPT !.stale = @ \cup {b}].snapshot = tx[d].snapshot
        /\ [tx[d] EXCEPT !.stale = @ \cup {b}].open = tx[d].open
        /\ [tx[d] EXCEPT !.stale = @ \cup {b}].orgStale = tx[d].orgStale
        /\ [tx[d] EXCEPT !.stale = @ \cup {b}].stale = tx[d].stale \cup {b}
  BY <1>1, <1>3 DEF Attempt
<1>5. tx' \in [Requests -> Attempt]
  BY <1>2, <1>3, <1>4, NoAttemptTyped
<1> QED
  BY <1>2, <1>4, <1>5 DEF b

\* Nobody else holds the organization's row while a request commits.
LEMMA CommitAlone ==
    ASSUME IInv, NEW c \in Requests, Committed(c)
    PROVE  /\ \A d \in Others(c) : ~HoldsOrganization(d)
           /\ open
           /\ \A d \in DOMAIN request : d # c /\ Enters(d) =>
                 Creates(d) /\ request[d].booking = d
<1>1. HoldsOrganization(c) \/ SharesOrganization(c)
  BY DEF Committed, HoldsOrganization, SharesOrganization, Written
<1>2. \A d \in Others(c) : ~HoldsOrganization(d)
  BY <1>1 DEF IInv, Serialized, Others, Committed
<1>3. open
  BY <1>1 DEF IInv, DecisionsHold, DecisionHolds, Committed
<1>4. ASSUME NEW d \in DOMAIN request, d # c, Enters(d)
      PROVE  Creates(d) /\ request[d].booking = d
  <2>1. request[d].kind = "public"
    BY <1>2, <1>4 DEF Others, HoldsOrganization, Written, Enters, Checked
  <2> QED
    BY <2>1 DEF Creates, Creating, IInv, Named
<1> QED
  BY <1>2, <1>3, <1>4

\* A commit keeps the invariant.
LEMMA CommitKeepsIInv ==
    ASSUME IInv, NEW c \in Requests, Committed(c)
    PROVE  IInv'
<1> DEFINE b == request[c].booking
<1>1. /\ b \in Requests
      /\ DOMAIN table' = DOMAIN table \cup {b}
      /\ table'[b] = NewRow(c)
      /\ \A a \in DOMAIN table : a # b => table'[a] = table[a]
      /\ NewRow(c) \in Row
      /\ open' = open /\ orgChanges' = orgChanges /\ request' = request /\ tries' = tries
  BY CommitRows
<1>2. /\ pc' \in [Requests -> Location] /\ failure' \in [Requests -> Failure]
      /\ answer' \in [Requests -> Answer] /\ lost' \in 0 .. MaxLost
      /\ applied' = [applied EXCEPT ![c] = 1]
      /\ \/ pc'[c] = "answered" /\ answer'[c] = "ok" /\ failure'[c] = "none"
         \/ pc'[c] = "failed" /\ answer'[c] = "none" /\ failure'[c] = "connection_lost"
      /\ \A d \in Requests : d # c =>
            pc'[d] = pc[d] /\ failure'[d] = failure[d] /\ answer'[d] = answer[d]
  BY CommitRequests
<1>3. /\ tx' \in [Requests -> Attempt]
      /\ \A d \in Requests : d # c /\ Active(d) =>
            /\ tx'[d].snapshot = tx[d].snapshot /\ tx'[d].open = tx[d].open
            /\ tx'[d].orgStale = tx[d].orgStale
            /\ tx'[d].stale = tx[d].stale \cup {b}
  BY CommitAttempts
<1>4. /\ \A d \in Others(c) : ~HoldsOrganization(d)
      /\ open
      /\ \A d \in DOMAIN request : d # c /\ Enters(d) => Creates(d) /\ request[d].booking = d
  BY CommitAlone
<1>5. c \in DOMAIN request /\ pc[c] = "committing"
  BY DEF Committed
<1>6. DOMAIN request \subseteq Requests
  BY Submitted DEF IInv
<1> HIDE DEF b
<1>7. \A d \in DOMAIN request : d # c =>
        /\ pc'[d] = pc[d] /\ Active(d)' = Active(d) /\ Creates(d)' = Creates(d)
        /\ HoldsOrganization(d)' = HoldsOrganization(d)
        /\ SharesOrganization(d)' = SharesOrganization(d)
  <2>1. \A d \in DOMAIN request : d # c => pc'[d] = pc[d]
    BY <1>2, <1>6
  <2> QED
    BY <1>1, <2>1 DEF Active, Creates, HoldsOrganization, SharesOrganization, Written
<1>8. ~Active(c)' /\ ~HoldsOrganization(c)' /\ ~SharesOrganization(c)' /\ ~Checked(c)'
      /\ pc'[c] \in {"answered", "failed"}
  BY <1>2 DEF Active, InTransaction, HoldsOrganization, SharesOrganization, Written, Checked
<1>9. Typed'
  <2>1. \A d \in Requests : pc'[d] # "idle" <=> d \in DOMAIN request'
    <3>1. \A d \in Requests : d # c => (pc'[d] # "idle" <=> d \in DOMAIN request')
      BY <1>1, <1>2, Submitted DEF IInv
    <3> QED
      BY <1>1, <1>5, <1>8, <3>1
  <2>2. DOMAIN table' \subseteq Requests /\ table' \in [DOMAIN table' -> Row]
    <3>1. \A a \in DOMAIN table' : table'[a] \in Row
      BY <1>1 DEF IInv, Typed, TypeOK
    <3>2. table' = [a \in DOMAIN table' |-> table'[a]]
      BY DEF Committed, Apply
    <3> QED
      BY <1>1, <3>1, <3>2 DEF IInv, Typed, TypeOK
  <2>3. \A d \in Requests :
          /\ DOMAIN tx'[d].snapshot \subseteq Requests
          /\ tx'[d].snapshot \in [DOMAIN tx'[d].snapshot -> Row]
          /\ tx'[d].open \in BOOLEAN
          /\ tx'[d].stale \subseteq Requests
          /\ tx'[d].orgStale \in BOOLEAN
    BY <1>3, SnapshotIs DEF Attempt
  <2>4. applied' \in [Requests -> Nat]
    BY <1>2 DEF IInv, Typed, TypeOK
  <2> QED
    BY <1>1, <1>2, <1>3, <2>1, <2>2, <2>3, <2>4 DEF IInv, Typed, TypeOK
<1>10. Named'
  BY <1>1 DEF IInv, Named, Creates
<1>11. Serialized'
  BY <1>1, <1>7, <1>8 DEF IInv, Serialized
<1>12. SnapshotsHold'
  <2> SUFFICES ASSUME NEW d \in DOMAIN request, Active(d)' PROVE SnapshotHolds(d)'
    BY <1>1 DEF SnapshotsHold
  <2>1. d # c /\ Active(d) /\ d \in Requests
    BY <1>6, <1>7, <1>8
  <2>2. SnapshotHolds(d)
    BY <2>1 DEF IInv, SnapshotsHold
  <2>3. /\ tx'[d].snapshot = tx[d].snapshot /\ tx'[d].open = tx[d].open
        /\ tx'[d].orgStale = tx[d].orgStale /\ tx'[d].stale = tx[d].stale \cup {b}
    BY <1>3, <2>1
  <2>4. \A a \in DOMAIN table' \ tx'[d].stale :
          a \in DOMAIN tx'[d].snapshot /\ tx'[d].snapshot[a] = table'[a]
    BY <1>1, <2>2, <2>3 DEF SnapshotHolds
  <2>5. ~Creates(d)' => request'[d].booking \in DOMAIN tx'[d].snapshot
    BY <1>1, <2>2, <2>3 DEF SnapshotHolds, Creates
  <2> QED
    BY <1>1, <2>2, <2>3, <2>4, <2>5 DEF SnapshotHolds
<1>13. DecisionsHold'
  <2> SUFFICES ASSUME NEW d \in DOMAIN request PROVE DecisionHolds(d)'
    BY <1>1 DEF DecisionsHold
  <2>1. CASE d = c
    BY <1>1, <1>2, <1>8, <2>1 DEF DecisionHolds
  <2>2. CASE d # c
    <3>1. DecisionHolds(d)
      BY DEF IInv, DecisionsHold
    <3>2. ~HoldsOrganization(d)'
      BY <1>4, <1>7, <2>2 DEF Others
    <3>3. Active(d)' => tx'[d].open = tx[d].open
      BY <1>3, <1>6, <1>7, <2>2
    <3> QED
      BY <1>1, <1>4, <1>7, <2>2, <3>1, <3>2, <3>3 DEF DecisionHolds
  <2> QED
    BY <2>1, <2>2
<1>14. ChecksHold'
  <2>1. \A d \in DOMAIN request : Enters(d)' => d # c /\ Enters(d) /\ NewRow(d)' = NewRow(d)
    <3> SUFFICES ASSUME NEW d \in DOMAIN request, Enters(d)'
                 PROVE  d # c /\ Enters(d) /\ NewRow(d)' = NewRow(d)
      OBVIOUS
    <3>1. d # c /\ Checked(d)
      BY <1>7, <1>8 DEF Enters, Checked
    <3>2. Creates(d)
      <4>1. d \in Others(c) /\ Written(d)
        BY <3>1 DEF Others, Checked, Written
      <4>2. request[d].kind = "public"
        BY <1>4, <4>1 DEF HoldsOrganization
      <4> QED
        BY <4>2 DEF Creates, Creating
    <3>3. NewRow(d)' = NewRow(d)
      BY <1>1, <3>2, NewRowKept
    <3> QED
      BY <3>1, <3>3 DEF Enters
  <2>2. Confirmed(NewRow(c)) => CheckHolds(c)
    BY <1>5 DEF IInv, ChecksHold, Enters, Checked
  <2>3. \A a \in DOMAIN table' \ {b} : a \in DOMAIN table /\ table'[a] = table[a]
                                       /\ table[a].slot \in Slots
    BY <1>1 DEF IInv, Typed, TypeOK, Row
  <2>4. NewRow(c).slot \in Slots
    BY <1>1 DEF Row
  <2>5. \A a \in DOMAIN table' \ {b} :
          Confirmed(table'[a]) /\ Confirmed(table'[b]) =>
             /\ Apart(table'[a].slot, table'[b].slot)
             /\ Apart(table'[b].slot, table'[a].slot)
    <3> SUFFICES ASSUME NEW a \in DOMAIN table' \ {b},
                        Confirmed(table'[a]), Confirmed(table'[b])
                 PROVE  /\ Apart(table'[a].slot, table'[b].slot)
                        /\ Apart(table'[b].slot, table'[a].slot)
      OBVIOUS
    <3>1. Apart(table[a].slot, NewRow(c).slot)
      BY <1>1, <2>2, <2>3 DEF CheckHolds, b
    <3> QED
      BY <1>1, <2>3, <2>4, <3>1, ApartSymmetric
  <2>6. RowsApart'
    <3> SUFFICES ASSUME NEW a \in DOMAIN table', NEW e \in DOMAIN table', a # e,
                        Confirmed(table'[a]), Confirmed(table'[e])
                 PROVE  Apart(table'[a].slot, table'[e].slot)
      BY DEF RowsApart
    <3>1. CASE a # b /\ e # b
      BY <2>3, <3>1 DEF IInv, ChecksHold, RowsApart
    <3>2. CASE a = b \/ e = b
      BY <2>5, <3>2
    <3> QED
      BY <3>1, <3>2
  <2>7. ASSUME NEW d \in DOMAIN request, Enters(d)' PROVE CheckHolds(d)'
    <3>1. d # c /\ Enters(d) /\ NewRow(d)' = NewRow(d) /\ CheckHolds(d)
      BY <2>1, <2>7 DEF IInv, ChecksHold
    <3>2. ASSUME NEW a \in DOMAIN table' \ {request[d].booking}, Confirmed(table'[a])
          PROVE  Apart(table'[a].slot, NewRow(d)'.slot)
      <4>1. CASE a # b
        BY <2>3, <3>1, <3>2, <4>1 DEF CheckHolds
      <4>2. CASE a = b
        <5>1. Enters(c) /\ c \in Others(d)
          BY <1>1, <1>5, <3>1, <3>2, <4>2 DEF Enters, Checked, Others
        <5> QED
          BY <1>1, <3>1, <4>2, <5>1 DEF CheckHolds
      <4> QED
        BY <4>1, <4>2
    <3>3. ASSUME NEW e \in Others(d), Enters(e)'
          PROVE  Apart(NewRow(e)'.slot, NewRow(d)'.slot)
      <4>1. e \in DOMAIN request
        BY DEF Others
      <4> QED
        BY <2>1, <3>1, <3>3, <4>1 DEF CheckHolds
    <3>4. Others(d)' = Others(d)
      BY <1>1 DEF Others
    <3> QED
      BY <1>1, <3>2, <3>3, <3>4 DEF CheckHolds
  <2> QED
    BY <1>1, <2>6, <2>7 DEF ChecksHold
<1>15. AppliedOnce' /\ SomeoneAhead'
  <2>1. applied'[c] = 1 /\ \A d \in Requests : d # c => applied'[d] = applied[d]
    BY <1>2 DEF IInv, Typed, TypeOK
  <2>2. \A d \in Requests : Ended(d)'
    <3>1. Ended(c)'
      BY <1>2, <2>1 DEF Ended
    <3>2. \A d \in Requests : d # c => Ended(d)'
      BY <1>2, <2>1 DEF IInv, AppliedOnce, Ended
    <3> QED
      BY <3>1, <3>2
  <2>3. applied'[b] = 1
    <3>1. CASE Creates(c)
      BY <1>5, <2>1, <3>1 DEF IInv, Named, b
    <3>2. CASE ~Creates(c)
      <4>1. b \in DOMAIN table
        BY <1>5, <3>2 DEF IInv, Named, b
      <4> QED
        BY <1>1, <2>1, <4>1 DEF IInv, AppliedOnce
    <3> QED
      BY <3>1, <3>2
  <2>4. \A a \in DOMAIN table' : applied'[a] = 1
    BY <1>1, <2>1, <2>3 DEF IInv, AppliedOnce, Typed, TypeOK
  <2>5. SomeoneAhead'
    BY <2>1 DEF SomeoneAhead, Ahead
  <2> QED
    BY <2>2, <2>4, <2>5 DEF AppliedOnce
<1> QED
  BY <1>9, <1>10, <1>11, <1>12, <1>13, <1>14, <1>15 DEF IInv

-----------------------------------------------------------------------------
(* The other steps.                                                        *)

\* A new request changes nothing for the others.
LEMMA SubmitKeepsIInv ==
    ASSUME IInv, NEW c \in Requests, Submit(c)
    PROVE  IInv'
<1>1. PICK kind \in Kinds, b \in Requests, s \in Slots :
        /\ IF kind \in Creating THEN b = c ELSE b \in DOMAIN table
        /\ request' = [d \in DOMAIN request \cup {c} |->
                          IF d = c THEN [kind |-> kind, booking |-> b, slot |-> s]
                          ELSE request[d]]
  BY DEF Submit
<1>2. pc[c] = "idle" /\ c \notin DOMAIN request /\ failure[c] = "none" /\ answer[c] = "none"
  BY Submitted DEF Submit, IInv, AppliedOnce, Ended
<1>3. /\ DOMAIN request' = DOMAIN request \cup {c}
      /\ request'[c] = [kind |-> kind, booking |-> b, slot |-> s]
      /\ \A d \in DOMAIN request : d # c /\ request'[d] = request[d]
  BY <1>1, <1>2
<1>4. /\ pc' = [pc EXCEPT ![c] = "starting"]
      /\ UNCHANGED <<table, open, orgChanges, tries, tx, failure, answer, applied, lost>>
  BY DEF Submit, Goto
<1>5. DOMAIN request \subseteq Requests
  BY Submitted DEF IInv
<1>6. pc'[c] = "starting" /\ \A d \in Requests : d # c => pc'[d] = pc[d]
  BY <1>4 DEF IInv, Typed, TypeOK
<1>7. Typed'
  <2>1. \A d \in Requests : pc'[d] # "idle" <=> d \in DOMAIN request'
    BY <1>3, <1>6, Submitted DEF IInv
  <2>2. [kind |-> kind, booking |-> b, slot |-> s] \in Request
    BY DEF Request
  <2>3. request' \in [DOMAIN request' -> Request]
    <3>1. \A d \in DOMAIN request' : request'[d] \in Request
      BY <1>3, <2>2 DEF IInv, Typed, TypeOK
    <3>2. request' = [d \in DOMAIN request' |-> request'[d]]
      BY <1>1, <1>3
    <3> QED
      BY <3>1, <3>2
  <2>4. pc' \in [Requests -> Location]
    BY <1>4 DEF IInv, Typed, TypeOK, Location
  <2> QED
    BY <1>3, <1>4, <1>5, <2>1, <2>3, <2>4 DEF IInv, Typed, TypeOK
<1>8. \A d \in DOMAIN request :
        /\ d # c /\ pc'[d] = pc[d] /\ Active(d)' = Active(d) /\ Creates(d)' = Creates(d)
        /\ HoldsOrganization(d)' = HoldsOrganization(d)
        /\ SharesOrganization(d)' = SharesOrganization(d)
  <2>1. \A d \in DOMAIN request : d # c /\ pc'[d] = pc[d] /\ request'[d] = request[d]
    BY <1>3, <1>5, <1>6
  <2> QED
    BY <2>1 DEF Active, Creates, HoldsOrganization, SharesOrganization, Written
<1>9. ~Active(c)' /\ ~HoldsOrganization(c)' /\ ~SharesOrganization(c)' /\ ~Checked(c)'
  BY <1>6 DEF Active, InTransaction, HoldsOrganization, SharesOrganization, Written, Checked
<1>10. Named'
  <2>1. IF Creates(c)' THEN request'[c].booking = c ELSE request'[c].booking \in DOMAIN table
    BY <1>1, <1>3 DEF Creates
  <2> QED
    BY <1>3, <1>4, <1>8, <2>1 DEF IInv, Named
<1>11. Serialized'
  BY <1>3, <1>8, <1>9 DEF IInv, Serialized
<1>12. SnapshotsHold'
  <2> SUFFICES ASSUME NEW d \in DOMAIN request', Active(d)' PROVE SnapshotHolds(d)'
    BY DEF SnapshotsHold
  <2>1. d \in DOMAIN request /\ Active(d)
    BY <1>3, <1>8, <1>9
  <2>2. SnapshotHolds(d)
    BY <2>1 DEF IInv, SnapshotsHold
  <2> QED
    BY <1>3, <1>4, <1>8, <2>1, <2>2 DEF SnapshotHolds
<1>13. DecisionsHold'
  <2> SUFFICES ASSUME NEW d \in DOMAIN request' PROVE DecisionHolds(d)'
    BY DEF DecisionsHold
  <2>1. CASE d = c
    BY <1>6, <1>9, <2>1 DEF DecisionHolds
  <2>2. CASE d \in DOMAIN request
    BY <1>3, <1>4, <1>8, <2>2 DEF IInv, DecisionsHold, DecisionHolds
  <2> QED
    BY <1>3, <2>1, <2>2
<1>14. ChecksHold'
  <2>1. \A d \in DOMAIN request : NewRow(d)' = NewRow(d)
    BY <1>3, <1>4, NewRowKept
  <2>2. \A d \in DOMAIN request' : Enters(d)' => d \in DOMAIN request /\ Enters(d)
    BY <1>3, <1>8, <1>9, <2>1 DEF Enters, Checked
  <2>3. RowsApart'
    BY <1>4 DEF IInv, ChecksHold, RowsApart
  <2>4. ASSUME NEW d \in DOMAIN request', Enters(d)' PROVE CheckHolds(d)'
    <3>1. d \in DOMAIN request /\ Enters(d) /\ CheckHolds(d)
      BY <2>2, <2>4 DEF IInv, ChecksHold
    <3>2. ASSUME NEW e \in Others(d)', Enters(e)'
          PROVE  Apart(NewRow(e)'.slot, NewRow(d)'.slot)
      <4>1. e \in DOMAIN request /\ Enters(e) /\ e \in Others(d)
        BY <2>2, <3>2 DEF Others
      <4> QED
        BY <2>1, <3>1, <4>1 DEF CheckHolds
    <3>3. request'[d] = request[d] /\ NewRow(d)' = NewRow(d) /\ table' = table
      BY <1>3, <1>4, <2>1, <3>1
    <3> QED
      BY <3>1, <3>2, <3>3 DEF CheckHolds
  <2> QED
    BY <2>3, <2>4 DEF ChecksHold
<1>15. AppliedOnce'
  <2>1. \A d \in Requests : Ended(d)'
    <3>1. Ended(c)'
      BY <1>2, <1>4, <1>6 DEF IInv, AppliedOnce, Ended
    <3>2. \A d \in Requests : d # c => Ended(d)'
      BY <1>4, <1>6 DEF IInv, AppliedOnce, Ended
    <3> QED
      BY <3>1, <3>2
  <2> QED
    BY <1>4, <2>1 DEF IInv, AppliedOnce
<1>16. SomeoneAhead'
  BY <1>6 DEF SomeoneAhead, Ahead
<1> QED
  BY <1>7, <1>10, <1>11, <1>12, <1>13, <1>14, <1>15, <1>16 DEF IInv

\* The organization changes only while nobody relies on it; the others learn it.
LEMMA ChangeKeepsIInv ==
    ASSUME IInv, ChangeOrganization
    PROVE  IInv'
<1>1. /\ \A c \in DOMAIN request : ~HoldsOrganization(c) /\ ~SharesOrganization(c)
      /\ orgChanges < MaxOrgChanges /\ orgChanges' = orgChanges + 1 /\ open' = ~open
      /\ UNCHANGED <<table, request, pc, tries, failure, answer, applied, lost>>
  BY DEF ChangeOrganization
<1>2. tx' = [c \in Requests |-> IF Active(c) THEN [tx[c] EXCEPT !.orgStale = TRUE] ELSE tx[c]]
  BY DEF ChangeOrganization
<1>3. \A c \in Requests :
        /\ [tx[c] EXCEPT !.orgStale = TRUE] \in Attempt
        /\ [tx[c] EXCEPT !.orgStale = TRUE].snapshot = tx[c].snapshot
        /\ [tx[c] EXCEPT !.orgStale = TRUE].open = tx[c].open
        /\ [tx[c] EXCEPT !.orgStale = TRUE].stale = tx[c].stale
        /\ [tx[c] EXCEPT !.orgStale = TRUE].orgStale
  <2>1. \A c \in Requests : tx[c] \in Attempt
    BY DEF IInv, Typed
  <2> QED
    BY <2>1 DEF Attempt
<1>4. /\ tx' \in [Requests -> Attempt]
      /\ \A c \in Requests : Active(c) =>
            /\ tx'[c].snapshot = tx[c].snapshot /\ tx'[c].open = tx[c].open
            /\ tx'[c].stale = tx[c].stale /\ tx'[c].orgStale
  BY <1>2, <1>3 DEF IInv, Typed
<1>5. DOMAIN request \subseteq Requests
  BY Submitted DEF IInv
<1>6. Typed'
  <2>1. \A d \in Requests :
          /\ DOMAIN tx'[d].snapshot \subseteq Requests
          /\ tx'[d].snapshot \in [DOMAIN tx'[d].snapshot -> Row]
          /\ tx'[d].open \in BOOLEAN
          /\ tx'[d].stale \subseteq Requests
          /\ tx'[d].orgStale \in BOOLEAN
    BY <1>4, SnapshotIs DEF Attempt
  <2>2. open' \in BOOLEAN /\ orgChanges' \in 0 .. MaxOrgChanges
    BY <1>1 DEF IInv, Typed, TypeOK
  <2> QED
    BY <1>1, <1>4, <2>1, <2>2 DEF IInv, Typed, TypeOK
<1>7. \A c \in DOMAIN request :
        /\ Active(c)' = Active(c) /\ Creates(c)' = Creates(c)
        /\ HoldsOrganization(c)' = HoldsOrganization(c)
        /\ SharesOrganization(c)' = SharesOrganization(c)
  BY <1>1 DEF Active, Creates, HoldsOrganization, SharesOrganization, Written
<1>8. Named' /\ Serialized'
  BY <1>1, <1>7 DEF IInv, Named, Serialized
<1>9. SnapshotsHold'
  <2> SUFFICES ASSUME NEW c \in DOMAIN request, Active(c)' PROVE SnapshotHolds(c)'
    BY <1>1 DEF SnapshotsHold
  <2>1. Active(c) /\ SnapshotHolds(c) /\ c \in Requests
    BY <1>5, <1>7 DEF IInv, SnapshotsHold
  <2> QED
    BY <1>1, <1>4, <1>7, <2>1 DEF SnapshotHolds
<1>10. DecisionsHold'
  <2> SUFFICES ASSUME NEW c \in DOMAIN request PROVE DecisionHolds(c)'
    BY <1>1 DEF DecisionsHold
  <2>1. DecisionHolds(c) /\ ~HoldsOrganization(c)' /\ ~SharesOrganization(c)'
    BY <1>1, <1>7 DEF IInv, DecisionsHold
  <2>2. Active(c)' => tx'[c].open = tx[c].open
    BY <1>4, <1>5, <1>7
  <2> QED
    BY <1>1, <1>7, <2>1, <2>2 DEF DecisionHolds
<1>11. ChecksHold'
  <2>1. \A c \in DOMAIN request : NewRow(c)' = NewRow(c)
    BY <1>1, NewRowKept
  <2>2. \A c \in DOMAIN request : Enters(c)' = Enters(c) /\ Others(c)' = Others(c)
    BY <1>1, <2>1 DEF Enters, Checked, Others
  <2>3. RowsApart'
    BY <1>1 DEF IInv, ChecksHold, RowsApart
  <2>4. ASSUME NEW c \in DOMAIN request, Enters(c)' PROVE CheckHolds(c)'
    <3>1. CheckHolds(c)
      BY <2>2, <2>4 DEF IInv, ChecksHold
    <3>2. \A d \in Others(c) : d \in DOMAIN request
      BY DEF Others
    <3> QED
      BY <1>1, <2>1, <2>2, <3>1, <3>2 DEF CheckHolds
  <2> QED
    BY <1>1, <2>3, <2>4 DEF ChecksHold
<1>12. AppliedOnce' /\ SomeoneAhead'
  BY <1>1 DEF IInv, AppliedOnce, Ended, SomeoneAhead, Ahead, Lost, Active
<1> QED
  BY <1>6, <1>8, <1>9, <1>10, <1>11, <1>12 DEF IInv

\* Nothing changes.
LEMMA StutterKeepsIInv ==
    ASSUME IInv, UNCHANGED vars
    PROVE  IInv'
<1>1. /\ table' = table /\ open' = open /\ orgChanges' = orgChanges /\ request' = request
      /\ pc' = pc /\ tries' = tries /\ tx' = tx /\ failure' = failure /\ answer' = answer
      /\ applied' = applied /\ lost' = lost
  BY DEF vars
<1>2. \A c : NewRow(c)' = NewRow(c)
  BY <1>1, NewRowKept
<1>3. Typed'
  BY <1>1 DEF IInv, Typed, TypeOK
<1>4. Named' /\ Serialized'
  BY <1>1 DEF IInv, Named, Serialized, Creates, HoldsOrganization, SharesOrganization, Written
<1>5. SnapshotsHold' /\ DecisionsHold'
  BY <1>1 DEF IInv, SnapshotsHold, SnapshotHolds, DecisionsHold, DecisionHolds, Active, Creates,
     HoldsOrganization, SharesOrganization, Written
<1>6. ChecksHold'
  BY <1>1, <1>2 DEF IInv, ChecksHold, RowsApart, CheckHolds, Enters, Checked, Others
<1>7. AppliedOnce' /\ SomeoneAhead'
  BY <1>1 DEF IInv, AppliedOnce, Ended, SomeoneAhead, Ahead, Lost, Active
<1> QED
  BY <1>3, <1>4, <1>5, <1>6, <1>7 DEF IInv

-----------------------------------------------------------------------------
(* Every step.                                                             *)

\* A step of a request commits, submits, or advances it alone.
LEMMA StepCases ==
    ASSUME IInv, Next
    PROVE  \/ \E c \in Requests : Submit(c) \/ Advance(c) \/ Committed(c)
           \/ ChangeOrganization
           \/ UNCHANGED vars
<1>1. ASSUME NEW c \in Requests, Step(c) PROVE Advance(c) \/ Committed(c)
  <2>1. Commit(c) => Committed(c)
    <3>1. Commit(c) => c \in DOMAIN request
      BY Submitted DEF Commit, IInv
    <3> QED
      BY <3>1 DEF Commit, Committed
  <2> QED
    BY <1>1, <2>1, BeginAdvances, LockAdvances, WriteAdvances, ExcludeAdvances,
       ReferenceAdvances, VictimAdvances, HandleAdvances DEF Step
<1>2. ASSUME NEW c \in Requests, LoseConnection(c) PROVE Advance(c) \/ Committed(c)
  <2>1. CASE Active(c) /\ Rollback(c, "connection_lost")
    BY <1>2, <2>1, FailureAdvances DEF LoseConnection
  <2>2. CASE pc[c] = "committing" /\ Apply(c) /\ Raise(c, "connection_lost")
             /\ UNCHANGED <<open, orgChanges, request, tries>>
    <3>1. c \in DOMAIN request
      BY <2>2, Submitted DEF IInv
    <3> QED
      BY <1>2, <2>2, <3>1 DEF LoseConnection, Committed
  <2> QED
    BY <1>2, <2>1, <2>2 DEF LoseConnection
<1>3. ASSUME NEW c \in Requests, SerializationFailure(c) PROVE Advance(c)
  BY <1>3, FailureAdvances
<1> QED
  BY <1>1, <1>2, <1>3 DEF Next, Rest

\* The invariant holds at the start and is kept by every step.
LEMMA InitIInv == Init => IInv
<1> SUFFICES ASSUME Init PROVE IInv
  OBVIOUS
<1>1. Typed
  <2>1. tx \in [Requests -> Attempt]
    BY NoAttemptTyped DEF Init
  <2>2. \A c \in Requests :
          /\ DOMAIN tx[c].snapshot \subseteq Requests
          /\ tx[c].snapshot \in [DOMAIN tx[c].snapshot -> Row]
          /\ tx[c].open \in BOOLEAN
          /\ tx[c].stale \subseteq Requests
          /\ tx[c].orgStale \in BOOLEAN
    BY <2>1, SnapshotIs DEF Attempt
  <2>3. tries \in [Requests -> Tries]
    BY DEF Init, FirstTry, Tries
  <2>4. DOMAIN table \subseteq Requests /\ table \in [DOMAIN table -> Row]
        /\ DOMAIN request = {} /\ request \in [DOMAIN request -> Request]
    BY DEF Init, NoTable
  <2>5. pc \in [Requests -> Location] /\ failure \in [Requests -> Failure]
        /\ answer \in [Requests -> Answer] /\ applied \in [Requests -> Nat]
        /\ open \in BOOLEAN /\ orgChanges \in 0 .. MaxOrgChanges /\ lost \in 0 .. MaxLost
    BY DEF Init, Location, Failure, Answer
  <2>6. \A c \in Requests : pc[c] # "idle" <=> c \in DOMAIN request
    BY <2>4 DEF Init
  <2> QED
    BY <2>1, <2>2, <2>3, <2>4, <2>5, <2>6 DEF Typed, TypeOK
<1>2. DOMAIN request = {} /\ DOMAIN table = {}
  BY DEF Init, NoTable
<1>3. Named /\ Serialized /\ SnapshotsHold /\ DecisionsHold /\ ChecksHold
  BY <1>2 DEF Named, Serialized, SnapshotsHold, DecisionsHold, ChecksHold, RowsApart
<1>4. AppliedOnce /\ SomeoneAhead
  BY <1>2 DEF Init, AppliedOnce, Ended, SomeoneAhead, Lost
<1> QED
  BY <1>1, <1>3, <1>4 DEF IInv

\* Every step of every request, and every stutter, keeps the invariant.
LEMMA NextKeepsIInv == IInv /\ [Next]_vars => IInv'
BY StepCases, SubmitKeepsIInv, AdvanceKeepsIInv, CommitKeepsIInv, ChangeKeepsIInv, StutterKeepsIInv

-----------------------------------------------------------------------------
(* Theorems.                                                               *)

\* Every reachable state satisfies the inductive invariant.
THEOREM Invariance == Spec => []IInv
BY InitIInv, NextKeepsIInv, PTL DEF Spec

\* Whatever is retried, rolled back or lost on the way, the client is told what
\* happened: a success took effect exactly once, a refusal not at all.
THEOREM AnswersStayConsistent == Spec => []AnswersConsistent
<1>1. IInv => AnswersConsistent
  <2> SUFFICES ASSUME IInv PROVE AppliedAsAnswered
    BY DEF AnswersConsistent, IInv, Typed
  <2> SUFFICES ASSUME NEW c \in Requests
               PROVE  /\ applied[c] <= 1
                      /\ answer[c] = "ok" => applied[c] = 1
                      /\ answer[c] \notin {"none", "ok", "error"} => applied[c] = 0
    BY DEF AppliedAsAnswered
  <2>1. Ended(c) /\ applied[c] \in Nat
    BY DEF IInv, AppliedOnce, Typed, TypeOK
  <2>2. answer[c] \notin {"none", "ok", "error"} => failure[c] # "connection_lost"
    BY <2>1 DEF Ended
  <2> QED
    BY <2>1, <2>2 DEF Ended
<1> QED
  BY <1>1, Invariance, PTL

\* Requests never refuse each other all: once everyone is answered, behind a
\* booking_conflict there is a success, an error or a closed organization.
THEOREM ConflictsHaveWinners == Spec => []ConflictHasWinner
<1>1. IInv => ConflictHasWinner
  <2> SUFFICES ASSUME IInv, \A c \in Requests : pc[c] = "answered",
                      NEW d \in Requests, answer[d] = "booking_conflict"
               PROVE  \E c \in Requests : answer[c] \in {"ok", "error", "closed"}
    BY DEF ConflictHasWinner
  <2>1. PICK c \in Requests : Ahead(c)
    BY DEF IInv, SomeoneAhead, Lost
  <2>2. pc[c] = "answered" /\ Ended(c)
    BY DEF IInv, AppliedOnce
  <2>3. answer[c] \in {"ok", "error", "closed"} \/ applied[c] = 1
    BY <2>1, <2>2 DEF Ahead, Active, InTransaction
  <2> QED
    BY <2>2, <2>3 DEF Ended
<1> QED
  BY <1>1, Invariance, PTL

\* Only a commit touches the bookings.
LEMMA TableChanges ==
    ASSUME IInv, [Next]_vars, table' # table
    PROVE  \E c \in Requests : Committed(c)
<1>1. \A c \in Requests : Submit(c) => table' = table
  BY DEF Submit
<1>2. \A c \in Requests : Advance(c) => table' = table
  BY DEF Advance, Alone
<1> QED
  BY <1>1, <1>2, StepCases DEF ChangeOrganization, vars

\* No booking changes while the organization is archived or suspended.
THEOREM ClosedOrganizationIsQuiet == Spec => ClosedOrganizationKeepsBookings
<1>1. IInv /\ [Next]_vars => (table' # table => open)
  BY TableChanges, CommitAlone
<1> QED
  BY <1>1, Invariance, PTL DEF Spec, ClosedOrganizationKeepsBookings

\* A cancelled booking stays as it is.
THEOREM CancellationsAreFinal == Spec => CancellationIsFinal
<1> DEFINE Final == \A b \in DOMAIN table :
                       table[b].status = "cancelled" => table'[b] = table[b]
<1>1. IInv /\ [Next]_vars => Final
  <2> SUFFICES ASSUME IInv, [Next]_vars, NEW b \in DOMAIN table, table[b].status = "cancelled"
               PROVE  table'[b] = table[b]
    OBVIOUS
  <2>1. ASSUME NEW c \in Requests, Committed(c) PROVE table'[b] = table[b]
    <3>1. c \in DOMAIN request /\ pc[c] = "committing" /\ applied[c] = 0
      BY <2>1, RunningFacts DEF Committed, Active, InTransaction
    <3>2. b # request[c].booking
      <4>1. CASE Creates(c)
        <5>1. request[c].booking = c /\ applied[b] = 1
          BY <3>1, <4>1 DEF IInv, Named, AppliedOnce
        <5> QED
          BY <3>1, <5>1
      <4>2. CASE ~Creates(c)
        <5>1. HoldsOrganization(c)
          BY <3>1, <4>2 DEF HoldsOrganization, Written, Creates, Creating
        <5>2. table[request[c].booking].status = RequiredStatus(request[c].kind)
          BY <3>1, <4>2, <5>1 DEF IInv, DecisionsHold, DecisionHolds
        <5> QED
          BY <5>2 DEF RequiredStatus
      <4> QED
        BY <4>1, <4>2
    <3> QED
      BY <2>1, <3>2, CommitRows
  <2> QED
    BY <2>1, TableChanges
<1> QED
  BY <1>1, Invariance, PTL DEF Spec, CancellationIsFinal

-----------------------------------------------------------------------------
(* Racing transactions implement the calendar.                             *)

Holding == {b \in DOMAIN table : Confirmed(table[b])}

\* The calendar's view of the table.
LEMMA HeldRows ==
    ASSUME Typed
    PROVE  /\ DOMAIN Held = Holding
           /\ \A b \in Holding : Held[b] = table[b].slot /\ table[b].slot \in BookedCalendar!Slot
BY DEF Typed, TypeOK, Row, Held, Holding, BookedCalendar!Slot

\* A commit takes, moves or gives up the slot of one booking, never into
\* another booking's time.
LEMMA CommitStepsCalendar ==
    ASSUME IInv, NEW c \in Requests, Committed(c)
    PROVE  BookedCalendar!Next \/ UNCHANGED Held
<1> DEFINE b == request[c].booking
<1>1. /\ b \in Requests
      /\ DOMAIN table' = DOMAIN table \cup {b}
      /\ table'[b] = NewRow(c)
      /\ \A a \in DOMAIN table : a # b => table'[a] = table[a]
  BY CommitRows
<1>2. Typed' /\ Typed
  BY CommitKeepsIInv DEF IInv
<1>3. Confirmed(NewRow(c)) => CheckHolds(c)
  BY DEF IInv, ChecksHold, Enters, Checked, Committed
<1>4. \A a \in DOMAIN table \ {b} :
        Confirmed(NewRow(c)) /\ Confirmed(table[a]) => Apart(table[a].slot, NewRow(c).slot)
  BY <1>3 DEF CheckHolds
<1> HIDE DEF b
<1>5. \A a : a # b => (a \in Holding' <=> a \in Holding)
  BY <1>1 DEF Holding
<1>6. b \in Holding' <=> Confirmed(NewRow(c))
  BY <1>1 DEF Holding
<1>7. DOMAIN Held = Holding /\ DOMAIN Held' = Holding'
  BY DEF Held, Holding
<1>8. \A a \in Holding \ {b} : Held'[a] = Held[a]
  <2>1. \A a \in Holding \ {b} : a \in Holding' /\ table'[a] = table[a]
    BY <1>1, <1>5 DEF Holding
  <2> QED
    BY <2>1 DEF Held, Holding
<1>9. CASE Confirmed(NewRow(c))
  <2>1. Holding' = Holding \cup {b}
    BY <1>5, <1>6, <1>9
  <2>2. Held' = [a \in Holding \cup {b} |-> IF a = b THEN Held'[b] ELSE Held[a]]
    <3>1. Held' = [a \in Holding' |-> Held'[a]]
      BY DEF Held, Holding
    <3> QED
      BY <1>8, <2>1, <3>1
  <2>3. Held'[b] = NewRow(c).slot /\ Held'[b] \in BookedCalendar!Slot
    <3>1. b \in Holding'
      BY <2>1
    <3>2. Held'[b] = table'[b].slot
      BY <3>1 DEF Held, Holding
    <3>3. NewRow(c).slot \in Slots
      BY NewRowTyped DEF IInv, Committed, Row
    <3> QED
      BY <1>1, <3>2, <3>3 DEF BookedCalendar!Slot
  <2>4. \A a \in Holding \ {b} : BookedCalendar!Disjoint(Held'[b], Held[a])
    <3> SUFFICES ASSUME NEW a \in Holding \ {b}
                 PROVE  BookedCalendar!Disjoint(Held'[b], Held[a])
      OBVIOUS
    <3>1. Held[a] = table[a].slot /\ Held[a] \in BookedCalendar!Slot
      BY <1>2, HeldRows
    <3>2. Apart(Held[a], Held'[b])
      BY <1>4, <1>9, <2>3, <3>1 DEF Holding
    <3> QED
      BY <2>3, <3>1, <3>2 DEF Apart, Overlapping, BookedCalendar!Disjoint, BookedCalendar!Slot
  <2>5. BookedCalendar!Hold(b)
    BY <1>7, <2>1, <2>2, <2>3, <2>4 DEF BookedCalendar!Hold
  <2> QED
    BY <1>1, <2>5 DEF BookedCalendar!Next
<1>10. CASE ~Confirmed(NewRow(c))
  <2>1. Holding' = Holding \ {b}
    BY <1>5, <1>6, <1>10
  <2>2. Held' = [a \in Holding \ {b} |-> Held[a]]
    <3>1. Held' = [a \in Holding' |-> Held'[a]]
      BY DEF Held, Holding
    <3> QED
      BY <1>8, <2>1, <3>1
  <2>3. CASE b \in Holding
    <3>1. BookedCalendar!Release(b)
      BY <1>7, <2>2, <2>3 DEF BookedCalendar!Release
    <3> QED
      BY <1>1, <3>1 DEF BookedCalendar!Next
  <2>4. CASE b \notin Holding
    <3>1. Holding \ {b} = Holding
      BY <2>4
    <3>2. Held = [a \in Holding |-> Held[a]]
      BY DEF Held, Holding
    <3> QED
      BY <2>2, <3>1, <3>2
  <2> QED
    BY <2>3, <2>4
<1> QED
  BY <1>9, <1>10

\* However the attempts interleave, the bookings behave as the calendar: the
\* exclusion constraint with the waits it implies is enough, although most
\* operations decide on an old snapshot.
THEOREM RacesKeepTheCalendar == Spec => ImplementsCalendar
<1>1. Init => BookedCalendar!Init
  <2> SUFFICES ASSUME Init PROVE BookedCalendar!Init
    OBVIOUS
  <2>1. Holding = {}
    BY DEF Init, NoTable, Holding
  <2> QED
    BY <2>1 DEF Held, Holding, BookedCalendar!Init
<1>2. IInv /\ [Next]_vars => [BookedCalendar!Next]_Held
  <2> SUFFICES ASSUME IInv, [Next]_vars PROVE [BookedCalendar!Next]_Held
    OBVIOUS
  <2>1. CASE \E c \in Requests : Committed(c)
    BY <2>1, CommitStepsCalendar
  <2>2. CASE table' = table
    BY <2>2 DEF Held
  <2> QED
    BY <2>1, <2>2, TableChanges
<1> QED
  BY <1>1, <1>2, Invariance, PTL DEF Spec, ImplementsCalendar, BookedCalendar!Spec

\* Confirmed bookings of a resource never overlap, in any race.
THEOREM NoDoubleBooking == Spec => []NoOverlap
<1>1. IInv => NoOverlap
  <2> SUFFICES ASSUME IInv, NEW a \in Holding, NEW b \in Holding, a # b
               PROVE  BookedCalendar!Disjoint(Held[a], Held[b])
    BY HeldRows DEF IInv, NoOverlap, BookedCalendar!NoDoubleBooking
  <2>1. /\ Held[a] = table[a].slot /\ Held[a] \in BookedCalendar!Slot
        /\ Held[b] = table[b].slot /\ Held[b] \in BookedCalendar!Slot
    BY HeldRows DEF IInv
  <2>2. Apart(Held[a], Held[b])
    BY <2>1 DEF IInv, ChecksHold, RowsApart, Holding
  <2> QED
    BY <2>1, <2>2 DEF Apart, Overlapping, BookedCalendar!Disjoint, BookedCalendar!Slot
<1> QED
  BY <1>1, Invariance, PTL
=============================================================================
