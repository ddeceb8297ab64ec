------------------------ MODULE BuyerIdentity_proofs ------------------------
(* Proofs about BuyerIdentity: a scrubbed row is unlinked for good, the      *)
(* redaction of the last relationship scrubs, and a purge waits for the      *)
(* retention period, for any number of merchants and rows.                   *)
EXTENDS BuyerIdentity, TLAPS

USE RowAssumption, BoundAssumption

BuyerType  == [exists : BOOLEAN, email : BOOLEAN, clerk : BOOLEAN, anon : BOOLEAN]
ReviewType == [at : {"idle", "commit"}, row : RowOrNone, doomed : BOOLEAN]
RedactType == [at : {"idle", "unlink"}, row : RowOrNone]
ShopType   == [active : BOOLEAN, age : Ages]
PurgeType  == [at : {"idle", "count", "anonymize"}, row : RowOrNone, todo : SUBSET Rows]

\* Whoever is about to scrub a row has one.
BusyInv ==
    \A m \in Merchants :
        /\ review[m].at = "commit" => review[m].row \in Rows
        /\ redact[m].at = "unlink" => redact[m].row \in Rows
        /\ purge[m].at = "anonymize" => purge[m].row \in Rows

Types == TypeOK /\ BusyInv

\* The values the actions store.
LEMMA Shapes ==
    /\ Idle \in RedactType /\ Idle.at = "idle"
    /\ NoPurge \in PurgeType /\ NoPurge.at = "idle" /\ Nobody \in BuyerType
    /\ [at |-> "idle", row |-> NoRow, doomed |-> FALSE] \in ReviewType
    /\ \A b \in Rows : /\ [at |-> "commit", row |-> b, doomed |-> FALSE] \in ReviewType
                       /\ [at |-> "unlink", row |-> b] \in RedactType
    /\ \A s \in ReviewType : [s EXCEPT !.doomed = TRUE] \in ReviewType
    /\ [exists |-> TRUE, email |-> TRUE, clerk |-> TRUE, anon |-> FALSE] \in BuyerType
    /\ [active |-> TRUE, age |-> NotGone] \in ShopType
    /\ 0 \in Ages /\ NotGone \in Ages
  <1>1. NotGone \in Ages /\ 0 \in Ages
    BY DEF Ages, NotGone
  <1> QED
    BY <1>1 DEF Idle, NoPurge, Nobody, RedactType, PurgeType, BuyerType, ReviewType, ShopType, RowOrNone

\* TypeOK in these terms.
LEMMA Typed ==
    TypeOK <=>
        /\ buyer \in [Rows -> BuyerType] /\ rel \in [Merchants -> SUBSET Rows]
        /\ review \in [Merchants -> ReviewType] /\ redact \in [Merchants -> RedactType]
        /\ pending \subseteq Merchants /\ purged \subseteq Merchants
        /\ shop \in [Merchants -> ShopType]
        /\ cleanup \in [Merchants -> {"none", "queued", "schedule"}]
        /\ timers \in [Merchants -> SUBSET (0..Retention)]
        /\ purge \in [Merchants -> PurgeType]
        /\ faults \in 0..MaxFaults /\ away \in [Merchants -> 0..Retention]
  BY DEF TypeOK, BuyerType, ReviewType, RedactType, ShopType, PurgeType

\* What scrubbing a row does.
LEMMA Scrubs ==
    ASSUME TypeOK, NEW b \in Rows, Anonymize(b)
    PROVE  /\ buyer' \in [Rows -> BuyerType]
           /\ buyer'[b].anon /\ buyer'[b].exists /\ ~buyer'[b].email /\ ~buyer'[b].clerk
           /\ \A c \in Rows \ {b} : buyer'[c] = buyer[c]
  <1> DEFINE blank == [Nobody EXCEPT !.exists = TRUE, !.anon = TRUE]
  <1>1. blank \in BuyerType /\ blank.anon /\ blank.exists /\ ~blank.email /\ ~blank.clerk
    BY DEF Nobody, BuyerType
  <1>2. buyer' = [buyer EXCEPT ![b] = blank]
    BY DEF Anonymize
  <1> HIDE DEF blank
  <1> QED
    BY <1>1, <1>2, Typed

\* What a registration that creates a row does.
LEMMA Creates ==
    ASSUME TypeOK, NEW m \in Merchants, Apply(m)
    PROVE  \/ UNCHANGED buyer
           \/ \E b \in Rows : /\ ~buyer[b].exists /\ ByEmail \cup ByClerk = {}
                              /\ buyer' \in [Rows -> BuyerType]
                              /\ buyer'[b].exists /\ buyer'[b].email /\ buyer'[b].clerk /\ ~buyer'[b].anon
                              /\ \A c \in Rows \ {b} : buyer'[c] = buyer[c]
  <1> DEFINE new == {b \in Rows : ~buyer[b].exists}
             r   == [exists |-> TRUE, email |-> TRUE, clerk |-> TRUE, anon |-> FALSE]
  <1>1. CASE ByEmail \cup ByClerk # {}
    BY <1>1 DEF Apply
  <1>2. CASE ByEmail \cup ByClerk = {}
    <2>1. new # {} /\ buyer' = [buyer EXCEPT ![CHOOSE b \in new : TRUE] = r]
      BY <1>2 DEF Apply
    <2>2. r \in BuyerType /\ r.exists /\ r.email /\ r.clerk /\ ~r.anon
      BY DEF BuyerType
    <2>3. PICK b \in new : b = CHOOSE c \in new : TRUE
      BY <2>1
    <2> HIDE DEF r
    <2>4. b \in Rows /\ ~buyer[b].exists /\ buyer' = [buyer EXCEPT ![b] = r]
      BY <2>1, <2>3
    <2> QED
      BY <1>2, <2>2, <2>4, Typed
  <1> QED
    BY <1>1, <1>2

\* The initial states.
LEMMA InitTypes == Init => Types
  <1> SUFFICES ASSUME Init PROVE TypeOK /\ BusyInv
    BY DEF Types
  <1>1. /\ buyer \in [Rows -> BuyerType] /\ rel \in [Merchants -> SUBSET Rows]
        /\ review \in [Merchants -> ReviewType] /\ redact \in [Merchants -> RedactType]
        /\ purge \in [Merchants -> PurgeType] /\ shop \in [Merchants -> ShopType]
    BY Shapes DEF Init
  <1>2. /\ pending \subseteq Merchants /\ purged \subseteq Merchants
        /\ cleanup \in [Merchants -> {"none", "queued", "schedule"}]
        /\ timers \in [Merchants -> SUBSET (0..Retention)]
        /\ faults \in 0..MaxFaults /\ away \in [Merchants -> 0..Retention]
    BY DEF Init
  <1>3. BusyInv
    BY Shapes DEF Init, BusyInv
  <1> QED
    BY <1>1, <1>2, <1>3, Typed

\* Every step of a person or a reviewer keeps the types.
LEMMA PeopleTypes ==
    ASSUME Types, NEW m \in Merchants,
           Apply(m) \/ Review(m) \/ EraseBuyer(m) \/ Redaction(m)
    PROVE  TypeOK' /\ BusyInv'
  <1>0. TypeOK /\ BusyInv
    BY DEF Types
  <1>20. /\ buyer \in [Rows -> BuyerType] /\ rel \in [Merchants -> SUBSET Rows]
        /\ review \in [Merchants -> ReviewType] /\ redact \in [Merchants -> RedactType]
        /\ pending \subseteq Merchants /\ purge \in [Merchants -> PurgeType]
    BY <1>0, Typed
  <1>21. UNCHANGED <<shop, cleanup, timers, purge, purged, away, faults>>
    BY DEF Apply, Review, ApproveRead, ApproveCommit, RejectApplication, EraseBuyer, Redaction,
           FindBuyer, Unlink, shops
  <1>22. ASSUME buyer' \in [Rows -> BuyerType], rel' \in [Merchants -> SUBSET Rows],
                  review' \in [Merchants -> ReviewType], redact' \in [Merchants -> RedactType],
                  pending' \subseteq Merchants
           PROVE  TypeOK'
    <2>1. /\ shop' = shop /\ cleanup' = cleanup /\ timers' = timers /\ purge' = purge
          /\ purged' = purged /\ away' = away /\ faults' = faults
      BY <1>21
    <2> QED
      BY <1>0, <1>22, <2>1 DEF TypeOK, BuyerType, ReviewType, RedactType
  <1>1. CASE Apply(m)
    <2>1. UNCHANGED <<rel, review, redact>> /\ pending' = pending \cup {m}
      BY <1>1 DEF Apply
    <2>2. buyer' \in [Rows -> BuyerType]
      BY <1>0, <1>1, <1>20, Creates
    <2>3. TypeOK'
      BY <1>20, <1>22, <2>1, <2>2
    <2>4. BusyInv'
      BY <1>0, <1>21, <2>1 DEF BusyInv
    <2> QED
      BY <2>3, <2>4
  <1>2. CASE ApproveRead(m)
    <2>1. UNCHANGED <<buyer, rel, pending, redact>>
      BY <1>2 DEF ApproveRead
    <2>2. PICK b \in Rows : review' = [review EXCEPT ![m] = [at |-> "commit", row |-> b, doomed |-> FALSE]]
      BY <1>2 DEF ApproveRead, ByEmail
    <2> DEFINE r == [at |-> "commit", row |-> b, doomed |-> FALSE]
    <2>3. r \in ReviewType /\ r.row = b /\ review' = [review EXCEPT ![m] = r]
      BY <2>2, Shapes
    <2> HIDE DEF r
    <2>4. review' \in [Merchants -> ReviewType]
      BY <1>20, <2>3
    <2>5. TypeOK'
      BY <1>20, <1>22, <2>1, <2>4
    <2>6. BusyInv'
      BY <1>0, <1>20, <1>21, <2>1, <2>3 DEF BusyInv
    <2> QED
      BY <2>5, <2>6
  <1>3. CASE ApproveCommit(m)
    <2> DEFINE r == [at |-> "idle", row |-> NoRow, doomed |-> FALSE]
    <2>1. UNCHANGED <<buyer, redact>> /\ review[m].row \in Rows
      BY <1>0, <1>3 DEF ApproveCommit, BusyInv
    <2>2. r \in ReviewType /\ r.at = "idle" /\ review' = [review EXCEPT ![m] = r]
      BY <1>3, Shapes DEF ApproveCommit
    <2> HIDE DEF r
    <2>3. \/ UNCHANGED <<rel, pending>>
          \/ rel' = [rel EXCEPT ![m] = rel[m] \cup {review[m].row}] /\ pending' = pending \ {m}
      BY <1>3 DEF ApproveCommit
    <2>4. /\ review' \in [Merchants -> ReviewType] /\ rel' \in [Merchants -> SUBSET Rows]
          /\ pending' \subseteq Merchants
      BY <1>20, <2>1, <2>2, <2>3
    <2>5. TypeOK'
      BY <1>20, <1>22, <2>1, <2>4
    <2>6. BusyInv'
      BY <1>0, <1>20, <1>21, <2>1, <2>2 DEF BusyInv
    <2> QED
      BY <2>5, <2>6
  <1>4. CASE RejectApplication(m)
    <2>1. UNCHANGED <<buyer, rel, review, redact>> /\ pending' = pending \ {m}
      BY <1>4 DEF RejectApplication
    <2>2. TypeOK'
      BY <1>20, <1>22, <2>1
    <2>3. BusyInv'
      BY <1>0, <1>21, <2>1 DEF BusyInv
    <2> QED
      BY <2>2, <2>3
  <1>5. CASE EraseBuyer(m)
    <2>1. UNCHANGED <<rel, pending, review, redact>>
      BY <1>5 DEF EraseBuyer
    <2>2. PICK b \in Rows : Anonymize(b)
      BY <1>5, <1>20 DEF EraseBuyer
    <2>3. TypeOK'
      BY <1>0, <1>20, <1>22, <2>1, <2>2, Scrubs
    <2>4. BusyInv'
      BY <1>0, <1>21, <2>1 DEF BusyInv
    <2> QED
      BY <2>3, <2>4
  <1>6. CASE FindBuyer(m)
    <2>1. UNCHANGED <<buyer, rel, pending, review>>
      BY <1>6 DEF FindBuyer
    <2>2. PICK b \in Rows : redact' = [redact EXCEPT ![m] = [at |-> "unlink", row |-> b]]
      BY <1>6 DEF FindBuyer, ByEmail
    <2> DEFINE r == [at |-> "unlink", row |-> b]
    <2>3. r \in RedactType /\ r.row = b /\ redact' = [redact EXCEPT ![m] = r]
      BY <2>2, Shapes
    <2> HIDE DEF r
    <2>4. redact' \in [Merchants -> RedactType]
      BY <1>20, <2>3
    <2>5. TypeOK'
      BY <1>20, <1>22, <2>1, <2>4
    <2>6. BusyInv'
      BY <1>0, <1>20, <1>21, <2>1, <2>3 DEF BusyInv
    <2> QED
      BY <2>5, <2>6
  <1>7. CASE Unlink(m)
    <2> DEFINE b == redact[m].row
    <2>1. UNCHANGED pending /\ b \in Rows /\ rel' = [rel EXCEPT ![m] = rel[m] \ {b}]
      BY <1>0, <1>7 DEF Unlink, BusyInv
    <2>2. redact' = [redact EXCEPT ![m] = Idle]
      BY <1>7 DEF Unlink
    <2>3. redact' \in [Merchants -> RedactType] /\ rel' \in [Merchants -> SUBSET Rows]
      BY <1>20, <2>1, <2>2, Shapes
    <2>4. \/ UNCHANGED <<buyer, review>>
          \/ /\ Anonymize(b)
             /\ review' = [k \in Merchants |->
                    IF review[k].row = b THEN [review[k] EXCEPT !.doomed = TRUE] ELSE review[k]]
      BY <1>7 DEF Unlink
    <2>5. buyer' \in [Rows -> BuyerType]
      BY <1>0, <1>20, <2>1, <2>4, Scrubs
    <2>6. /\ review' \in [Merchants -> ReviewType]
          /\ \A k \in Merchants : review'[k].at = review[k].at /\ review'[k].row = review[k].row
      <3>1. CASE UNCHANGED <<buyer, review>>
        BY <1>20, <3>1
      <3>2. CASE review' = [k \in Merchants |->
                    IF review[k].row = b THEN [review[k] EXCEPT !.doomed = TRUE] ELSE review[k]]
        <4>1. ASSUME NEW k \in Merchants
              PROVE  /\ review'[k] \in ReviewType
                     /\ review'[k].at = review[k].at /\ review'[k].row = review[k].row
          <5>1. review[k] \in ReviewType
            BY <1>20
          <5>2. review'[k] = [review[k] EXCEPT !.doomed = TRUE] \/ review'[k] = review[k]
            BY <3>2
          <5> QED
            BY <5>1, <5>2 DEF ReviewType
        <4> QED
          BY <3>2, <4>1
      <3> QED
        BY <2>4, <3>1, <3>2
    <2>7. TypeOK'
      BY <1>20, <1>22, <2>1, <2>3, <2>5, <2>6
    <2>8. BusyInv'
      <3>1. \A k \in Merchants : redact'[k].at = "unlink" => redact[k].at = "unlink" /\ redact'[k] = redact[k]
        BY <1>20, <2>2, Shapes
      <3> QED
        BY <1>0, <1>21, <2>6, <3>1 DEF BusyInv
    <2> QED
      BY <2>7, <2>8
  <1> QED
    BY <1>1, <1>2, <1>3, <1>4, <1>5, <1>6, <1>7 DEF Review, Redaction

\* A purge starts with the merchant's rows.
LEMMA Begins ==
    ASSUME TypeOK, NEW m \in Merchants
    PROVE  /\ Begin(m) \in PurgeType /\ Begin(m).at \in {"idle", "count"}
           /\ Begin(m).at = "count" => Eligible(m) /\ Begin(m).todo = rel[m]
  <1>1. rel[m] \in SUBSET Rows /\ NoPurge \in PurgeType /\ NoPurge.at = "idle"
    BY Typed, Shapes
  <1> DEFINE r == [NoPurge EXCEPT !.at = "count", !.todo = rel[m]]
  <1>2. r \in PurgeType /\ r.at = "count" /\ r.todo = rel[m]
    BY <1>1 DEF PurgeType
  <1>3. Begin(m) = IF Eligible(m) THEN r ELSE NoPurge
    BY DEF Begin
  <1> HIDE DEF r
  <1> QED
    BY <1>1, <1>2, <1>3

\* What a step of a purge leaves in its place.
LEMMA PurgeSteps ==
    ASSUME Types, NEW m \in Merchants, Purging(m) \/ ShopRedact(m) \/ FailPurge(m)
    PROVE  \E k \in PurgeType :
              /\ purge' = [purge EXCEPT ![m] = k]
              /\ k.at = "anonymize" => k.row \in purge[m].todo
              /\ \/ k.at = "idle"
                 \/ purge[m].at = "idle" /\ Eligible(m) /\ k.at = "count" /\ k.todo = rel[m]
                 \/ purge[m].at # "idle" /\ k.todo \subseteq purge[m].todo
  <1>0. TypeOK /\ BusyInv
    BY DEF Types
  <1>1. purge[m] \in PurgeType /\ purge[m].todo \in SUBSET Rows
    BY <1>0, Typed DEF PurgeType
  <1>2. NoPurge \in PurgeType /\ NoPurge.at = "idle"
    BY Shapes
  <1>3. CASE StartPurge(m) \/ ShopRedact(m)
    <2>1. purge[m].at = "idle" /\ purge' = [purge EXCEPT ![m] = Begin(m)]
      BY <1>3 DEF StartPurge, ShopRedact
    <2> QED
      BY <1>0, <2>1, Begins
  <1>4. CASE EndPurge(m) \/ FailPurge(m)
    BY <1>2, <1>4 DEF EndPurge, FailPurge
  <1>5. CASE PurgeBuyer(m)
    <2> DEFINE k == [purge[m] EXCEPT !.at = "count", !.row = NoRow]
    <2>1. k \in PurgeType /\ k.at = "count" /\ k.todo = purge[m].todo
      BY <1>1 DEF PurgeType, RowOrNone
    <2>2. purge[m].at # "idle" /\ purge' = [purge EXCEPT ![m] = k]
      BY <1>5 DEF PurgeBuyer
    <2> HIDE DEF k
    <2> QED
      BY <2>1, <2>2
  <1>6. CASE CountOthers(m)
    <2> DEFINE last(c) == [at |-> "anonymize", row |-> c, todo |-> purge[m].todo \ {c}]
               other(c) == [at |-> "count", row |-> NoRow, todo |-> purge[m].todo \ {c}]
    <2>1. PICK b \in purge[m].todo : \E k \in {last(b), other(b)} : purge' = [purge EXCEPT ![m] = k]
      BY <1>6 DEF CountOthers
    <2>4. PICK k \in {last(b), other(b)} : purge' = [purge EXCEPT ![m] = k]
      BY <2>1
    <2>2. /\ k \in PurgeType /\ k.todo = purge[m].todo \ {b}
          /\ k.at = "anonymize" => k.row = b
      BY <1>1, <2>1, <2>4 DEF PurgeType, RowOrNone
    <2>3. purge[m].at # "idle"
      BY <1>6 DEF CountOthers
    <2> HIDE DEF last, other
    <2> QED
      BY <2>1, <2>2, <2>3, <2>4
  <1> QED
    BY <1>3, <1>4, <1>5, <1>6 DEF Purging

\* A step of a purge keeps the types.
LEMMA PurgeTypes ==
    ASSUME Types, NEW m \in Merchants, Purging(m) \/ ShopRedact(m) \/ FailPurge(m)
    PROVE  TypeOK' /\ BusyInv'
  <1>0. TypeOK /\ BusyInv
    BY DEF Types
  <1>1. UNCHANGED <<rel, pending, review, redact, shop, cleanup, away>>
    BY DEF Purging, ShopRedact, FailPurge, StartPurge, CountOthers, PurgeBuyer, EndPurge, people
  <1>2. PICK k \in PurgeType :
           purge' = [purge EXCEPT ![m] = k] /\ (k.at = "anonymize" => k.row \in purge[m].todo)
    BY PurgeSteps
  <1>3. purge \in [Merchants -> PurgeType] /\ purge[m].todo \in SUBSET Rows
    BY <1>0, Typed DEF PurgeType
  <1>4. purge' \in [Merchants -> PurgeType]
    BY <1>2, <1>3
  <1>5. purged' \subseteq Merchants /\ faults' \in 0..MaxFaults
    <2>1. UNCHANGED faults \/ (faults < MaxFaults /\ faults' = faults + 1)
      BY DEF Purging, ShopRedact, FailPurge, StartPurge, CountOthers, PurgeBuyer, EndPurge
    <2>2. purged' \subseteq purged \cup {m}
      BY DEF Purging, ShopRedact, FailPurge, StartPurge, CountOthers, PurgeBuyer, EndPurge
    <2> QED
      BY <1>0, <2>1, <2>2 DEF TypeOK
  <1>6. timers' \in [Merchants -> SUBSET (0..Retention)]
    <2>1. timers[m] \in SUBSET (0..Retention) /\ timers \in [Merchants -> SUBSET (0..Retention)]
      BY <1>0 DEF TypeOK
    <2>2. \/ UNCHANGED timers
          \/ timers' = [timers EXCEPT ![m] = timers[m] \ {0}]
          \/ timers' = [timers EXCEPT ![m] = timers[m] \cup {0}]
      BY DEF Purging, ShopRedact, FailPurge, StartPurge, CountOthers, PurgeBuyer, EndPurge
    <2>3. 0 \in 0..Retention
      OBVIOUS
    <2> QED
      BY <2>1, <2>2, <2>3
  <1>7. buyer' \in [Rows -> BuyerType]
    <2>1. UNCHANGED buyer \/ (purge[m].row \in Rows /\ Anonymize(purge[m].row))
      BY <1>0 DEF Purging, ShopRedact, FailPurge, StartPurge, CountOthers, PurgeBuyer, EndPurge,
                  people, BusyInv
    <2> QED
      BY <1>0, <2>1, Scrubs, Typed
  <1>8. TypeOK'
    BY <1>0, <1>1, <1>4, <1>5, <1>6, <1>7 DEF TypeOK, PurgeType, BuyerType
  <1>9. BusyInv'
    BY <1>0, <1>1, <1>2, <1>3 DEF BusyInv
  <1> QED
    BY <1>8, <1>9

\* A step of a merchant's life keeps them.
LEMMA LifeTypes ==
    ASSUME Types, NEW m \in Merchants,
           Uninstall(m) \/ SignIn(m) \/ PaddleEvent(m) \/ Lifecycle(m) \/ FailCleanup(m)
    PROVE  TypeOK' /\ BusyInv'
  <1>0. TypeOK /\ BusyInv
    BY DEF Types
  <1>1. UNCHANGED <<buyer, rel, pending, review, redact, purge>>
    BY DEF Uninstall, SignIn, PaddleEvent, Lifecycle, Deactivate, SchedulePurge, FailCleanup, people
  <1>2. shop' \in [Merchants -> [active : BOOLEAN, age : Ages]]
    <2>1. shop[m] \in ShopType /\ shop \in [Merchants -> ShopType]
      BY <1>0, Typed
    <2>2. \/ UNCHANGED shop
          \/ shop' = [shop EXCEPT ![m] = [active |-> TRUE, age |-> NotGone]]
          \/ shop' = [shop EXCEPT ![m].active = ~shop[m].active]
          \/ shop' = [shop EXCEPT ![m].active = FALSE, ![m].age = 0]
      BY DEF Uninstall, SignIn, PaddleEvent, Lifecycle, Deactivate, SchedulePurge, FailCleanup
    <2>3. CASE shop' = [shop EXCEPT ![m] = [active |-> TRUE, age |-> NotGone]]
      BY <2>1, <2>3, Shapes DEF ShopType
    <2>4. CASE shop' = [shop EXCEPT ![m].active = ~shop[m].active]
      BY <2>1, <2>4 DEF ShopType
    <2>5. CASE shop' = [shop EXCEPT ![m].active = FALSE, ![m].age = 0]
      BY <2>1, <2>5, Shapes DEF ShopType
    <2> QED
      BY <2>1, <2>2, <2>3, <2>4, <2>5 DEF ShopType
  <1>3. cleanup' \in [Merchants -> {"none", "queued", "schedule"}]
    <2>1. \/ UNCHANGED cleanup
          \/ \E label \in {"none", "queued", "schedule"} : cleanup' = [cleanup EXCEPT ![m] = label]
      BY DEF Uninstall, SignIn, PaddleEvent, Lifecycle, Deactivate, SchedulePurge, FailCleanup
    <2> QED
      BY <1>0, <2>1 DEF TypeOK
  <1>4. purged' \subseteq Merchants /\ faults' \in 0..MaxFaults
    <2>1. UNCHANGED faults \/ (faults < MaxFaults /\ faults' = faults + 1)
      BY DEF Uninstall, SignIn, PaddleEvent, Lifecycle, Deactivate, SchedulePurge, FailCleanup
    <2>2. purged' \subseteq purged
      BY DEF Uninstall, SignIn, PaddleEvent, Lifecycle, Deactivate, SchedulePurge, FailCleanup
    <2> QED
      BY <1>0, <2>1, <2>2 DEF TypeOK
  <1>5. away' \in [Merchants -> 0..Retention]
    <2>1. UNCHANGED away \/ away' = [away EXCEPT ![m] = 0]
      BY DEF Uninstall, SignIn, PaddleEvent, Lifecycle, Deactivate, SchedulePurge, FailCleanup
    <2> QED
      BY <1>0, <2>1 DEF TypeOK
  <1>6. timers' \in [Merchants -> SUBSET (0..Retention)]
    <2>1. UNCHANGED timers \/ timers' = [timers EXCEPT ![m] = timers[m] \cup {PurgeDelay}]
      BY DEF Uninstall, SignIn, PaddleEvent, Lifecycle, Deactivate, SchedulePurge, FailCleanup
    <2>2. PurgeDelay \in 0..Retention
      BY DEF PurgeDelay
    <2> QED
      BY <1>0, <2>1, <2>2 DEF TypeOK
  <1>7. TypeOK'
    BY <1>0, <1>1, <1>2, <1>3, <1>4, <1>5, <1>6 DEF TypeOK
  <1>8. BusyInv'
    BY <1>0, <1>1 DEF BusyInv
  <1> QED
    BY <1>7, <1>8

\* So does the clock.
LEMMA TickTypes ==
    ASSUME Types, Tick
    PROVE  TypeOK' /\ BusyInv'
  <1>0. TypeOK /\ BusyInv
    BY DEF Types
  <1>1. UNCHANGED <<buyer, rel, pending, review, redact, cleanup, purge, purged, faults>>
    BY DEF Tick, people
  <1>2. \A n \in Ages : Older(n) \in Ages
    BY DEF Older, Ages, NotGone
  <1>3. \A n \in 0..Retention : Older(n) \in 0..Retention
    BY DEF Older, NotGone
  <1>4. shop' \in [Merchants -> [active : BOOLEAN, age : Ages]]
    <2>1. ASSUME NEW m \in Merchants
          PROVE  [shop[m] EXCEPT !.age = Older(@)] \in ShopType
      <3>1. shop[m] \in ShopType /\ shop[m].age \in Ages
        BY <1>0, Typed DEF ShopType
      <3>2. Older(shop[m].age) \in Ages
        BY <1>2, <3>1
      <3> QED
        BY <3>1, <3>2 DEF ShopType
    <2> QED
      BY <2>1 DEF Tick, ShopType
  <1>5. away' \in [Merchants -> 0..Retention]
    <2>1. ASSUME NEW m \in Merchants
          PROVE  (IF m \in Leavers THEN Older(away[m]) ELSE 0) \in 0..Retention
      BY <1>0, <1>3 DEF TypeOK
    <2> QED
      BY <2>1 DEF Tick
  <1>6. timers' \in [Merchants -> SUBSET (0..Retention)]
    <2>1. ASSUME NEW m \in Merchants
          PROVE  {IF n = 0 THEN 0 ELSE n - 1 : n \in timers[m]} \in SUBSET (0..Retention)
      <3>1. timers[m] \subseteq 0..Retention
        BY <1>0 DEF TypeOK
      <3> QED
        BY <3>1
    <2> QED
      BY <2>1 DEF Tick
  <1>7. TypeOK'
    BY <1>0, <1>1, <1>4, <1>5, <1>6 DEF TypeOK
  <1>8. BusyInv'
    BY <1>0, <1>1 DEF BusyInv
  <1> QED
    BY <1>7, <1>8

\* Every step keeps the types.
LEMMA TypesStep == Types /\ [Next]_vars => Types'
  <1> SUFFICES ASSUME Types, [Next]_vars PROVE TypeOK' /\ BusyInv'
    BY DEF Types
  <1>1. CASE UNCHANGED vars
    BY <1>1 DEF Types, TypeOK, BusyInv, vars, people, shops
  <1> QED
    BY <1>1, PeopleTypes, PurgeTypes, LifeTypes, TickTypes DEF Next

-----------------------------------------------------------------------------
(* The rows.                                                                 *)

\* Who writes what.
LEMMA Writers ==
    ASSUME [Next]_vars
    PROVE  /\ UNCHANGED rel \/ \E m \in Merchants : ApproveCommit(m) \/ Unlink(m)
           /\ UNCHANGED buyer \/ \E m \in Merchants : Apply(m) \/ EraseBuyer(m) \/ Unlink(m) \/ PurgeBuyer(m)
           /\ UNCHANGED review \/ \E m \in Merchants : ApproveRead(m) \/ ApproveCommit(m) \/ Unlink(m)
           /\ UNCHANGED purge \/ \E m \in Merchants : Purging(m) \/ ShopRedact(m) \/ FailPurge(m)
  <1>1. CASE UNCHANGED vars
    BY <1>1 DEF vars, people, shops
  <1>2. CASE Tick
    BY <1>2 DEF Tick, people
  <1>3. ASSUME NEW m \in Merchants, Purging(m) \/ ShopRedact(m) \/ FailPurge(m)
        PROVE  /\ UNCHANGED <<rel, review>>
               /\ UNCHANGED buyer \/ PurgeBuyer(m)
    BY <1>3 DEF Purging, ShopRedact, FailPurge, StartPurge, CountOthers, PurgeBuyer, EndPurge, people
  <1>4. ASSUME NEW m \in Merchants,
               Uninstall(m) \/ SignIn(m) \/ PaddleEvent(m) \/ Lifecycle(m) \/ FailCleanup(m)
        PROVE  UNCHANGED <<rel, buyer, review, purge>>
    BY <1>4 DEF Uninstall, SignIn, PaddleEvent, Lifecycle, Deactivate, SchedulePurge, FailCleanup, people
  <1>5. ASSUME NEW m \in Merchants, Apply(m) \/ Review(m) \/ EraseBuyer(m) \/ Redaction(m)
        PROVE  /\ UNCHANGED rel \/ ApproveCommit(m) \/ Unlink(m)
               /\ UNCHANGED buyer \/ Apply(m) \/ EraseBuyer(m) \/ Unlink(m)
               /\ UNCHANGED review \/ ApproveRead(m) \/ ApproveCommit(m) \/ Unlink(m)
               /\ UNCHANGED purge
    BY <1>5 DEF Apply, Review, ApproveRead, ApproveCommit, RejectApplication, EraseBuyer, Redaction,
                FindBuyer, Unlink, shops
  <1> QED
    BY <1>1, <1>2, <1>3, <1>4, <1>5 DEF Next

\* A row is scrubbed, created or left alone.
LEMMA BuyerSteps ==
    ASSUME Types, [Next]_vars
    PROVE  \/ UNCHANGED buyer
           \/ \E b \in Rows : Anonymize(b)
           \/ \E b \in Rows : /\ ~buyer[b].exists /\ ByEmail \cup ByClerk = {}
                              /\ buyer' \in [Rows -> BuyerType]
                              /\ buyer'[b].exists /\ buyer'[b].email /\ buyer'[b].clerk /\ ~buyer'[b].anon
                              /\ \A c \in Rows \ {b} : buyer'[c] = buyer[c]
  <1>0. TypeOK /\ BusyInv /\ rel \in [Merchants -> SUBSET Rows]
    BY Typed DEF Types
  <1>1. ASSUME NEW m \in Merchants, EraseBuyer(m) PROVE \E b \in Rows : Anonymize(b)
    BY <1>0, <1>1 DEF EraseBuyer
  <1>2. ASSUME NEW m \in Merchants, Unlink(m)
        PROVE  UNCHANGED buyer \/ \E b \in Rows : Anonymize(b)
    <2>1. redact[m].row \in Rows
      BY <1>0, <1>2 DEF Unlink, BusyInv
    <2>2. UNCHANGED buyer \/ Anonymize(redact[m].row)
      BY <1>2 DEF Unlink
    <2> QED
      BY <2>1, <2>2
  <1>3. ASSUME NEW m \in Merchants, PurgeBuyer(m) PROVE \E b \in Rows : Anonymize(b)
    BY <1>0, <1>3 DEF PurgeBuyer, BusyInv
  <1> QED
    BY <1>0, <1>1, <1>2, <1>3, Writers, Creates

\* A row that exists has both handles or is scrubbed, and one row is live.
RowInv ==
    /\ \A b \in Rows : /\ buyer[b].exists /\ ~buyer[b].anon => buyer[b].email /\ buyer[b].clerk
                       /\ buyer[b].anon => buyer[b].exists /\ ~buyer[b].email /\ ~buyer[b].clerk
    /\ \A b, c \in Rows : (buyer[b].exists /\ buyer[c].exists /\ ~buyer[b].anon /\ ~buyer[c].anon)
                              => b = c

\* Every step keeps RowInv, and no row is ever unscrubbed.
LEMMA RowStep == Types /\ RowInv /\ [Next]_vars =>
                     RowInv' /\ \A b \in Rows : buyer[b].anon => buyer'[b].anon
  <1> SUFFICES ASSUME Types, RowInv, [Next]_vars
               PROVE  RowInv' /\ \A b \in Rows : buyer[b].anon => buyer'[b].anon
    OBVIOUS
  <1>0. TypeOK
    BY DEF Types
  <1>1. CASE UNCHANGED buyer
    BY <1>1 DEF RowInv
  <1>2. ASSUME NEW b \in Rows, Anonymize(b)
        PROVE  RowInv' /\ \A c \in Rows : buyer[c].anon => buyer'[c].anon
    <2>1. /\ buyer'[b].anon /\ buyer'[b].exists /\ ~buyer'[b].email /\ ~buyer'[b].clerk
          /\ \A c \in Rows \ {b} : buyer'[c] = buyer[c]
      BY <1>0, <1>2, Scrubs
    <2> QED
      BY <2>1 DEF RowInv
  <1>3. ASSUME NEW b \in Rows, ~buyer[b].exists, ByEmail \cup ByClerk = {},
               buyer'[b].exists, buyer'[b].email, buyer'[b].clerk, ~buyer'[b].anon,
               \A c \in Rows \ {b} : buyer'[c] = buyer[c]
        PROVE  RowInv' /\ \A c \in Rows : buyer[c].anon => buyer'[c].anon
    <2>1. \A c \in Rows : ~buyer[c].email /\ ~buyer[c].clerk
      BY <1>3 DEF ByEmail, ByClerk
    <2>2. \A c \in Rows : buyer[c].exists => buyer[c].anon
      BY <2>1 DEF RowInv
    <2> QED
      BY <1>3, <2>2 DEF RowInv
  <1> QED
    BY <1>1, <1>2, <1>3, BuyerSteps

\* The transaction of customers/redact on row b of merchant m, seen from row c.
LEMMA Unlinks ==
    ASSUME Types, NEW m \in Merchants, Unlink(m), NEW c \in Rows
    PROVE  /\ RelatedTo(c)' = IF c = redact[m].row THEN RelatedTo(c) \ {m} ELSE RelatedTo(c)
           /\ c = redact[m].row /\ RelatedTo(c)' = {} =>
                /\ Anonymize(c)
                /\ \A k \in Merchants : review'[k].row = c => review'[k].doomed
  <1>1. /\ rel \in [Merchants -> SUBSET Rows] /\ rel' = [rel EXCEPT ![m] = rel[m] \ {redact[m].row}]
        /\ review \in [Merchants -> ReviewType]
    BY Typed DEF Types, Unlink
  <1>2. RelatedTo(c)' = IF c = redact[m].row THEN RelatedTo(c) \ {m} ELSE RelatedTo(c)
    BY <1>1 DEF RelatedTo
  <1>3. ASSUME c = redact[m].row, RelatedTo(c)' = {}
        PROVE  /\ Anonymize(c)
               /\ \A k \in Merchants : review'[k].row = c => review'[k].doomed
    <2>1. RelatedTo(c) \subseteq {m}
      BY <1>2, <1>3
    <2>2. /\ Anonymize(c)
          /\ review' = [k \in Merchants |->
                IF review[k].row = c THEN [review[k] EXCEPT !.doomed = TRUE] ELSE review[k]]
      BY <1>3, <2>1 DEF Unlink
    <2>3. ASSUME NEW k \in Merchants, review'[k].row = c PROVE review'[k].doomed
      <3>1. review[k] \in ReviewType
        BY <1>1
      <3>2. CASE review[k].row = c
        <4>1. review'[k] = [review[k] EXCEPT !.doomed = TRUE]
          BY <2>2, <3>2
        <4> QED
          BY <3>1, <4>1 DEF ReviewType
      <3>3. CASE review[k].row # c
        BY <2>2, <2>3, <3>3
      <3> QED
        BY <3>2, <3>3
    <2> QED
      BY <2>2, <2>3
  <1> QED
    BY <1>2, <1>3

\* An approval only adds.
LEMMA Approves ==
    ASSUME Types, NEW m \in Merchants, ApproveCommit(m), NEW c \in Rows
    PROVE  RelatedTo(c) \subseteq RelatedTo(c)'
  <1>1. /\ rel \in [Merchants -> SUBSET Rows]
        /\ UNCHANGED rel \/ rel' = [rel EXCEPT ![m] = rel[m] \cup {review[m].row}]
    BY Typed DEF Types, ApproveCommit
  <1> QED
    BY <1>1 DEF RelatedTo

\* The last relationship of a row takes the row's data with it.
LEMMA LastUnlink ==
    ASSUME Types, [Next]_vars, NEW b \in Rows, RelatedTo(b) # {}, RelatedTo(b)' = {}
    PROVE  /\ buyer'[b].anon
           /\ \A k \in Merchants : review'[k].row = b => review'[k].doomed
  <1>1. ~UNCHANGED rel
    BY DEF RelatedTo
  <1>2. \A m \in Merchants : ~ApproveCommit(m)
    BY Approves
  <1>3. PICK m \in Merchants : Unlink(m)
    BY <1>1, <1>2, Writers
  <1>4. b = redact[m].row
    BY <1>3, Unlinks
  <1>5. Anonymize(b) /\ \A k \in Merchants : review'[k].row = b => review'[k].doomed
    BY <1>3, <1>4, Unlinks
  <1> QED
    BY <1>5, Scrubs DEF Types

-----------------------------------------------------------------------------
(* Scrubbed rows stay unlinked.                                              *)

\* No approval that may still commit holds row b.
Unheld(b) == \A k \in Merchants : review[k].at = "commit" /\ review[k].row = b => review[k].doomed

\* A row without relationships is scrubbed before any purge gets to it, and no
\* approval of a scrubbed one may commit.
SafeInv ==
    /\ \A b \in Rows : buyer[b].anon => RelatedTo(b) # {} \/ Unheld(b)
    /\ \A m \in Merchants, b \in Rows :
          (\/ purge[m].at # "idle" /\ b \in purge[m].todo
           \/ purge[m].at = "anonymize" /\ b = purge[m].row)
              => RelatedTo(b) # {} \/ buyer[b].anon

\* A row that is related or scrubbed remains so.
LEMMA KeptStays ==
    ASSUME Types, RowInv, [Next]_vars, NEW b \in Rows, RelatedTo(b) # {} \/ buyer[b].anon
    PROVE  RelatedTo(b)' # {} \/ buyer'[b].anon
  <1>1. CASE buyer[b].anon
    BY <1>1, RowStep
  <1>2. CASE RelatedTo(b) # {}
    BY <1>2, LastUnlink
  <1> QED
    BY <1>1, <1>2

\* Only an approval that reads row b by its email can come to hold it.
LEMMA UnheldStays ==
    ASSUME Types, [Next]_vars, NEW b \in Rows, Unheld(b), ~buyer[b].email
    PROVE  Unheld(b)'
  <1>0. TypeOK /\ review \in [Merchants -> ReviewType]
    BY Typed DEF Types
  <1>1. CASE UNCHANGED review
    BY <1>1 DEF Unheld
  <1>2. ASSUME NEW m \in Merchants, ApproveRead(m) PROVE Unheld(b)'
    <2>1. PICK c \in Rows : /\ buyer[c].email
                            /\ review' = [review EXCEPT ![m] = [at |-> "commit", row |-> c, doomed |-> FALSE]]
      BY <1>2 DEF ApproveRead, ByEmail
    <2> DEFINE r == [at |-> "commit", row |-> c, doomed |-> FALSE]
    <2>2. r.row = c /\ review' = [review EXCEPT ![m] = r] /\ c # b
      BY <2>1
    <2> HIDE DEF r
    <2> QED
      BY <1>0, <2>2 DEF Unheld
  <1>3. ASSUME NEW m \in Merchants, ApproveCommit(m) PROVE Unheld(b)'
    <2> DEFINE r == [at |-> "idle", row |-> NoRow, doomed |-> FALSE]
    <2>1. r.at = "idle" /\ review' = [review EXCEPT ![m] = r]
      BY <1>3 DEF ApproveCommit
    <2> HIDE DEF r
    <2> QED
      BY <1>0, <2>1 DEF Unheld
  <1>4. ASSUME NEW m \in Merchants, Unlink(m) PROVE Unheld(b)'
    <2>1. \/ UNCHANGED review
          \/ review' = [k \in Merchants |->
                IF review[k].row = redact[m].row THEN [review[k] EXCEPT !.doomed = TRUE] ELSE review[k]]
      BY <1>4 DEF Unlink
    <2>2. ASSUME NEW k \in Merchants
          PROVE  /\ review'[k].at = review[k].at /\ review'[k].row = review[k].row
                 /\ review[k].doomed => review'[k].doomed
      <3>1. review[k] \in ReviewType
        BY <1>0
      <3>2. review'[k] = review[k] \/ review'[k] = [review[k] EXCEPT !.doomed = TRUE]
        BY <2>1
      <3> QED
        BY <3>1, <3>2 DEF ReviewType
    <2> QED
      BY <2>2 DEF Unheld
  <1> QED
    BY <1>1, <1>2, <1>3, <1>4, Writers

\* Whoever scrubs a row leaves it related or unheld.
LEMMA ScrubIsSafe ==
    ASSUME Types, RowInv, SafeInv, [Next]_vars, NEW b \in Rows, ~buyer[b].anon, buyer'[b].anon
    PROVE  RelatedTo(b)' # {} \/ Unheld(b)'
  <1>0. TypeOK /\ BusyInv /\ rel \in [Merchants -> SUBSET Rows]
    BY Typed DEF Types
  <1>1. ASSUME NEW m \in Merchants, EraseBuyer(m) PROVE RelatedTo(b)' # {}
    <2>1. PICK c \in rel[m] : Anonymize(c)
      BY <1>1 DEF EraseBuyer
    <2>2. c = b
      BY <1>0, <2>1, Scrubs
    <2>3. b \in rel'[m]
      BY <1>1, <2>2 DEF EraseBuyer
    <2> QED
      BY <2>3 DEF RelatedTo
  <1>2. ASSUME NEW m \in Merchants, PurgeBuyer(m) PROVE RelatedTo(b)' # {}
    <2>1. purge[m].at = "anonymize" /\ purge[m].row \in Rows /\ Anonymize(purge[m].row)
      BY <1>0, <1>2 DEF PurgeBuyer, BusyInv
    <2>2. purge[m].row = b
      BY <1>0, <2>1, Scrubs
    <2>3. RelatedTo(b) # {} /\ UNCHANGED rel
      BY <1>2, <2>1, <2>2 DEF SafeInv, PurgeBuyer
    <2> QED
      BY <2>3 DEF RelatedTo
  <1>3. ASSUME NEW m \in Merchants, Unlink(m) PROVE RelatedTo(b)' # {} \/ Unheld(b)'
    <2>1. redact[m].row \in Rows /\ (UNCHANGED buyer \/ Anonymize(redact[m].row))
      BY <1>0, <1>3 DEF Unlink, BusyInv
    <2>2. b = redact[m].row
      BY <1>0, <2>1, Scrubs
    <2>3. RelatedTo(b)' = {} => \A k \in Merchants : review'[k].row = b => review'[k].doomed
      BY <1>3, <2>2, Unlinks
    <2> QED
      BY <2>3 DEF Unheld
  <1>4. ASSUME NEW m \in Merchants, Apply(m) PROVE FALSE
    BY <1>0, <1>4, Creates
  <1> QED
    BY <1>1, <1>2, <1>3, <1>4, Writers

\* Every step keeps SafeInv.
LEMMA SafeStep == Types /\ RowInv /\ SafeInv /\ [Next]_vars => SafeInv'
  <1> SUFFICES ASSUME Types, RowInv, SafeInv, [Next]_vars PROVE SafeInv'
    OBVIOUS
  <1>0. /\ TypeOK /\ BusyInv /\ purge \in [Merchants -> PurgeType]
        /\ rel \in [Merchants -> SUBSET Rows]
    BY Typed DEF Types
  <1>1. ASSUME NEW b \in Rows, buyer'[b].anon PROVE RelatedTo(b)' # {} \/ Unheld(b)'
    <2>1. CASE ~buyer[b].anon
      BY <1>1, <2>1, ScrubIsSafe
    <2>2. CASE buyer[b].anon /\ RelatedTo(b) # {}
      BY <2>2, LastUnlink DEF Unheld
    <2>3. CASE buyer[b].anon /\ Unheld(b)
      BY <2>3, UnheldStays DEF RowInv
    <2> QED
      BY <2>1, <2>2, <2>3 DEF SafeInv
  <1>2. ASSUME NEW m \in Merchants, purge'[m].at # "idle", NEW b \in purge'[m].todo
        PROVE  RelatedTo(b)' # {} \/ buyer'[b].anon
    <2>1. b \in Rows /\ (RelatedTo(b) # {} \/ buyer[b].anon)
      <3>1. CASE purge'[m] = purge[m]
        BY <1>0, <1>2, <3>1 DEF SafeInv, PurgeType
      <3>2. CASE purge'[m] # purge[m]
        <4>1. PICK n \in Merchants : Purging(n) \/ ShopRedact(n) \/ FailPurge(n)
          BY <3>2, Writers
        <4>2. PICK k \in PurgeType :
                 /\ purge' = [purge EXCEPT ![n] = k]
                 /\ \/ k.at = "idle"
                    \/ purge[n].at = "idle" /\ Eligible(n) /\ k.at = "count" /\ k.todo = rel[n]
                    \/ purge[n].at # "idle" /\ k.todo \subseteq purge[n].todo
          BY <4>1, PurgeSteps
        <4>3. n = m /\ purge'[m] = k
          BY <1>0, <3>2, <4>2
        <4>4. CASE k.todo = rel[m]
          BY <1>0, <1>2, <4>3, <4>4 DEF RelatedTo
        <4>5. CASE purge[m].at # "idle" /\ k.todo \subseteq purge[m].todo
          BY <1>0, <1>2, <4>3, <4>5 DEF SafeInv, PurgeType
        <4> QED
          BY <1>2, <4>2, <4>3, <4>4, <4>5
      <3> QED
        BY <3>1, <3>2
    <2> QED
      BY <2>1, KeptStays
  <1>3. ASSUME NEW m \in Merchants, purge'[m].at = "anonymize", NEW b \in Rows, b = purge'[m].row
        PROVE  RelatedTo(b)' # {} \/ buyer'[b].anon
    <2>1. RelatedTo(b) # {} \/ buyer[b].anon
      <3>1. CASE purge'[m] = purge[m]
        BY <1>3, <3>1 DEF SafeInv
      <3>2. CASE purge'[m] # purge[m]
        <4>1. PICK n \in Merchants : Purging(n) \/ ShopRedact(n) \/ FailPurge(n)
          BY <3>2, Writers
        <4>2. PICK k \in PurgeType :
                 /\ purge' = [purge EXCEPT ![n] = k]
                 /\ k.at = "anonymize" => k.row \in purge[n].todo
                 /\ \/ k.at = "idle"
                    \/ purge[n].at = "idle" /\ Eligible(n) /\ k.at = "count" /\ k.todo = rel[n]
                    \/ purge[n].at # "idle" /\ k.todo \subseteq purge[n].todo
          BY <4>1, PurgeSteps
        <4>3. n = m /\ purge'[m] = k
          BY <1>0, <3>2, <4>2
        <4>4. b \in purge[m].todo /\ purge[m].at # "idle"
          BY <1>3, <4>2, <4>3
        <4> QED
          BY <4>4 DEF SafeInv
      <3> QED
        BY <3>1, <3>2
    <2> QED
      BY <2>1, KeptStays
  <1>4. \A b \in Rows : buyer'[b].anon => RelatedTo(b)' # {} \/ Unheld(b)'
    BY <1>1
  <1>5. \A m \in Merchants, b \in Rows :
           (\/ purge'[m].at # "idle" /\ b \in purge'[m].todo
            \/ purge'[m].at = "anonymize" /\ b = purge'[m].row)
               => RelatedTo(b)' # {} \/ buyer'[b].anon
    BY <1>2, <1>3
  <1> QED
    BY <1>4, <1>5 DEF SafeInv

-----------------------------------------------------------------------------
(* The retention period.                                                     *)

\* An uninstall is younger than the last sign-in, and only a leaver uninstalls.
AgeInv ==
    \A m \in Merchants :
        IF m \in Leavers THEN shop[m].age <= away[m]
        ELSE shop[m].age = NotGone /\ cleanup[m] = "none"

\* Every step keeps AgeInv.
LEMMA AgeStep == Types /\ AgeInv /\ [Next]_vars => AgeInv'
  <1> SUFFICES ASSUME Types, AgeInv, [Next]_vars PROVE AgeInv'
    OBVIOUS
  <1>0. /\ TypeOK /\ shop \in [Merchants -> ShopType] /\ away \in [Merchants -> 0..Retention]
        /\ cleanup \in [Merchants -> {"none", "queued", "schedule"}]
    BY Typed DEF Types
  <1>1. CASE UNCHANGED <<shop, cleanup, away>>
    BY <1>1 DEF AgeInv
  <1>2. ASSUME NEW m \in Merchants, Uninstall(m) PROVE AgeInv'
    <2>1. m \in Leavers /\ UNCHANGED <<shop, away>> /\ cleanup' = [cleanup EXCEPT ![m] = "queued"]
      BY <1>2 DEF Uninstall
    <2> QED
      BY <1>0, <2>1 DEF AgeInv
  <1>3. ASSUME NEW m \in Merchants, SignIn(m) PROVE AgeInv'
    <2> DEFINE r == [active |-> TRUE, age |-> NotGone]
    <2>1. r.age = NotGone /\ NotGone <= 0
      BY DEF NotGone
    <2>2. /\ m \in Leavers /\ UNCHANGED cleanup
          /\ shop' = [shop EXCEPT ![m] = r] /\ away' = [away EXCEPT ![m] = 0]
      BY <1>3 DEF SignIn
    <2> HIDE DEF r
    <2> QED
      BY <1>0, <2>1, <2>2 DEF AgeInv
  <1>4. ASSUME NEW m \in Merchants, PaddleEvent(m) PROVE AgeInv'
    <2>1. UNCHANGED <<cleanup, away>> /\ shop' = [shop EXCEPT ![m].active = ~shop[m].active]
      BY <1>4 DEF PaddleEvent
    <2>2. \A k \in Merchants : shop'[k].age = shop[k].age
      BY <1>0, <2>1 DEF ShopType
    <2> QED
      BY <2>1, <2>2 DEF AgeInv
  <1>5. ASSUME NEW m \in Merchants, Deactivate(m) PROVE AgeInv'
    <2>1. /\ cleanup[m] = "queued" /\ UNCHANGED away
          /\ cleanup' = [cleanup EXCEPT ![m] = "schedule"]
          /\ shop' = [shop EXCEPT ![m].active = FALSE, ![m].age = 0]
      BY <1>5 DEF Deactivate
    <2>2. m \in Leavers
      BY <2>1 DEF AgeInv
    <2>3. shop'[m].age = 0 /\ \A k \in Merchants \ {m} : shop'[k] = shop[k]
      BY <1>0, <2>1 DEF ShopType
    <2>4. \A k \in Merchants \ {m} : cleanup'[k] = cleanup[k]
      BY <1>0, <2>1
    <2> QED
      BY <1>0, <2>1, <2>2, <2>3, <2>4 DEF AgeInv
  <1>6. ASSUME NEW m \in Merchants, SchedulePurge(m) \/ FailCleanup(m) PROVE AgeInv'
    <2>1. cleanup[m] = "schedule" /\ UNCHANGED <<shop, away>>
      BY <1>6 DEF SchedulePurge, FailCleanup
    <2>2. \A k \in Merchants \ {m} : cleanup'[k] = cleanup[k]
      BY <1>0, <1>6 DEF SchedulePurge, FailCleanup
    <2>3. m \in Leavers
      BY <2>1 DEF AgeInv
    <2> QED
      BY <2>1, <2>2, <2>3 DEF AgeInv
  <1>7. CASE Tick
    <2>1. ASSUME NEW m \in Merchants
          PROVE  IF m \in Leavers THEN shop'[m].age <= away'[m]
                 ELSE shop'[m].age = NotGone /\ cleanup'[m] = "none"
      <3>1. shop[m] \in ShopType /\ shop[m].age \in Ages /\ away[m] \in 0..Retention
        BY <1>0 DEF ShopType
      <3>2. shop'[m].age = Older(shop[m].age) /\ UNCHANGED cleanup
        BY <1>7, <3>1 DEF Tick, ShopType
      <3>3. away'[m] = IF m \in Leavers THEN Older(away[m]) ELSE 0
        BY <1>7 DEF Tick
      <3>4. CASE m \in Leavers
        <4>1. shop[m].age <= away[m]
          BY <3>4 DEF AgeInv
        <4>2. Older(shop[m].age) <= Older(away[m])
          BY <3>1, <4>1 DEF Older, Ages, NotGone
        <4> QED
          BY <3>2, <3>3, <3>4, <4>2
      <3>5. CASE m \notin Leavers
        BY <3>2, <3>5 DEF AgeInv, Older
      <3> QED
        BY <3>4, <3>5
    <2> QED
      BY <2>1 DEF AgeInv
  <1>8. ASSUME NEW m \in Merchants, Apply(m) \/ Review(m) \/ EraseBuyer(m) \/ Redaction(m)
        PROVE  UNCHANGED <<shop, cleanup, away>>
    BY <1>8 DEF Apply, Review, ApproveRead, ApproveCommit, RejectApplication, EraseBuyer, Redaction,
                FindBuyer, Unlink, shops
  <1>9. ASSUME NEW m \in Merchants, Purging(m) \/ ShopRedact(m) \/ FailPurge(m)
        PROVE  UNCHANGED <<shop, cleanup, away>>
    BY <1>9 DEF Purging, ShopRedact, FailPurge, StartPurge, CountOthers, PurgeBuyer, EndPurge
  <1>10. CASE UNCHANGED vars
    BY <1>1, <1>10 DEF vars, shops
  <1> QED
    BY <1>1, <1>2, <1>3, <1>4, <1>5, <1>6, <1>7, <1>8, <1>9, <1>10 DEF Next, Lifecycle

-----------------------------------------------------------------------------
IInv == Types /\ RowInv /\ SafeInv /\ AgeInv

\* The initial states satisfy it.
LEMMA InitInv == Init => IInv
  <1> SUFFICES ASSUME Init PROVE Types /\ RowInv /\ SafeInv /\ AgeInv
    BY DEF IInv
  <1>1. \A b \in Rows : ~buyer[b].exists /\ ~buyer[b].anon
    BY DEF Init, Nobody
  <1>2. \A m \in Merchants : purge[m].at = "idle" /\ shop[m].age = NotGone /\ cleanup[m] = "none"
    BY Shapes DEF Init
  <1>3. \A m \in Merchants : NotGone <= away[m]
    BY DEF Init, NotGone
  <1> QED
    BY <1>1, <1>2, <1>3, InitTypes DEF RowInv, SafeInv, AgeInv

\* Invariance of the whole.
LEMMA Invariance == Spec => []IInv
  <1>1. IInv /\ [Next]_vars => IInv'
    BY TypesStep, RowStep, SafeStep, AgeStep DEF IInv
  <1> QED
    BY <1>1, InitInv, PTL DEF Spec

\* Types of rows, relationships, jobs and timers, for any number of them.
THEOREM IdentityTyped == Spec => []TypeOK
  <1>1. IInv => TypeOK
    BY DEF IInv, Types
  <1> QED
    BY <1>1, Invariance, PTL

\* A row scrubbed on any of the three paths keeps neither handle, and the person
\* has one live row.
THEOREM ErasedForGood == Spec => []ErasedIsUnlinked
  <1>1. IInv => ErasedIsUnlinked
    BY DEF IInv, RowInv, ErasedIsUnlinked
  <1> QED
    BY <1>1, Invariance, PTL

\* The redaction that takes a row's last relationship scrubs it.
THEOREM RedactionCompletes == Spec => RedactIsComplete
  <1>1. IInv /\ [Next]_vars =>
            [\A b \in Rows : (RelatedTo(b) # {} /\ RelatedTo(b)' = {}) => buyer'[b].anon]_vars
    BY LastUnlink DEF IInv
  <1> QED
    BY <1>1, Invariance, PTL DEF Spec, RedactIsComplete

\* No approval relates a merchant to a scrubbed row that nobody is related to.
THEOREM RedactedForGood == Spec => RedactedStaysUnlinked
  <1>1. ASSUME IInv, [Next]_vars, NEW m \in Merchants, NEW b \in Rows,
               b \in rel'[m] \ rel[m], buyer[b].anon
        PROVE  RelatedTo(b) # {}
    <2>0. rel \in [Merchants -> SUBSET Rows]
      BY <1>1, Typed DEF IInv, Types
    <2>1. ~UNCHANGED rel
      BY <1>1
    <2>2. \A n \in Merchants : ~Unlink(n)
      BY <1>1, <2>0 DEF Unlink
    <2>3. PICK n \in Merchants : ApproveCommit(n)
      BY <1>1, <2>1, <2>2, Writers
    <2>4. /\ review[n].at = "commit" /\ ~review[n].doomed
          /\ rel' = [rel EXCEPT ![n] = rel[n] \cup {review[n].row}]
      BY <2>1, <2>3 DEF ApproveCommit
    <2>5. review[n].row = b
      BY <1>1, <2>0, <2>4
    <2>6. ~Unheld(b)
      BY <2>4, <2>5 DEF Unheld
    <2> QED
      BY <1>1, <2>6 DEF IInv, SafeInv
  <1>2. IInv /\ [Next]_vars =>
            [\A m \in Merchants, b \in Rows :
                (b \in rel'[m] \ rel[m] /\ buyer[b].anon) => RelatedTo(b) # {}]_vars
    BY <1>1
  <1> QED
    BY <1>2, Invariance, PTL DEF Spec, RedactedStaysUnlinked

\* No purge starts before the retention period has passed since the last sign-in,
\* for any retention period and whatever timers earlier uninstalls left.
THEOREM PurgeWaits == Spec => PurgeRespectsReinstall
  <1>1. ASSUME IInv, [Next]_vars, NEW m \in Merchants,
               purge[m].at = "idle", purge'[m].at = "count"
        PROVE  away[m] >= Retention
    <2>0. /\ purge \in [Merchants -> PurgeType] /\ shop[m] \in ShopType
          /\ away[m] \in 0..Retention
      BY <1>1, Typed DEF IInv, Types
    <2>1. PICK n \in Merchants : Purging(n) \/ ShopRedact(n) \/ FailPurge(n)
      BY <1>1, Writers
    <2>2. PICK k \in PurgeType :
             /\ purge' = [purge EXCEPT ![n] = k]
             /\ k.at = "idle" \/ Eligible(n) \/ purge[n].at # "idle"
      BY <1>1, <2>1, PurgeSteps DEF IInv
    <2>3. n = m /\ Eligible(m)
      BY <1>1, <2>0, <2>2
    <2>4. shop[m].age \in Ages /\ shop[m].age >= Retention
      BY <2>0, <2>3 DEF Eligible, ShopType
    <2>5. shop[m].age <= away[m]
      BY <1>1, <2>4 DEF IInv, AgeInv, NotGone
    <2> QED
      BY <2>0, <2>4, <2>5 DEF Ages, NotGone
  <1>2. IInv /\ [Next]_vars =>
            [\A m \in Merchants :
                (purge[m].at = "idle" /\ purge'[m].at = "count") => away[m] >= Retention]_vars
    BY <1>1
  <1> QED
    BY <1>2, Invariance, PTL DEF Spec, PurgeRespectsReinstall
=============================================================================
