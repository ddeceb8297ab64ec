---------------------------- MODULE BuyerIdentity ----------------------------
(***************************************************************************)
(* One person who buys from several merchants, and who has to be           *)
(* forgotten.  A buyers row is shared by all merchants; each has its own   *)
(* relationship with it.  Rows come from registrations                     *)
(* (buyers.service.ts) and are anonymized on three paths: the merchant's   *)
(* erasure (eraseBuyer), Shopify's customers/redact                        *)
(* (workers/gdpr-compliance.worker.ts) and the purge that follows an       *)
(* uninstall (workers/merchant-cleanup.worker.ts and                       *)
(* merchant-purge-data.worker.ts), which a reinstall                       *)
(* (merchants.service.ts, upsert) must call off.                           *)
(*                                                                         *)
(* Time is counted in ticks of the retention period.  A SERIALIZABLE       *)
(* transaction is one step, or two where only part of what it conflicts    *)
(* with is serializable; everything else is one step per database call.    *)
(***************************************************************************)
EXTENDS Integers, FiniteSets

CONSTANTS
    Merchants,
    Leavers,        \* the merchants that may uninstall the app
    Rows,           \* buyers rows the person's registrations may create
    NoRow,
    Retention,      \* ticks that cover the retention period less its margin of a day
    Overlap,        \* the bound on approvals and redactions started at once,
                    \* purges under way counted
    MaxFaults       \* the bound on failed attempts (below the jobs' attempts) and
                    \* on Paddle events that change is_active

ASSUME RowAssumption   == NoRow \notin Rows /\ Leavers \subseteq Merchants
ASSUME BoundAssumption == Retention \in Nat \ {0} /\ MaxFaults \in Nat

VARIABLES
    buyer,      \* buyer[b]: the columns of row b
    rel,        \* rel[m]: the rows the merchant has a relationship with
    pending,    \* merchants with a pending application of the person
    review,     \* review[m]: an approval under way
    redact,     \* redact[m]: a customers/redact job
    shop,       \* shop[m]: is_active and the age of deleted_at
    cleanup,    \* cleanup[m]: the app/uninstalled job
    timers,     \* timers[m]: delays left of the scheduled purge jobs
    purge,      \* purge[m]: a purge job that is running
    purged,     \* history: merchants that did not sign in again and whose purge
                \* completed (audit "data_purged")
    faults,     \* failed attempts and Paddle events so far
    away        \* history: away[m]: ticks since the merchant last signed in

people  == <<buyer, rel, pending, review, redact>>
shops   == <<shop, cleanup, timers, purge, purged, away, faults>>
vars    == <<people, shops>>

NotGone == -1
Ages    == NotGone..Retention
Nobody  == [exists |-> FALSE, email |-> FALSE, clerk |-> FALSE, anon |-> FALSE]
Idle    == [at |-> "idle", row |-> NoRow]
NoPurge == [at |-> "idle", row |-> NoRow, todo |-> {}]

Init ==
    /\ buyer = [b \in Rows |-> Nobody]
    /\ rel = [m \in Merchants |-> {}]
    /\ review = [m \in Merchants |-> [at |-> "idle", row |-> NoRow, doomed |-> FALSE]]
    /\ redact = [m \in Merchants |-> Idle]
    /\ pending = {}
    /\ shop = [m \in Merchants |-> [active |-> TRUE, age |-> NotGone]]
    /\ cleanup = [m \in Merchants |-> "none"]
    /\ timers = [m \in Merchants |-> {}]
    /\ purge = [m \in Merchants |-> NoPurge]
    /\ purged = {} /\ faults = 0
    /\ away = [m \in Merchants |-> 0]

-----------------------------------------------------------------------------
(* The rows.                                                               *)

\* The unique indexes: at most one row has the person's email, one the link
\* to the person's Clerk account.
ByEmail == {b \in Rows : buyer[b].email}
ByClerk == {b \in Rows : buyer[b].clerk}

\* Mutant: the Clerk link survives.
KeepClerkLink(b) ==
    buyer' = [buyer EXCEPT ![b] = [@ EXCEPT !.email = FALSE, !.anon = TRUE]]

\* The scrub all three paths share.
Anonymize(b) ==
    buyer' = [buyer EXCEPT ![b] = [Nobody EXCEPT !.exists = TRUE, !.anon = TRUE]]

UnderWay == Cardinality({m \in Merchants : review[m].at # "idle"})
              + Cardinality({m \in Merchants : redact[m].at # "idle"})
              + Cardinality({m \in Merchants : purge[m].at # "idle"})
Room == UnderWay < Overlap

RelatedTo(b) == {m \in Merchants : b \in rel[m]}

-----------------------------------------------------------------------------
(* Registration and review.                                                *)

\* submitRegistrationApplication: a relationship with the person's row stops it
\* (not a suspended one, whose approval would change nothing modelled here), and
\* so does a pending application (for a day: here, until reviewed).  The row is
\* looked up by the Clerk id and created if there is none.  Check, upsert and
\* insert are three calls in the code and one step here: the application names
\* the person by email only, and the unique email decides a race of two upserts.
Apply(m) ==
    /\ shop[m].active /\ m \notin pending /\ rel[m] \cap (ByEmail \cup ByClerk) = {}
    /\ IF ByEmail \cup ByClerk # {}
       THEN UNCHANGED buyer
       ELSE LET new == {b \in Rows : ~buyer[b].exists}
            IN  /\ new # {}
                /\ buyer' = [buyer EXCEPT ![CHOOSE b \in new : TRUE] =
                      [exists |-> TRUE, email |-> TRUE, clerk |-> TRUE, anon |-> FALSE]]
    /\ pending' = pending \cup {m}
    /\ UNCHANGED <<rel, review, redact, shops>>

\* approveApplication, SERIALIZABLE: its snapshot of the row with the
\* application's email; without one the approval fails.
ApproveRead(m) ==
    /\ Room /\ shop[m].active /\ m \in pending /\ review[m].at = "idle"
    /\ \E b \in ByEmail : review' = [review EXCEPT ![m] = [at |-> "commit", row |-> b, doomed |-> FALSE]]
    /\ UNCHANGED <<buyer, rel, pending, redact, shops>>

\* Mutant: approval and redaction no longer conflict (no SERIALIZABLE).
ApproveAnyway(m) ==
    LET b == review[m].row
    IN  /\ review[m].at = "commit"
        /\ rel' = [rel EXCEPT ![m] = @ \cup {b}]
        /\ pending' = pending \ {m}
        /\ review' = [review EXCEPT ![m] = [at |-> "idle", row |-> NoRow, doomed |-> FALSE]]
        /\ UNCHANGED <<buyer, redact, shops>>

\* Its commit: a redaction that anonymized the row meanwhile is a serialization
\* failure; eraseBuyer and the purge are not serializable and go unnoticed.
ApproveCommit(m) ==
    LET b == review[m].row
    IN  /\ review[m].at = "commit"
        /\ IF review[m].doomed
           THEN UNCHANGED <<rel, pending>>
           ELSE /\ rel' = [rel EXCEPT ![m] = @ \cup {b}]
                /\ pending' = pending \ {m}
        /\ review' = [review EXCEPT ![m] = [at |-> "idle", row |-> NoRow, doomed |-> FALSE]]
        /\ UNCHANGED <<buyer, redact, shops>>

RejectApplication(m) ==
    /\ shop[m].active /\ m \in pending /\ review[m].at = "idle"
    /\ pending' = pending \ {m}
    /\ UNCHANGED <<buyer, rel, review, redact, shops>>

-----------------------------------------------------------------------------
(* Erasure by a merchant.                                                  *)

\* eraseBuyer checks that the buyer is the merchant's and owes it nothing, and
\* then scrubs the row whoever else trades with the buyer; the relationship
\* stays.  What the check read does not change what the update writes, so the
\* two calls are one step.  Deleting the Clerk account is best effort.
EraseBuyer(m) ==
    /\ shop[m].active
    /\ \E b \in rel[m] : ~buyer[b].anon /\ Anonymize(b)
    /\ UNCHANGED <<rel, pending, review, redact, shops>>

-----------------------------------------------------------------------------
(* customers/redact.                                                       *)

\* The job of a compliance webhook, which an inactive merchant's shop can send
\* too; a failed attempt is one more job.  The row is looked up by the email in
\* the payload, outside the transaction; without one there is nothing to do.
FindBuyer(m) ==
    /\ Room /\ redact[m].at = "idle"
    /\ \E b \in ByEmail : redact' = [redact EXCEPT ![m] = [at |-> "unlink", row |-> b]]
    /\ UNCHANGED <<buyer, rel, pending, review, shops>>

\* Mutant: the relationships are counted before the own one is deleted.
CountThenUnlink(m) ==
    LET b == redact[m].row
    IN  /\ redact[m].at = "unlink"
        /\ rel' = [rel EXCEPT ![m] = @ \ {b}]
        /\ IF RelatedTo(b) = {} THEN Anonymize(b) ELSE UNCHANGED buyer
        /\ redact' = [redact EXCEPT ![m] = Idle]
        /\ UNCHANGED <<pending, review, shops>>

\* The SERIALIZABLE transaction: unlink, count what is left, scrub the last.
Unlink(m) ==
    LET b == redact[m].row
    IN  /\ redact[m].at = "unlink"
        /\ rel' = [rel EXCEPT ![m] = @ \ {b}]
        /\ IF RelatedTo(b) \subseteq {m}
           THEN /\ Anonymize(b)
                /\ review' = [k \in Merchants |->
                      IF review[k].row = b THEN [review[k] EXCEPT !.doomed = TRUE] ELSE review[k]]
           ELSE UNCHANGED <<buyer, review>>
        /\ redact' = [redact EXCEPT ![m] = Idle]
        /\ UNCHANGED <<pending, shops>>

-----------------------------------------------------------------------------
(* Uninstall, purge, reinstall.                                            *)

\* app/uninstalled passes the HMAC guard only for an active merchant.
Uninstall(m) ==
    /\ m \in Leavers /\ shop[m] = [active |-> TRUE, age |-> NotGone]
    /\ cleanup[m] = "none"
    /\ cleanup' = [cleanup EXCEPT ![m] = "queued"]
    /\ UNCHANGED <<people, shop, timers, purge, purged, away, faults>>

\* upsert revives the row.
SignIn(m) ==
    /\ m \in Leavers
    /\ shop' = [shop EXCEPT ![m] = [active |-> TRUE, age |-> NotGone]]
    /\ away' = [away EXCEPT ![m] = 0]
    /\ purged' = purged \ {m}
    /\ UNCHANGED <<people, cleanup, timers, purge, faults>>

\* Paddle's events (see Subscription) write is_active and nothing else.
PaddleEvent(m) ==
    /\ faults < MaxFaults /\ m \in Leavers
    /\ faults' = faults + 1
    /\ shop' = [shop EXCEPT ![m].active = ~shop[m].active]
    /\ UNCHANGED <<people, cleanup, timers, purge, purged, away>>

\* Mutant: the purge is put off a tick too long.
LateDelay == Retention + 1

\* NINETY_DAYS_MS, which PURGE_MIN_UNINSTALL_MS stays a day below.
PurgeDelay == Retention

\* The cleanup job: deactivate, then (after Paddle and the catalog keys) put a
\* purge job on the timer, then audit.  A failed attempt starts over.
Deactivate(m) ==
    /\ cleanup[m] = "queued"
    /\ shop' = [shop EXCEPT ![m].active = FALSE, ![m].age = 0]
    /\ cleanup' = [cleanup EXCEPT ![m] = "schedule"]
    /\ UNCHANGED <<people, timers, purge, purged, away, faults>>

SchedulePurge(m) ==
    /\ cleanup[m] = "schedule"
    /\ timers' = [timers EXCEPT ![m] = @ \cup {PurgeDelay}]
    /\ cleanup' = [cleanup EXCEPT ![m] = "none"]
    /\ UNCHANGED <<people, shop, purge, purged, away, faults>>

\* Before the purge job is on the timer, or after it, at the audit.
FailCleanup(m) ==
    /\ faults < MaxFaults /\ cleanup[m] = "schedule"
    /\ faults' = faults + 1
    /\ cleanup' = [cleanup EXCEPT ![m] = "queued"]
    /\ \/ UNCHANGED timers
       \/ timers' = [timers EXCEPT ![m] = @ \cup {PurgeDelay}]
    /\ UNCHANGED <<people, shop, purge, purged, away>>

\* Mutants: the comparison is strict; the age does not matter.
PastRetention(m) == ~shop[m].active /\ shop[m].age > Retention
StillGone(m)     == ~shop[m].active /\ shop[m].age # NotGone

\* Still uninstalled, and for long enough since the latest uninstall.
Eligible(m) == ~shop[m].active /\ shop[m].age >= Retention

Begin(m) == IF Eligible(m) THEN [NoPurge EXCEPT !.at = "count", !.todo = rel[m]] ELSE NoPurge

StartPurge(m) ==
    /\ 0 \in timers[m] /\ purge[m].at = "idle"
    /\ timers' = [timers EXCEPT ![m] = @ \ {0}]
    /\ purge' = [purge EXCEPT ![m] = Begin(m)]
    /\ UNCHANGED <<people, shop, cleanup, purged, faults, away>>

\* shop/redact, sent from two days after an uninstall on, queues a purge without
\* delay; the job does nothing if it finds the merchant not eligible.
ShopRedact(m) ==
    /\ Eligible(m) /\ purge[m].at = "idle"
    /\ purge' = [purge EXCEPT ![m] = Begin(m)]
    /\ UNCHANGED <<people, shop, cleanup, timers, purged, faults, away>>

\* The loop: count the other merchants' relationships, then scrub the row.
CountOthers(m) ==
    /\ purge[m].at = "count" /\ purge[m].todo # {}
    /\ \E b \in purge[m].todo :
          purge' = [purge EXCEPT ![m] =
             IF RelatedTo(b) \subseteq {m}
             THEN [at |-> "anonymize", row |-> b, todo |-> purge[m].todo \ {b}]
             ELSE [at |-> "count", row |-> NoRow, todo |-> purge[m].todo \ {b}]]
    /\ UNCHANGED <<people, shop, cleanup, timers, purged, away, faults>>

PurgeBuyer(m) ==
    /\ purge[m].at = "anonymize"
    /\ Anonymize(purge[m].row)
    /\ purge' = [purge EXCEPT ![m] = [@ EXCEPT !.at = "count", !.row = NoRow]]
    /\ UNCHANGED <<rel, pending, review, redact,
                   shop, cleanup, timers, purged, away, faults>>

\* Old webhook rows and the audit row.
EndPurge(m) ==
    /\ purge[m].at = "count" /\ purge[m].todo = {}
    /\ purge' = [purge EXCEPT ![m] = NoPurge]
    /\ purged' = IF away[m] < Retention THEN purged ELSE purged \cup {m}
    /\ UNCHANGED <<people, shop, cleanup, timers, away, faults>>

\* The attempt that failed is run again, from the check on.
FailPurge(m) ==
    /\ faults < MaxFaults /\ purge[m].at # "idle"
    /\ faults' = faults + 1
    /\ purge' = [purge EXCEPT ![m] = NoPurge]
    /\ timers' = [timers EXCEPT ![m] = @ \cup {0}]
    /\ UNCHANGED <<people, shop, cleanup, purged, away>>

Older(n) == IF n = NotGone \/ n = Retention THEN n ELSE n + 1

\* A job that is due may have to wait; once it runs, and a request, is over
\* within a tick.
Tick ==
    /\ \A m \in Merchants : review[m].at = "idle" /\ purge[m].at = "idle"
    /\ shop' = [m \in Merchants |-> [shop[m] EXCEPT !.age = Older(@)]]
    /\ timers' = [m \in Merchants |-> {IF n = 0 THEN 0 ELSE n - 1 : n \in timers[m]}]
    /\ away' = [m \in Merchants |-> IF m \in Leavers THEN Older(away[m]) ELSE 0]
    /\ UNCHANGED <<people, cleanup, purge, purged, faults>>

-----------------------------------------------------------------------------
Review(m)   == ApproveRead(m) \/ ApproveCommit(m) \/ RejectApplication(m)
Redaction(m) == FindBuyer(m) \/ Unlink(m)
Lifecycle(m) == Deactivate(m) \/ SchedulePurge(m)
Purging(m)   == StartPurge(m) \/ CountOthers(m) \/ PurgeBuyer(m) \/ EndPurge(m)

Next ==
    \/ \E m \in Merchants :
          \/ Apply(m) \/ Review(m) \/ EraseBuyer(m)
          \/ Redaction(m)
          \/ Uninstall(m) \/ SignIn(m) \/ PaddleEvent(m) \/ ShopRedact(m)
          \/ Lifecycle(m) \/ FailCleanup(m) \/ Purging(m) \/ FailPurge(m)
    \/ Tick

Spec == Init /\ [][Next]_vars

\* Time passes whatever requests are made, a request ends, and the queue hands
\* its jobs to a worker.
FairSpec ==
    /\ Spec /\ SF_vars(Tick)
    /\ \A m \in Merchants :
          WF_vars(ApproveCommit(m)) /\ WF_vars(Lifecycle(m)) /\ WF_vars(Purging(m))

-----------------------------------------------------------------------------
(* Properties.                                                             *)

\* Every variable keeps its type.
RowOrNone == Rows \cup {NoRow}
TypeOK ==
    /\ buyer \in [Rows -> [exists : BOOLEAN, email : BOOLEAN, clerk : BOOLEAN,
                           anon : BOOLEAN]]
    /\ rel \in [Merchants -> SUBSET Rows]
    /\ review \in [Merchants -> [at : {"idle", "commit"}, row : RowOrNone, doomed : BOOLEAN]]
    /\ redact \in [Merchants -> [at : {"idle", "unlink"}, row : RowOrNone]]
    /\ pending \subseteq Merchants /\ purged \subseteq Merchants
    /\ shop \in [Merchants -> [active : BOOLEAN, age : Ages]]
    /\ cleanup \in [Merchants -> {"none", "queued", "schedule"}]
    /\ timers \in [Merchants -> SUBSET (0..Retention)]
    /\ purge \in [Merchants -> [at : {"idle", "count", "anonymize"}, row : RowOrNone,
                                todo : SUBSET Rows]]
    /\ faults \in 0..MaxFaults
    /\ away \in [Merchants -> 0..Retention]

\* An anonymized row has neither email nor Clerk link, whichever path scrubbed
\* it and whatever request was under way; so no later application, approval or
\* redaction resolves to it, and of the person's rows at most one is live.
ErasedIsUnlinked ==
    /\ \A b \in Rows : buyer[b].anon => ~buyer[b].email /\ ~buyer[b].clerk
    /\ \A b, c \in Rows : (buyer[b].exists /\ buyer[c].exists /\ ~buyer[b].anon /\ ~buyer[c].anon)
                              => b = c

\* "Two concurrent redacts for the same buyer cannot both ... defer (which
\* would leave a relationship-less buyer un-anonymized forever)"
\* (gdpr-compliance.worker.ts): the step that unlinks a row from its last
\* merchant anonymizes it, also when an approval runs at the same time.
RedactIsComplete ==
    [][\A b \in Rows :
          (RelatedTo(b) # {} /\ RelatedTo(b)' = {}) => buyer'[b].anon]_vars

\* A row that lost its last relationship to a redaction never gets another,
\* also from an approval that had read it before; where an erasure or a purge
\* scrubbed the row a relationship remains, and such an approval goes through.
RedactedStaysUnlinked ==
    [][\A m \in Merchants, b \in Rows :
          (b \in rel'[m] \ rel[m] /\ buyer[b].anon) => RelatedTo(b) # {}]_vars

\* A purge starts only when the merchant has not signed in for the retention
\* period, less the margin: not on a timer of an earlier uninstall, not on
\* shop/redact, not on a retried cleanup (merchant-purge-data.worker.ts:60).
PurgeRespectsReinstall ==
    [][\A m \in Merchants :
          (purge[m].at = "idle" /\ purge'[m].at = "count") => away[m] >= Retention]_vars

\* A cleanup leads to a purge, unless the merchant is active again: no crash,
\* retry or earlier timer makes the guard skip every purge.
UninstallEndsInPurge ==
    \A m \in Leavers : (cleanup[m] = "queued") ~> (m \in purged \/ shop[m].active)

\* "Anonymization then happens when the last relationship is redacted/purged"
\* (gdpr-compliance.worker.ts:29): once every merchant a buyer deals with has
\* been purged, the buyer is anonymized.
LastPurgeAnonymizes ==
    \A b \in Rows :
        (RelatedTo(b) # {} /\ RelatedTo(b) \subseteq purged) => buyer[b].anon
=============================================================================
