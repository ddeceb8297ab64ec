--------------------------- MODULE Catalog_proofs ----------------------------
(* Proofs about Catalog: types, and that a page has one builder unless a lock *)
(* was lost, for any number of requests, tiers and buyers.                    *)
EXTENDS Catalog, TLAPS

USE TopicAssumption, BoundAssumption, NoneAssumption

ReqType == [at : Labels, buyer : Buyers \cup {None}, tier : Tiers \cup {None}, price : Prices,
            polls : 0..(MaxPolls - 1), locked : BOOLEAN]
JobType == [at : Stages, tries : 0..MaxAttempts, seen : Versions \cup {None}]

Bare    == {"idle", "read", "lock", "wait"}     \* labels of a request without a lock
Ended   == {"absent", "processed", "dead_letter"}

\* A request on its way knows its buyer and tier, and only a builder has a lock.
RequestInv ==
    \A r \in Requests :
        /\ request[r].at # "idle" => request[r].buyer \in Buyers /\ request[r].tier \in Tiers
        /\ request[r].at \in Bare => ~request[r].locked

\* An attempt under way has failed less often than it may; one not raised, never.
JobInv ==
    \A j \in Jobs : /\ job[j].at \notin Ended => job[j].tries < MaxAttempts
                    /\ job[j].at = "absent" => job[j].tries = 0

\* A list price is counted among the changes.
ProductInv == product # None => product \in 0..changes

\* The lock of a request that was not robbed is there.
LockInv ==
    \A r \in Requests : request[r].locked /\ r \notin robbed => lock[request[r].tier] > 0

IInv == TypeOK /\ RequestInv /\ JobInv /\ ProductInv /\ LockInv /\ OneBuilder

\* A request that goes on, one that carries a price, one that ends.
LEMMA Moves ==
    ASSUME TypeOK, NEW r \in Requests, NEW label \in Labels, NEW p \in Prices
    PROVE  /\ Goto(r, label) => /\ request' \in [Requests -> ReqType]
                                /\ request'[r] = [request[r] EXCEPT !.at = label]
                                /\ \A s \in Requests \ {r} : request'[s] = request[s]
           /\ Carry(r, label, p) => /\ request' \in [Requests -> ReqType]
                                    /\ request'[r] = [request[r] EXCEPT !.at = label, !.price = p]
                                    /\ \A s \in Requests \ {r} : request'[s] = request[s]
           /\ End(r) => /\ request' \in [Requests -> ReqType]
                        /\ request'[r] = NoRequest
                        /\ \A s \in Requests \ {r} : request'[s] = request[s]
  <1>1. request \in [Requests -> ReqType] /\ request[r] \in ReqType
    BY DEF TypeOK, ReqType
  <1> DEFINE on    == [request[r] EXCEPT !.at = label]
             laden == [request[r] EXCEPT !.at = label, !.price = p]
  <1>2. on \in ReqType /\ laden \in ReqType
    BY <1>1 DEF ReqType
  <1>3. NoRequest \in ReqType
    BY DEF NoRequest, ReqType, Labels, Prices
  <1>4. Goto(r, label) => request' = [request EXCEPT ![r] = on]
    BY DEF Goto
  <1>5. Carry(r, label, p) => request' = [request EXCEPT ![r] = laden]
    BY DEF Carry
  <1>6. End(r) => request' = [request EXCEPT ![r] = NoRequest]
    BY DEF End
  <1> HIDE DEF on, laden, NoRequest
  <1>7. /\ Goto(r, label) => /\ request' \in [Requests -> ReqType]
                             /\ request'[r] = on
                             /\ \A s \in Requests \ {r} : request'[s] = request[s]
        /\ Carry(r, label, p) => /\ request' \in [Requests -> ReqType]
                                 /\ request'[r] = laden
                                 /\ \A s \in Requests \ {r} : request'[s] = request[s]
        /\ End(r) => /\ request' \in [Requests -> ReqType]
                     /\ request'[r] = NoRequest
                     /\ \A s \in Requests \ {r} : request'[s] = request[s]
    BY <1>1, <1>2, <1>3, <1>4, <1>5, <1>6
  <1> QED
    BY <1>7 DEF on, laden

\* A request that goes on keeps its lock, and one that ends had none.
LEMMA Quiet ==
    ASSUME TypeOK, RequestInv, NEW r \in Requests,
           \/ \E b \in Buyers : Ask(r, b)
           \/ Hit(r) \/ Miss(r) \/ Poll(r) \/ Fetch(r) \/ TakePrices(r) \/ LoadPrices(r)
           \/ KeepPrices(r) \/ Store(r) \/ Fail(r)
    PROVE  /\ request' \in [Requests -> ReqType]
           /\ RequestInv'
           /\ \A s \in Requests : request'[s].locked => /\ request[s].locked
                                                       /\ request'[s].tier = request[s].tier
  <1>1. request \in [Requests -> ReqType] /\ request[r] \in ReqType
    BY DEF TypeOK, ReqType
  <1>2. NoRequest.at = "idle" /\ ~NoRequest.locked
    BY DEF NoRequest
  <1>3. \A t \in Tiers : None # t
    OBVIOUS
  \* Where it goes: on with what it has, on as a builder, or to its end.
  <1>4. CASE \E b \in Buyers : Ask(r, b)
    <2>1. PICK b \in Buyers : Ask(r, b)
      BY <1>4
    <2> DEFINE q == [NoRequest EXCEPT !.at = "read", !.buyer = b, !.tier = tierOf[b]]
    <2>2. tierOf[b] \in Tiers
      BY DEF TypeOK
    <2>3. q \in ReqType /\ q.at = "read" /\ q.buyer = b /\ q.tier = tierOf[b] /\ ~q.locked
      <3>1. NoRequest \in ReqType
        BY DEF NoRequest, ReqType, Labels, Prices
      <3>2. b \in Buyers \cup {None} /\ tierOf[b] \in Tiers \cup {None} /\ "read" \in Labels
        BY <2>2 DEF Labels
      <3>3. ~q.locked
        BY DEF NoRequest
      <3> HIDE DEF NoRequest
      <3> QED
        BY <3>1, <3>2, <3>3 DEF ReqType
    <2>4. request' = [request EXCEPT ![r] = q]
      BY <2>1 DEF Ask
    <2> HIDE DEF q
    <2>5. request' \in [Requests -> ReqType] /\ request'[r] = q
          /\ \A s \in Requests \ {r} : request'[s] = request[s]
      BY <1>1, <2>3, <2>4
    <2> QED
      BY <2>2, <2>3, <2>5 DEF RequestInv, Bare
  <1>5. CASE End(r)
    <2>1. request' \in [Requests -> ReqType] /\ request'[r] = NoRequest
          /\ \A s \in Requests \ {r} : request'[s] = request[s]
      BY <1>5, Moves DEF Labels, Prices
    <2> QED
      BY <1>2, <2>1 DEF RequestInv, Bare
  <1>6. CASE Goto(r, "lock") /\ At(r, "read")
    <2>1. request' \in [Requests -> ReqType] /\ request'[r] = [request[r] EXCEPT !.at = "lock"]
          /\ \A s \in Requests \ {r} : request'[s] = request[s]
      BY <1>6, Moves DEF Labels, Prices
    <2>2. request'[r].at = "lock" /\ request'[r].buyer = request[r].buyer
          /\ request'[r].tier = request[r].tier /\ request'[r].locked = request[r].locked
      BY <1>1, <2>1 DEF ReqType
    <2>3. request[r].at = "read"
      BY <1>6 DEF At
    <2> QED
      BY <2>1, <2>2, <2>3 DEF RequestInv, Bare
  <1>7. CASE \E label \in {"fetch", "prices", "load", "keep", "store", "unlock"}, p \in Prices :
               (Goto(r, label) \/ Carry(r, label, p)) /\ ~At(r, "idle")
    <2>1. PICK label \in {"fetch", "prices", "load", "keep", "store", "unlock"}, p \in Prices :
               (Goto(r, label) \/ Carry(r, label, p)) /\ ~At(r, "idle")
      BY <1>7
    <2>2. label \in Labels /\ label \notin Bare /\ label # "idle"
      BY DEF Labels, Bare
    <2>3. /\ request' \in [Requests -> ReqType]
          /\ \/ request'[r] = [request[r] EXCEPT !.at = label]
             \/ request'[r] = [request[r] EXCEPT !.at = label, !.price = p]
          /\ \A s \in Requests \ {r} : request'[s] = request[s]
      BY <2>1, <2>2, Moves
    <2>4. request'[r].at = label /\ request'[r].buyer = request[r].buyer
          /\ request'[r].tier = request[r].tier /\ request'[r].locked = request[r].locked
      BY <1>1, <2>3 DEF ReqType
    <2>5. request[r].at # "idle"
      BY <2>1 DEF At
    <2> QED
      BY <2>2, <2>3, <2>4, <2>5 DEF RequestInv
  <1>8. CASE Poll(r) /\ ~End(r)
    <2> DEFINE q == [request[r] EXCEPT !.polls = request[r].polls + 1]
    <2>1. request[r].polls + 1 # MaxPolls /\ request' = [request EXCEPT ![r] = q]
      BY <1>8 DEF Poll
    <2>2. q \in ReqType /\ q.at = request[r].at /\ q.buyer = request[r].buyer
          /\ q.tier = request[r].tier /\ q.locked = request[r].locked
      BY <1>1, <2>1 DEF ReqType
    <2> HIDE DEF q
    <2>3. request' \in [Requests -> ReqType] /\ request'[r] = q
          /\ \A s \in Requests \ {r} : request'[s] = request[s]
      BY <1>1, <2>1, <2>2
    <2> QED
      BY <2>2, <2>3 DEF RequestInv
  \* The steps that end or go on.
  <1>9. request[r].price \in Prices /\ None \in Prices
    BY <1>1 DEF ReqType, Prices
  <1>10. CASE Hit(r) \/ Miss(r)
    <2>1. At(r, "read") /\ ~At(r, "idle")
      BY <1>10 DEF Hit, Miss, At
    <2> QED
      BY <1>5, <1>6, <1>7, <1>9, <1>10, <2>1 DEF Hit, Miss
  <1>11. CASE Fetch(r)
    <2>1. ~At(r, "idle")
      BY <1>11 DEF Fetch, At
    <2> QED
      BY <1>7, <1>9, <1>11, <2>1 DEF Fetch
  <1>12. CASE TakePrices(r)
    <2>1. ~At(r, "idle") /\ request[r].buyer \in Buyers
      BY <1>12 DEF TakePrices, At, RequestInv
    <2>2. priced[request[r].buyer] # None => priced[request[r].buyer].price \in Prices
      BY <2>1 DEF TypeOK, Entries
    <2> QED
      BY <1>7, <1>9, <1>12, <2>1, <2>2 DEF TakePrices
  <1>13. CASE LoadPrices(r)
    <2>1. ~At(r, "idle") /\ request[r].buyer \in Buyers
      BY <1>13 DEF LoadPrices, At, RequestInv
    <2>2. Current(tierOf[request[r].buyer]) \in Prices
      BY <2>1 DEF TypeOK, Current, Price, Prices
    <2> QED
      BY <1>7, <1>13, <2>1, <2>2 DEF LoadPrices
  <1>14. CASE KeepPrices(r)
    <2>1. ~At(r, "idle")
      BY <1>14 DEF KeepPrices, At
    <2> QED
      BY <1>7, <1>9, <1>14, <2>1 DEF KeepPrices
  <1>15. CASE Store(r) \/ Fail(r)
    <2>1. ~At(r, "idle") /\ Leave(r)
      BY <1>15 DEF Store, Fail, At, Builds
    <2> QED
      BY <1>5, <1>7, <1>9, <2>1 DEF Leave
  <1> QED
    BY <1>4, <1>5, <1>8, <1>10, <1>11, <1>12, <1>13, <1>14, <1>15

\* While no lock goes away and none is taken, the lock invariants stay.
LEMMA LocksKept ==
    ASSUME LockInv, OneBuilder,
           \A s \in Requests : request'[s].locked => /\ request[s].locked
                                                   /\ request'[s].tier = request[s].tier,
           UNCHANGED lock, UNCHANGED robbed
    PROVE  LockInv' /\ OneBuilder'
  BY DEF LockInv, OneBuilder

\* A lock is taken only when there is none, so whoever had one before was robbed.
LEMMA TryLockStep ==
    ASSUME TypeOK, RequestInv, LockInv, OneBuilder, NEW r \in Requests, TryLock(r)
    PROVE  /\ request' \in [Requests -> ReqType] /\ lock' \in [Tiers -> 0..LockTtl]
           /\ RequestInv' /\ LockInv' /\ OneBuilder'
  <1>1. request \in [Requests -> ReqType] /\ request[r] \in ReqType
        /\ lock \in [Tiers -> 0..LockTtl]
    BY DEF TypeOK, ReqType
  <1>2. /\ request[r].at = "lock" /\ request[r].tier \in Tiers /\ request[r].buyer \in Buyers
        /\ ~request[r].locked /\ UNCHANGED robbed
    BY DEF TryLock, At, RequestInv, Bare
  <1> DEFINE t == request[r].tier
             q == [request[r] EXCEPT !.at = "fetch", !.locked = TRUE]
  <1>3. CASE lock[t] = 0
    <2>1. lock' = [lock EXCEPT ![t] = LockTtl] /\ request' = [request EXCEPT ![r] = q]
      BY <1>3 DEF TryLock
    <2>2. q \in ReqType /\ q.at = "fetch" /\ q.locked /\ q.tier = t /\ q.buyer = request[r].buyer
      BY <1>1 DEF ReqType, Labels
    <2> HIDE DEF q
    <2>3. request' \in [Requests -> ReqType] /\ request'[r] = q
          /\ \A s \in Requests \ {r} : request'[s] = request[s]
      BY <1>1, <2>1, <2>2
    <2>4. lock' \in [Tiers -> 0..LockTtl] /\ lock'[t] = LockTtl
          /\ \A u \in Tiers : lock'[u] = lock[u] \/ lock'[u] > 0
      BY <1>1, <1>2, <2>1
    <2>5. RequestInv'
      BY <1>2, <2>2, <2>3 DEF RequestInv, Bare
    <2>6. \A s \in Requests \ {r} : request[s].locked /\ request[s].tier = t => s \in robbed
      BY <1>3 DEF LockInv
    <2>7. LockInv'
      <3> SUFFICES ASSUME NEW s \in Requests, request'[s].locked, s \notin robbed'
                   PROVE  lock'[request'[s].tier] > 0
        BY DEF LockInv
      <3>1. CASE s = r
        BY <1>2, <2>2, <2>3, <2>4, <3>1
      <3>2. CASE s # r
        <4>1. request[s].locked /\ s \notin robbed /\ request'[s].tier = request[s].tier
          BY <1>2, <2>3, <3>2
        <4>2. request[s].tier \in Tiers /\ lock[request[s].tier] > 0
          <5>1. request[s].at # "idle"
            BY <4>1 DEF RequestInv, Bare
          <5> QED
            BY <4>1, <5>1 DEF RequestInv, LockInv
        <4> QED
          BY <2>4, <4>1, <4>2
      <3> QED
        BY <3>1, <3>2
    <2>8. OneBuilder'
      BY <1>2, <2>2, <2>3, <2>6 DEF OneBuilder
    <2> QED
      BY <2>3, <2>4, <2>5, <2>7, <2>8
  <1>4. CASE lock[t] # 0
    <2>1. Goto(r, "wait") /\ UNCHANGED lock
      BY <1>4 DEF TryLock
    <2>2. request' \in [Requests -> ReqType] /\ request'[r] = [request[r] EXCEPT !.at = "wait"]
          /\ \A s \in Requests \ {r} : request'[s] = request[s]
      BY <2>1, Moves DEF Labels, Prices
    <2>3. request'[r].at = "wait" /\ request'[r].buyer = request[r].buyer
          /\ request'[r].tier = request[r].tier /\ request'[r].locked = request[r].locked
      BY <1>1, <2>2 DEF ReqType
    <2>4. RequestInv'
      BY <1>2, <2>2, <2>3 DEF RequestInv
    <2> QED
      BY <1>1, <1>2, <2>1, <2>2, <2>3, <2>4, LocksKept
  <1> QED
    BY <1>3, <1>4

\* Whoever loses its lock is counted as robbed.
LEMMA UnlockStep ==
    ASSUME TypeOK, RequestInv, LockInv, OneBuilder, NEW r \in Requests, Unlock(r) \/ Die(r)
    PROVE  /\ request' \in [Requests -> ReqType] /\ lock' \in [Tiers -> 0..LockTtl]
           /\ robbed' \subseteq Requests /\ RequestInv' /\ LockInv' /\ OneBuilder'
  <1>1. request \in [Requests -> ReqType] /\ lock \in [Tiers -> 0..LockTtl] /\ robbed \subseteq Requests
    BY DEF TypeOK, ReqType
  <1>2. NoRequest.at = "idle" /\ ~NoRequest.locked
    BY DEF NoRequest
  <1>3. End(r) /\ request[r].at # "idle"
    BY DEF Unlock, Die, At
  <1>4. request' \in [Requests -> ReqType] /\ request'[r] = NoRequest
        /\ \A s \in Requests \ {r} : request'[s] = request[s]
    BY <1>3, Moves DEF Labels, Prices
  <1>5. RequestInv'
    BY <1>2, <1>4 DEF RequestInv, Bare
  <1>6. request[r].tier \in Tiers
    BY <1>3 DEF RequestInv
  <1>7. \A s \in Requests : request[s].locked => request[s].tier \in Tiers
    BY DEF RequestInv, Bare
  <1>8. CASE Unlock(r)
    <2>1. /\ lock' = [lock EXCEPT ![request[r].tier] = 0]
          /\ robbed' = (robbed \cup Holders(request[r].tier)) \ {r}
      BY <1>8 DEF Unlock
    <2>2. lock' \in [Tiers -> 0..LockTtl]
          /\ \A u \in Tiers : u # request[r].tier => lock'[u] = lock[u]
      BY <1>1, <1>6, <2>1
    <2>3. \A s \in Requests \ {r} : s \in robbed' <=> s \in robbed \/ (request[s].locked /\ request[s].tier = request[r].tier)
      BY <2>1 DEF Holders
    <2>4. robbed' \subseteq Requests
      BY <1>1, <2>1 DEF Holders
    <2>5. LockInv' /\ OneBuilder'
      BY <1>2, <1>4, <1>7, <2>2, <2>3 DEF LockInv, OneBuilder
    <2> QED
      BY <1>4, <1>5, <2>2, <2>4, <2>5
  <1>9. CASE Die(r)
    <2>1. robbed' = robbed \ {r} /\ lock' = lock
      BY <1>9 DEF Die
    <2>2. LockInv' /\ OneBuilder'
      BY <1>2, <1>4, <2>1 DEF LockInv, OneBuilder
    <2> QED
      BY <1>1, <1>4, <1>5, <2>1, <2>2
  <1> QED
    BY <1>8, <1>9

\* Locks go away by themselves.
LEMMA TickStep ==
    ASSUME TypeOK, RequestInv, LockInv, OneBuilder, Tick
    PROVE  lock' \in [Tiers -> 0..LockTtl] /\ robbed' \subseteq Requests /\ LockInv' /\ OneBuilder'
  <1>1. lock \in [Tiers -> 0..LockTtl] /\ robbed \subseteq Requests
    BY DEF TypeOK
  <1>2. lock' = [t \in Tiers |-> Older(lock[t])] /\ request' = request
    BY DEF Tick
  <1>3. lock' \in [Tiers -> 0..LockTtl] /\ \A t \in Tiers : lock[t] > 1 => lock'[t] > 0
    BY <1>1, <1>2 DEF Older
  <1>4. robbed' = robbed \cup {r \in Requests : \E t \in Tiers : lock[t] = 1 /\ r \in Holders(t)}
    BY DEF Tick
  <1>5. OneBuilder'
    BY <1>2, <1>4 DEF OneBuilder
  <1>6. LockInv'
    <2> SUFFICES ASSUME NEW s \in Requests, request'[s].locked, s \notin robbed'
                 PROVE  lock'[request'[s].tier] > 0
      BY DEF LockInv
    <2>1. request[s].locked /\ s \notin robbed /\ request[s].tier \in Tiers
      BY <1>2, <1>4 DEF RequestInv, Bare
    <2>2. lock[request[s].tier] > 0 /\ lock[request[s].tier] # 1
      BY <1>4, <2>1 DEF LockInv, Holders
    <2> QED
      BY <1>1, <1>2, <1>3, <2>1, <2>2
  <1> QED
    BY <1>1, <1>3, <1>4, <1>5, <1>6

\* After an invalidation every lock that was held was lost.
LEMMA DropStep ==
    ASSUME TypeOK, DropPages, UNCHANGED request
    PROVE  lock' \in [Tiers -> 0..LockTtl] /\ robbed' \subseteq Requests /\ LockInv' /\ OneBuilder'
  <1>1. lock' \in [Tiers -> 0..LockTtl]
    BY DEF DropPages
  <1>2. robbed' \subseteq Requests /\ \A s \in Requests : request[s].locked => s \in robbed'
    BY DEF DropPages, TypeOK
  <1> QED
    BY <1>1, <1>2 DEF LockInv, OneBuilder

\* A job moves on, fetches the product, or fails.
LEMMA JobSteps ==
    ASSUME TypeOK, JobInv, NEW j \in Jobs, Sync(j)
    PROVE  job' \in [Jobs -> JobType] /\ JobInv'
  <1>1. job \in [Jobs -> JobType] /\ job[j] \in JobType
    BY DEF TypeOK, JobType
  <1>2. FirstStep(j) \in Stages \ Ended
    BY DEF FirstStep, Stages, Ended
  <1>3. CASE \E label \in Stages \ {"absent"} : Turn(j, label)
                /\ (job[j].at = "absent" \/ job[j].at \notin Ended)
                /\ (job[j].at = "absent" => job[j].tries = 0)
    <2>1. PICK label \in Stages \ {"absent"} : Turn(j, label) /\ (job[j].at = "absent" => job[j].tries = 0)
                                    /\ (job[j].at = "absent" \/ job[j].at \notin Ended)
      BY <1>3
    <2> DEFINE q == [job[j] EXCEPT !.at = label]
    <2>2. q \in JobType /\ q.tries = job[j].tries /\ q.at = label
      BY <1>1 DEF JobType
    <2>3. job' = [job EXCEPT ![j] = q]
      BY <2>1 DEF Turn
    <2> HIDE DEF q
    <2>4. job' \in [Jobs -> JobType] /\ job'[j] = q /\ \A i \in Jobs \ {j} : job'[i] = job[i]
      BY <1>1, <2>2, <2>3
    <2>5. q.tries < MaxAttempts
      BY <1>1, <2>1, <2>2 DEF JobInv, JobType
    <2> QED
      BY <2>2, <2>4, <2>5 DEF JobInv
  <1>4. CASE FetchProduct(j)
    <2> DEFINE q == [job[j] EXCEPT !.at = "compare", !.seen = product]
    <2>1. q \in JobType /\ q.tries = job[j].tries /\ q.at = "compare"
      BY <1>1 DEF JobType, Stages, TypeOK
    <2>2. job' = [job EXCEPT ![j] = q] /\ job[j].at = "fetch"
      BY <1>4 DEF FetchProduct, Does
    <2> HIDE DEF q
    <2>3. job' \in [Jobs -> JobType] /\ job'[j] = q /\ \A i \in Jobs \ {j} : job'[i] = job[i]
      BY <1>1, <2>1, <2>2
    <2> QED
      BY <2>1, <2>2, <2>3 DEF JobInv, Ended
  <1>5. CASE FailJob(j)
    <2> DEFINE q == [at    |-> IF job[j].tries + 1 = MaxAttempts THEN "dead_letter" ELSE FirstStep(j),
                     tries |-> job[j].tries + 1,
                     seen  |-> None]
    <2>1. job[j].at \notin Ended
      BY <1>5 DEF FailJob, Ended
    <2>2. job[j].tries \in Nat /\ job[j].tries < MaxAttempts
      BY <1>1, <2>1 DEF JobInv, JobType
    <2>3. q.at \in Stages /\ q.at # "absent" /\ (q.at \notin Ended => q.tries < MaxAttempts)
      BY <1>2, <2>2 DEF Stages, Ended
    <2>4. q \in JobType
      BY <2>2, <2>3 DEF JobType
    <2>5. job' = [job EXCEPT ![j] = q]
      BY <1>5 DEF FailJob
    <2> HIDE DEF q
    <2>6. job' \in [Jobs -> JobType] /\ job'[j] = q /\ \A i \in Jobs \ {j} : job'[i] = job[i]
      BY <1>1, <2>4, <2>5
    <2> QED
      BY <2>3, <2>6 DEF JobInv
  <1>6. CASE Raise(j)
    <2>1. Turn(j, FirstStep(j)) /\ job[j].at = "absent"
      BY <1>6 DEF Raise, Does
    <2> QED
      BY <1>2, <1>3, <2>1 DEF JobInv, Ended
  <1>7. CASE \/ Compare(j) \/ TakeSnapshot(j) \/ UpdateList(j) \/ DeleteOverrides(j)
             \/ ForgetSnapshot(j) \/ InvalidatePages(j)
    <2>1. /\ job[j].at \notin Ended
          /\ \E label \in Stages \ {"absent"} : Turn(j, label)
      BY <1>7 DEF Compare, TakeSnapshot, UpdateList, DeleteOverrides, ForgetSnapshot,
                  InvalidatePages, Does, Ended, Stages
    <2> QED
      BY <1>3, <2>1 DEF Ended
  <1> QED
    BY <1>4, <1>5, <1>6, <1>7 DEF Sync

PricesTyped ==
    /\ product \in Versions \cup {None}
    /\ rule \in [Tiers -> Versions] /\ list \in [Tiers -> Versions \cup {None}]
    /\ tierOf \in [Buyers -> Tiers] /\ changes \in 0..MaxChanges
    /\ ProductInv

CachesTyped ==
    /\ shown \in [Tiers -> Entries] /\ priced \in [Buyers -> Entries]
    /\ snapshot \in Versions \cup {None}
    /\ admin \in {"idle", "pages", "prices"}

\* What the merchant and the webhooks do to the prices.
LEMMA PricesStep ==
    ASSUME TypeOK, ProductInv, [Next]_vars
    PROVE  PricesTyped'
  <1>1. PricesTyped
    BY DEF TypeOK, PricesTyped
  <1>2. CASE UNCHANGED prices
    BY <1>1, <1>2 DEF prices, PricesTyped, ProductInv
  <1>3. CASE \E t \in Tiers : EditTier(t)
    <2>1. PICK t \in Tiers : EditTier(t)
      BY <1>3
    <2>2. changes \in Nat /\ changes + 1 \in Versions
      BY <1>1, <2>1 DEF EditTier, NewEdition, NewOverride, PricesTyped, Versions
    <2>3. rule' \in [Tiers -> Versions] /\ list' \in [Tiers -> Versions \cup {None}]
      BY <1>1, <2>1, <2>2 DEF EditTier, NewEdition, NewOverride, PricesTyped
    <2>4. changes' = changes + 1 /\ UNCHANGED <<product, tierOf>>
      BY <2>1 DEF EditTier, NewEdition, NewOverride
    <2>5. ProductInv' /\ changes' \in 0..MaxChanges
      BY <2>2, <2>4 DEF ProductInv, Versions
    <2> QED
      BY <1>1, <2>3, <2>4, <2>5 DEF PricesTyped
  <1>4. CASE \E b \in Buyers, t \in Tiers : MoveBuyer(b, t)
    <2>1. changes \in 0..MaxChanges /\ changes < MaxChanges /\ changes' = changes + 1
          /\ UNCHANGED <<product, rule, list>>
      BY <1>1, <1>4 DEF MoveBuyer, PricesTyped
    <2>2. tierOf' \in [Buyers -> Tiers]
      BY <1>1, <1>4 DEF MoveBuyer, PricesTyped
    <2>3. ProductInv' /\ changes' \in 0..MaxChanges
      BY <2>1 DEF ProductInv
    <2> QED
      BY <1>1, <2>1, <2>2, <2>3 DEF PricesTyped
  <1>5. CASE \E j \in Jobs : Raise(j)
    <2>1. PICK j \in Jobs : Raise(j)
      BY <1>5
    <2>2. /\ changes \in 0..MaxChanges /\ changes < MaxChanges /\ changes' = changes + 1
          /\ product # None /\ UNCHANGED <<rule, list, tierOf>>
          /\ product' = product + 1 \/ product' = None \/ product' = product
      BY <1>1, <2>1 DEF Raise, PricesTyped
    <2>3. product \in 0..changes
      BY <2>2 DEF ProductInv
    <2>4. ProductInv' /\ product' \in Versions \cup {None} /\ changes' \in 0..MaxChanges
      BY <2>2, <2>3 DEF ProductInv, Versions
    <2> QED
      BY <1>1, <2>2, <2>4 DEF PricesTyped
  <1>6. CASE \E j \in Jobs : UpdateList(j) \/ DeleteOverrides(j)
    <2>1. PICK j \in Jobs : UpdateList(j) \/ DeleteOverrides(j)
      BY <1>6
    <2>2. job[j].seen \in Versions \cup {None}
      BY DEF TypeOK
    <2>3. list' \in [Tiers -> Versions \cup {None}] /\ UNCHANGED <<product, rule, tierOf, changes>>
      BY <2>1, <2>2 DEF UpdateList, DeleteOverrides
    <2> QED
      BY <1>1, <2>3 DEF PricesTyped, ProductInv
  <1>7. CASE UNCHANGED vars
    BY <1>2, <1>7 DEF vars
  <1>8. CASE Tick \/ InvalidateCatalog \/ InvalidatePrices \/ LoseInvalidation
    BY <1>2, <1>8 DEF Tick, InvalidateCatalog, InvalidatePrices, LoseInvalidation
  <1>9. CASE \E r \in Requests : Read(r)
    BY <1>2, <1>9 DEF Read, Ask, Hit, Miss, TryLock, Poll, Fetch, TakePrices, LoadPrices,
                      KeepPrices, Store, Unlock, Fail, Die
  <1>10. CASE \E j \in Jobs : \/ FetchProduct(j) \/ Compare(j) \/ TakeSnapshot(j)
                               \/ ForgetSnapshot(j) \/ InvalidatePages(j) \/ FailJob(j)
    BY <1>2, <1>10 DEF FetchProduct, Compare, TakeSnapshot, ForgetSnapshot, InvalidatePages, FailJob
  <1> QED
    BY <1>3, <1>4, <1>5, <1>6, <1>7, <1>8, <1>9, <1>10 DEF Next, Merchant, Sync

\* What is stored is a price, and ages.
LEMMA CachesStep ==
    ASSUME TypeOK, RequestInv, [Next]_vars
    PROVE  CachesTyped'
  <1>1. CachesTyped
    BY DEF TypeOK, CachesTyped
  <1>2. CASE UNCHANGED <<shown, priced, snapshot, admin>>
    BY <1>1, <1>2 DEF CachesTyped
  <1>3. None \in Entries
    BY DEF Entries
  <1>4. ASSUME NEW p \in Prices PROVE Fresh(p) \in Entries
    BY DEF Fresh, Entries
  <1>5. CASE \E r \in Requests : KeepPrices(r) \/ Store(r)
    <2>1. PICK r \in Requests : KeepPrices(r) \/ Store(r)
      BY <1>5
    <2>2. request[r].price \in Prices
      BY DEF TypeOK
    <2>3. Fresh(request[r].price) \in Entries
      BY <1>4, <2>2
    <2>4. CASE KeepPrices(r)
      BY <1>1, <2>3, <2>4 DEF KeepPrices, CachesTyped
    <2>5. CASE Store(r)
      BY <1>1, <2>3, <2>5 DEF Store, CachesTyped
    <2> QED
      BY <2>1, <2>4, <2>5
  <1>6. CASE Tick
    <2>1. ASSUME NEW e \in Entries PROVE Aged(e) \in Entries
      <3>1. CASE e = None \/ e.left = 1
        BY <1>3, <3>1 DEF Aged
      <3>2. CASE e # None /\ e.left # 1
        <4>1. e \in [price : Prices, left : 1..PageTtl] /\ e.left - 1 \in 1..PageTtl
          BY <3>2 DEF Entries
        <4>2. Aged(e) = [e EXCEPT !.left = e.left - 1]
          BY <3>2 DEF Aged
        <4> QED
          BY <4>1, <4>2 DEF Entries
      <3> QED
        BY <3>1, <3>2
    <2>2. shown' \in [Tiers -> Entries] /\ priced' \in [Buyers -> Entries]
      BY <1>1, <1>6, <2>1 DEF Tick, CachesTyped
    <2>3. UNCHANGED <<snapshot, admin>>
      BY <1>6 DEF Tick
    <2> QED
      BY <1>1, <2>2, <2>3 DEF CachesTyped
  <1>7. CASE InvalidateCatalog \/ InvalidatePrices \/ LoseInvalidation
    BY <1>1, <1>3, <1>7 DEF InvalidateCatalog, InvalidatePrices, LoseInvalidation, CachesTyped, caches
  <1>8. CASE \E t \in Tiers : EditTier(t)
    BY <1>1, <1>8 DEF EditTier, NewEdition, NewOverride, CachesTyped, caches
  <1>9. CASE \E b \in Buyers, t \in Tiers : MoveBuyer(b, t)
    BY <1>2, <1>9 DEF MoveBuyer, caches
  <1>10. CASE \E j \in Jobs : TakeSnapshot(j) \/ ForgetSnapshot(j) \/ InvalidatePages(j)
    <2>1. PICK j \in Jobs : TakeSnapshot(j) \/ ForgetSnapshot(j) \/ InvalidatePages(j)
      BY <1>10
    <2>2. job[j].seen \in Versions \cup {None}
      BY DEF TypeOK
    <2> QED
      BY <1>1, <1>3, <2>1, <2>2 DEF TakeSnapshot, ForgetSnapshot, InvalidatePages, CachesTyped
  <1>11. CASE \E j \in Jobs : \/ Raise(j) \/ FetchProduct(j) \/ Compare(j) \/ UpdateList(j)
                               \/ DeleteOverrides(j) \/ FailJob(j)
    BY <1>2, <1>11 DEF Raise, FetchProduct, Compare, UpdateList, DeleteOverrides, FailJob, caches
  <1>12. CASE \E r \in Requests : Read(r) /\ ~KeepPrices(r) /\ ~Store(r)
    BY <1>2, <1>12 DEF Read, Ask, Hit, Miss, TryLock, Poll, Fetch, TakePrices, LoadPrices,
                       Unlock, Fail, Die, caches
  <1>13. CASE UNCHANGED vars
    BY <1>2, <1>13 DEF vars, caches
  <1> QED
    BY <1>5, <1>6, <1>7, <1>8, <1>9, <1>10, <1>11, <1>12, <1>13 DEF Next, Merchant, Sync

LEMMA InitInv == Init => IInv
  <1> SUFFICES ASSUME Init PROVE IInv
    OBVIOUS
  <1>1. NoRequest \in ReqType /\ NoRequest.at = "idle" /\ ~NoRequest.locked
    BY DEF NoRequest, ReqType, Labels, Prices
  <1>2. request \in [Requests -> ReqType] /\ \A r \in Requests : request[r] = NoRequest
    BY <1>1 DEF Init
  <1>3. /\ job \in [Jobs -> JobType]
        /\ \A j \in Jobs : job[j].at = "absent" /\ job[j].tries = 0
    BY DEF Init, JobType, Stages
  <1>4. PricesTyped
    BY DEF Init, PricesTyped, ProductInv, Versions
  <1>5. CachesTyped /\ lock \in [Tiers -> 0..LockTtl] /\ robbed \subseteq Requests
    BY DEF Init, CachesTyped, Entries
  <1> QED
    BY <1>1, <1>2, <1>3, <1>4, <1>5
       DEF IInv, TypeOK, ReqType, JobType, PricesTyped, CachesTyped, RequestInv, JobInv, LockInv,
           OneBuilder, Bare, Ended

\* Every step preserves the inductive invariant.
LEMMA Invariance == IInv /\ [Next]_vars => IInv'
  <1> SUFFICES ASSUME IInv, [Next]_vars PROVE IInv'
    OBVIOUS
  <1>1. TypeOK /\ RequestInv /\ JobInv /\ ProductInv /\ LockInv /\ OneBuilder
    BY DEF IInv
  <1>2. PricesTyped' /\ CachesTyped'
    BY <1>1, PricesStep, CachesStep
  <1> DEFINE Rest == /\ request' \in [Requests -> ReqType] /\ job' \in [Jobs -> JobType]
                     /\ lock' \in [Tiers -> 0..LockTtl] /\ robbed' \subseteq Requests
                     /\ RequestInv' /\ JobInv' /\ LockInv' /\ OneBuilder'
  <1>3. /\ request \in [Requests -> ReqType] /\ job \in [Jobs -> JobType]
        /\ lock \in [Tiers -> 0..LockTtl] /\ robbed \subseteq Requests
    BY <1>1 DEF TypeOK, ReqType, JobType
  <1>4. UNCHANGED request => RequestInv'
    BY <1>1 DEF RequestInv
  <1>5. UNCHANGED job => JobInv'
    BY <1>1 DEF JobInv
  <1>6. UNCHANGED <<request, lock, robbed>> => LockInv' /\ OneBuilder'
    BY <1>1 DEF LockInv, OneBuilder
  <1>7. ASSUME \E r \in Requests : Read(r) PROVE Rest
    <2>1. PICK r \in Requests : Read(r)
      BY <1>7
    <2>2. UNCHANGED job
      BY <2>1 DEF Read, Ask, Hit, Miss, TryLock, Poll, Fetch, TakePrices, LoadPrices,
                  KeepPrices, Store, Unlock, Fail, Die
    <2>3. CASE TryLock(r)
      <3>1. UNCHANGED robbed
        BY <2>3 DEF TryLock
      <3> QED
        BY <1>1, <1>3, <1>5, <2>2, <2>3, <3>1, TryLockStep
    <2>4. CASE Unlock(r) \/ Die(r)
      BY <1>1, <1>3, <1>5, <2>2, <2>4, UnlockStep
    <2>5. CASE \/ \E b \in Buyers : Ask(r, b)
               \/ Hit(r) \/ Miss(r) \/ Poll(r) \/ Fetch(r) \/ TakePrices(r) \/ LoadPrices(r)
               \/ KeepPrices(r) \/ Store(r) \/ Fail(r)
      <3>1. UNCHANGED lock /\ UNCHANGED robbed
        BY <2>5 DEF Ask, Hit, Miss, Poll, Fetch, TakePrices, LoadPrices, KeepPrices, Store, Fail, caches
      <3>2. /\ request' \in [Requests -> ReqType]
            /\ RequestInv'
            /\ \A s \in Requests : request'[s].locked => /\ request[s].locked
                                                        /\ request'[s].tier = request[s].tier
        BY <1>1, <2>5, Quiet
      <3>3. LockInv' /\ OneBuilder'
        BY <1>1, <3>1, <3>2, LocksKept
      <3> QED
        BY <1>3, <1>5, <2>2, <3>1, <3>2, <3>3
    <2> QED
      BY <2>1, <2>3, <2>4, <2>5 DEF Read
  <1>8. ASSUME \E j \in Jobs : Sync(j) PROVE Rest
    <2>1. PICK j \in Jobs : Sync(j)
      BY <1>8
    <2>2. job' \in [Jobs -> JobType] /\ JobInv'
      BY <1>1, <2>1, JobSteps
    <2>3. UNCHANGED request
      BY <2>1 DEF Sync, Raise, FetchProduct, Compare, TakeSnapshot, UpdateList, DeleteOverrides,
                  ForgetSnapshot, InvalidatePages, FailJob
    <2>4. CASE InvalidatePages(j)
      <3>1. DropPages
        BY <2>4 DEF InvalidatePages
      <3> QED
        BY <1>1, <1>3, <1>4, <2>2, <2>3, <3>1, DropStep
    <2>5. CASE ~InvalidatePages(j)
      <3>1. UNCHANGED <<lock, robbed>>
        BY <2>1, <2>5 DEF Sync, Raise, FetchProduct, Compare, TakeSnapshot, UpdateList,
                          DeleteOverrides, ForgetSnapshot, FailJob, caches
      <3> QED
        BY <1>3, <1>4, <1>6, <2>2, <2>3, <3>1
    <2> QED
      BY <2>4, <2>5
  <1>9. ASSUME Merchant \/ Tick \/ UNCHANGED vars PROVE Rest
    <2>1. UNCHANGED <<request, job>>
      BY <1>9 DEF Merchant, EditTier, NewEdition, NewOverride, InvalidateCatalog, InvalidatePrices, LoseInvalidation,
                  MoveBuyer, Tick, vars
    <2>2. CASE InvalidateCatalog
      <3>1. DropPages
        BY <2>2 DEF InvalidateCatalog
      <3> QED
        BY <1>1, <1>3, <1>4, <1>5, <2>1, <3>1, DropStep
    <2>3. CASE Tick
      BY <1>1, <1>3, <1>4, <1>5, <2>1, <2>3, TickStep
    <2>4. CASE ~InvalidateCatalog /\ ~Tick
      <3>1. UNCHANGED <<lock, robbed>>
        BY <1>9, <2>4 DEF Merchant, EditTier, NewEdition, NewOverride, InvalidatePrices, LoseInvalidation, MoveBuyer,
                          vars, caches
      <3> QED
        BY <1>3, <1>4, <1>5, <1>6, <2>1, <3>1
    <2> QED
      BY <2>2, <2>3, <2>4
  <1>10. Rest
    BY <1>7, <1>8, <1>9 DEF Next
  <1> QED
    BY <1>2, <1>10
       DEF IInv, TypeOK, ReqType, JobType, PricesTyped, CachesTyped

THEOREM Invariant == Spec => []IInv
  BY InitInv, Invariance, PTL DEF Spec

\* Types of prices, caches, requests and jobs, whatever the TTLs and however many
\* buyers, tiers and requests (catalog.service.ts, pricing.service.ts).
THEOREM CatalogTyped == Spec => []TypeOK
  <1>1. IInv => TypeOK
    BY DEF IInv
  <1> QED
    BY <1>1, Invariant, PTL

\* The lock of a page keeps its second builder out unless the first lost it
\* (getCatalogForBuyer, invalidateMerchantCatalog, invalidatePages).
THEOREM OneBuilderUnlessRobbed == Spec => []OneBuilder
  <1>1. IInv => OneBuilder
    BY DEF IInv
  <1> QED
    BY <1>1, Invariant, PTL
=============================================================================
