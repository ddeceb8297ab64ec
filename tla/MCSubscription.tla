---------------------------- MODULE MCSubscription ----------------------------
(* A subscription that is created and then lapses, two failed    *)
(* payments (one delivered twice) and a successful one; two strikes suspend.  *)
(* One request of the owner.                                                  *)
EXTENDS Subscription, TLC

CONSTANTS s1, s2, f1, f2, p1, sub, t1, t2, t3, r1

MCKind    == s1 :> "created" @@ s2 :> "lapsed" @@ f1 :> "failed" @@ f2 :> "failed" @@ p1 :> "paid"
MCSubject == s1 :> sub @@ s2 :> sub @@ f1 :> t1 @@ f2 :> t2 @@ p1 :> t3
MCAt      == s1 :> 1 @@ s2 :> 2 @@ f1 :> 3 @@ f2 :> 4 @@ p1 :> 5
MCDeliveries == {<<e, 1>> : e \in Events} \cup {<<f1, 2>>}
MCEventOf == [d \in MCDeliveries |-> d[1]]
=============================================================================
