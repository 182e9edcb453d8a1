---------------------------- MODULE ManagerProofs ----------------------------
(* Theorems of module Manager, for any keys, any calls and any clients.    *)
(* ManagerInv is inductive: the invariants of the run, and what they rest  *)
(* on, that the registered keys are finitely many (even when Keys is not)  *)
(* and that only channels that were made are closed.                       *)
EXTENDS Manager, FiniteSetTheorems, TLAPS

(* Nobody is parked on a counter at 0. *)
ParkedAboveZero == waiter = "parked" => wg > 0

ManagerInv ==
    /\ ManagerTypeOK
    /\ closed \subseteq made
    /\ CloseOnce
    /\ IsFiniteSet(Registered)
    /\ WaitGroupCovers
    /\ ParkedAboveZero

LEMMA ManagerInitInv == ManagerInit => ManagerInv
<1> SUFFICES ASSUME ManagerInit PROVE ManagerInv
  OBVIOUS
<1>1. Registered = {}
  BY DEF ManagerInit, Registered
<1> QED BY <1>1, FS_EmptySet, NoChanAssumption
        DEF ManagerInit, ManagerInv, ManagerTypeOK, CloseOnce, WaitGroupCovers, ParkedAboveZero

(* Subscribe: one more key at most, and always one more in the counter.    *)
LEMMA SubscribeInv ==
    ASSUME ManagerInv, NEW c \in Calls, NEW k \in Keys, Subscribe(c, k)
    PROVE  ManagerInv'
<1> USE NoChanAssumption DEF LoadOrStore, Subscribed
<1>1. Registered' = Registered \cup {k}
  BY DEF Subscribe, Registered, ManagerInv, ManagerTypeOK
<1>2. ManagerTypeOK' /\ (closed \subseteq made)'
  BY DEF Subscribe, ManagerInv, ManagerTypeOK
<1>3. CloseOnce'
  <2>1. \A l \in Keys : l # k => subs'[l] = subs[l]
    BY DEF Subscribe, ManagerInv, ManagerTypeOK
  <2>2. CASE Subscribed(k)
    <3>1. subs' = subs
      BY <2>2 DEF Subscribe, ManagerInv, ManagerTypeOK
    <3> QED BY <3>1 DEF CloseOnce, Registered, Subscribe, ManagerInv
  <2>3. CASE ~Subscribed(k)
    <3>1. subs'[k] = c /\ c \notin closed
      BY <2>3 DEF Subscribe, ManagerInv, ManagerTypeOK
    <3>2. \A l \in Registered : subs[l] # c
      BY DEF Subscribe, CloseOnce, ManagerInv
    <3> QED BY <1>1, <2>1, <2>3, <3>1, <3>2 DEF CloseOnce, Registered, Subscribe, ManagerInv
  <2> QED BY <2>2, <2>3
<1>4. IsFiniteSet(Registered)' /\ WaitGroupCovers'
  <2>1. IsFiniteSet(Registered) /\ Cardinality(Registered) \in Nat
    BY FS_CardinalityType DEF ManagerInv
  <2>2. /\ IsFiniteSet(Registered \cup {k})
        /\ Cardinality(Registered \cup {k})
              = IF k \in Registered THEN Cardinality(Registered) ELSE Cardinality(Registered) + 1
    BY <2>1, FS_AddElement
  <2>3. wg' = wg + 1 /\ wg \in Nat
    BY DEF Subscribe, ManagerInv, ManagerTypeOK
  <2> QED BY <1>1, <2>1, <2>2, <2>3 DEF WaitGroupCovers, ManagerInv
<1>5. ParkedAboveZero'
  BY DEF ParkedAboveZero, Subscribe, ManagerInv, ManagerTypeOK
<1> QED BY <1>2, <1>3, <1>4, <1>5 DEF ManagerInv

(* Unsubscribe of a registered key: one key less, and one less in the      *)
(* counter, which was at least 1 because it covered that key.              *)
LEMMA UnsubscribeInv ==
    ASSUME ManagerInv, NEW k \in Keys, UnsubscribeFinds(k)
    PROVE  ManagerInv'
<1>1. k \in Registered /\ Registered' = Registered \ {k}
  BY DEF UnsubscribeFinds, Registered, Subscribed, ManagerInv, ManagerTypeOK
<1>2. /\ IsFiniteSet(Registered)'
      /\ Cardinality(Registered') = Cardinality(Registered) - 1
      /\ Cardinality(Registered) \in Nat
      /\ Cardinality(Registered') \in Nat
  BY <1>1, FS_RemoveElement, FS_CardinalityType DEF ManagerInv
<1>3. wg \in Nat /\ wg >= 1 /\ wg' = wg - 1
  BY <1>2 DEF UnsubscribeFinds, Done, WaitGroupCovers, ManagerInv, ManagerTypeOK
<1>4. ManagerTypeOK' /\ (closed \subseteq made)'
  BY <1>1, <1>3
     DEF UnsubscribeFinds, Done, Registered, CloseOnce, ManagerInv, ManagerTypeOK
<1>5. CloseOnce'
  <2>1. \A l \in Keys : l # k => subs'[l] = subs[l]
    BY DEF UnsubscribeFinds, ManagerInv, ManagerTypeOK
  <2> QED BY <1>1, <2>1 DEF CloseOnce, Registered, UnsubscribeFinds, ManagerInv
<1>6. WaitGroupCovers'
  BY <1>2, <1>3 DEF WaitGroupCovers, ManagerInv
<1>7. ParkedAboveZero'
  BY <1>3 DEF ParkedAboveZero, UnsubscribeFinds, Done, ManagerInv, ManagerTypeOK
<1> QED BY <1>2, <1>4, <1>5, <1>6, <1>7 DEF ManagerInv

(* Wait and its return move the waiter only; it parks on a positive        *)
(* counter.                                                                *)
LEMMA WaitInv == ManagerInv /\ (Wait \/ WaitReturns) => ManagerInv'
<1> SUFFICES ASSUME ManagerInv, Wait \/ WaitReturns PROVE ManagerInv'
  OBVIOUS
<1>1. UNCHANGED <<subs, made, closed, wg>>
  BY DEF Wait, WaitReturns
<1>2. Registered' = Registered
  BY <1>1 DEF Registered
<1>3. ManagerTypeOK' /\ ParkedAboveZero'
  BY DEF ManagerInv, ManagerTypeOK, ParkedAboveZero, Wait, WaitReturns
<1> QED BY <1>1, <1>2, <1>3 DEF ManagerInv, CloseOnce, WaitGroupCovers

LEMMA ManagerStepInv == ManagerInv /\ [ManagerNext]_managerVars => ManagerInv'
<1> SUFFICES ASSUME ManagerInv, [ManagerNext]_managerVars PROVE ManagerInv'
  OBVIOUS
<1>1. ASSUME NEW c \in Calls, NEW k \in Keys, Subscribe(c, k) PROVE ManagerInv'
  BY <1>1, SubscribeInv
<1>2. ASSUME NEW k \in Keys, UnsubscribeFinds(k) PROVE ManagerInv'
  BY <1>2, UnsubscribeInv
<1>3. CASE Wait \/ WaitReturns
  BY <1>3, WaitInv
<1>4. CASE UNCHANGED managerVars
  <2>1. Registered' = Registered
    BY <1>4 DEF managerVars, Registered
  <2> QED BY <1>4, <2>1
          DEF managerVars, ManagerInv, ManagerTypeOK, CloseOnce, WaitGroupCovers, ParkedAboveZero
<1> QED BY <1>1, <1>2, <1>3, <1>4
        DEF ManagerNext, Unsubscribe, UnsubscribeMisses

THEOREM ManagerInvariant == ManagerSpec => []ManagerInv
<1> QED BY ManagerInitInv, ManagerStepInv, PTL DEF ManagerSpec

(* The variables keep their types; the counter, in particular, is never    *)
(* negative, which is where sync.WaitGroup panics.                         *)
THEOREM ManagerTypeCorrect == ManagerSpec => []ManagerTypeOK
<1>1. ManagerInv => ManagerTypeOK
  BY DEF ManagerInv
<1> QED BY <1>1, ManagerInvariant, PTL

(* Unsubscribe never closes a closed channel.                              *)
THEOREM ManagerClosesOnce == ManagerSpec => []CloseOnce
<1>1. ManagerInv => CloseOnce
  BY DEF ManagerInv
<1> QED BY <1>1, ManagerInvariant, PTL

(* The counter covers the registered keys.                                 *)
THEOREM ManagerCounts == ManagerSpec => []WaitGroupCovers
<1>1. ManagerInv => WaitGroupCovers
  BY DEF ManagerInv
<1> QED BY <1>1, ManagerInvariant, PTL
=============================================================================
