----------------------------- MODULE QuarantineProofs -----------------------------
(***************************************************************************)
(* Proofs about Quarantine.  A plan stays exact while it is applied: what  *)
(* is left of it is what a new suggestion would say.                       *)
(***************************************************************************)
EXTENDS Quarantine, TLAPS

\* What the results say of a test, whether or not it is quarantined.
Wanted(t)   == Judged(t) /\ Qualifies(t)
Unwanted(t) == BelowThreshold(t) \/ Failures(t) = {}

\* What is left of the plan is what a new suggestion would say.
PlanInv ==
  /\ pc = "adding"   => todo = ToAdd /\ removals = ToRemove
  /\ pc = "removing" => ToAdd = {} /\ todo = ToRemove

\* Nothing to do since the last complete apply, but for the backfill.
QuietInv == quiet => ToAdd = {} /\ ToRemove \subseteq legacy

\* Who holds a list, and where it comes from.
ProcessInv ==
  /\ pc # "adding" => removals = {}
  /\ pc \in {"closed", "open", "applied"} => todo = {}
  /\ pc = "backfill" => todo \subseteq legacy

Inv == TypeOK /\ ProcessInv /\ PlanInv

-----------------------------------------------------------------------------
(* Lemmas about a suggestion.                                              *)

LEMMA SuggestedByResults ==
  /\ ToAdd    = {t \in Tests : Wanted(t) /\ quarantined[t] = "no"}
  /\ ToRemove = {t \in Tests : Unwanted(t) /\ quarantined[t] # "no"}
  BY DEF ToAdd, ToRemove, Wanted, Unwanted, IsQuarantined

LEMMA NeverBoth == \A t : ~(Wanted(t) /\ Unwanted(t))
  BY DEF Wanted, Unwanted, BelowThreshold, Judged

\* The opinion depends on the day and the results only.
LEMMA SameOpinion ==
  ASSUME UNCHANGED <<today, results>>
  PROVE  \A t : (Wanted(t)' <=> Wanted(t)) /\ (Unwanted(t)' <=> Unwanted(t))
  <1> TAKE t
  <1>1. Recent(t)' = Recent(t)
    BY DEF Recent
  <1>2. Passes(t)' = Passes(t) /\ Failures(t)' = Failures(t)
    BY <1>1 DEF Passes, Failures
  <1>3. Evidence(t)' = Evidence(t)
    BY <1>2 DEF Evidence
  <1>4. /\ Judged(t)' <=> Judged(t)
        /\ RateAtLeast(t, Threshold)' <=> RateAtLeast(t, Threshold)
        /\ RateAtLeast(t, DetectionPercent)' <=> RateAtLeast(t, DetectionPercent)
    BY <1>1, <1>2, <1>3 DEF Judged, RateAtLeast
  <1>5. (Qualifies(t)' <=> Qualifies(t)) /\ (IsBroken(t)' <=> IsBroken(t))
    BY <1>1, <1>2, <1>3, <1>4 DEF Qualifies, IsFlaky, IsBroken
  <1> QED  BY <1>2, <1>4, <1>5 DEF Wanted, Unwanted, BelowThreshold

LEMMA SuggestedAfter ==
  ASSUME UNCHANGED <<today, results>>
  PROVE  /\ ToAdd'    = {t \in Tests : Wanted(t) /\ quarantined'[t] = "no"}
         /\ ToRemove' = {t \in Tests : Unwanted(t) /\ quarantined'[t] # "no"}
  <1>1. /\ ToAdd'    = {t \in Tests : Wanted(t)' /\ quarantined'[t] = "no"}
        /\ ToRemove' = {t \in Tests : Unwanted(t)' /\ quarantined'[t] # "no"}
    BY DEF ToAdd, ToRemove, Wanted, Unwanted, IsQuarantined
  <1> QED  BY <1>1, SameOpinion

LEMMA SameSuggestion ==
  ASSUME UNCHANGED <<today, results, quarantined>>
  PROVE  ToAdd' = ToAdd /\ ToRemove' = ToRemove
  BY SuggestedAfter, SuggestedByResults

-----------------------------------------------------------------------------
(* The invariants are inductive.                                           *)

LEMMA TypeInv == QuarantineAssumption /\ TypeOK /\ ProcessInv /\ [Next]_vars => TypeOK' /\ ProcessInv'
  <1> SUFFICES ASSUME QuarantineAssumption, TypeOK, ProcessInv, [Next]_vars PROVE TypeOK' /\ ProcessInv'
    OBVIOUS
  <1> USE DEF TypeOK, ProcessInv, QuarantineAssumption
  <1>1. CASE Tick
    <2>1. today' \in Days
      BY <1>1 DEF Tick, Days
    <2> QED  BY <1>1, <2>1 DEF Tick, store, process
  <1>2. ASSUME NEW t \in Tests, Record(t) PROVE TypeOK' /\ ProcessInv'
    <2>1. results' \subseteq Row
      <3>1. PICK day \in 0 .. today, commit \in Commits, status \in ResultStatuses, copy \in 1 .. MaxResults :
              results' = results \cup {[test |-> t, day |-> day, commit |-> commit,
                                        status |-> status, copy |-> copy]}
        BY <1>2 DEF Record
      <3>2. day \in Days
        BY DEF Days
      <3> QED  BY <3>1, <3>2 DEF Row
    <2> QED  BY <1>2, <2>1 DEF Record, process
  <1>3. ASSUME NEW t \in Tests, AddQuarantine(t) PROVE TypeOK' /\ ProcessInv'
    BY <1>3 DEF AddQuarantine, process, Reasons, IsQuarantined
  <1>4. CASE Open
    BY <1>4 DEF Open, store
  <1>5. CASE Suggest
    BY <1>5 DEF Suggest, store, ToAdd, ToRemove, IsQuarantined
  <1>6. CASE Opened \/ AllAdded \/ AllRemoved \/ Close
    BY <1>6 DEF Opened, AllAdded, AllRemoved, Close, store
  <1>7. ASSUME NEW t \in Tests, Item(t) PROVE TypeOK' /\ ProcessInv'
    BY <1>7 DEF Item, Backfill, Add, Remove, IsQuarantined, Reasons
  <1>8. CASE Die
    BY <1>8 DEF Die, store
  <1>9. CASE UNCHANGED vars
    BY <1>9 DEF vars, store, process
  <1> QED  BY <1>1, <1>2, <1>3, <1>4, <1>5, <1>6, <1>7, <1>8, <1>9 DEF Next, World, Advance

\* A plan is not disturbed by its own application.
LEMMA PlanStaysExact == QuarantineAssumption /\ Inv /\ [Next]_vars => PlanInv'
  <1> SUFFICES ASSUME QuarantineAssumption, Inv, [Next]_vars PROVE PlanInv'
    OBVIOUS
  <1> USE DEF Inv, TypeOK, ProcessInv, PlanInv
  <1>1. CASE World \/ Open \/ Opened \/ AllRemoved \/ Close \/ Die
    BY <1>1 DEF World, Tick, Record, AddQuarantine, Open, Opened, AllRemoved, Close, Die, process
  <1>2. CASE Suggest
    BY <1>2, SameSuggestion DEF Suggest, store
  <1>3. ASSUME NEW t \in Tests, Backfill(t) PROVE PlanInv'
    BY <1>3 DEF Backfill
  <1>4. ASSUME NEW t \in Tests, Add(t) PROVE PlanInv'
    <2>1. /\ pc = "adding" /\ pc' = "adding" /\ t \in ToAdd
          /\ todo' = ToAdd \ {t} /\ removals' = ToRemove
          /\ quarantined' = [quarantined EXCEPT ![t] = "plan:flaky_rate_exceeded"]
          /\ UNCHANGED <<today, results>>
      BY <1>4 DEF Add
    <2>2. ToAdd' = ToAdd \ {t} /\ ToRemove' = ToRemove
      BY <2>1, SuggestedAfter, NeverBoth, SuggestedByResults
    <2> QED  BY <2>1, <2>2
  <1>5. CASE AllAdded
    BY <1>5, SameSuggestion DEF AllAdded, store
  <1>6. ASSUME NEW t \in Tests, Remove(t) PROVE PlanInv'
    <2>1. /\ pc = "removing" /\ pc' = "removing" /\ ToAdd = {} /\ t \in ToRemove
          /\ todo' = ToRemove \ {t}
          /\ quarantined' = [quarantined EXCEPT ![t] = "no"]
          /\ UNCHANGED <<today, results>>
      BY <1>6 DEF Remove
    <2>2. ToAdd' = {} /\ ToRemove' = ToRemove \ {t}
      BY <2>1, SuggestedAfter, NeverBoth, SuggestedByResults
    <2> QED  BY <2>1, <2>2
  <1>7. CASE UNCHANGED vars
    BY <1>7, SameSuggestion DEF vars, store, process
  <1> QED  BY <1>1, <1>2, <1>3, <1>4, <1>5, <1>6, <1>7 DEF Next, Advance, Item

\* Only the world and the legacy rows give an apply something to do.
LEMMA QuietStays == Inv /\ QuietInv /\ [Next]_vars => QuietInv'
  <1> SUFFICES ASSUME Inv, QuietInv, [Next]_vars, quiet' PROVE ToAdd' = {} /\ ToRemove' \subseteq legacy'
    BY DEF QuietInv
  <1> USE DEF Inv, TypeOK, ProcessInv, PlanInv, QuietInv
  <1>1. CASE World
    BY <1>1 DEF World, Tick, Record, AddQuarantine
  <1>2. CASE Open \/ Opened \/ Suggest \/ AllAdded \/ Close \/ Die
    <2>1. UNCHANGED <<today, results, quarantined, legacy, quiet>>
      BY <1>2 DEF Open, Opened, Suggest, AllAdded, Close, Die, store
    <2> QED  BY <2>1, SameSuggestion
  <1>3. CASE AllRemoved
    <2>1. UNCHANGED <<today, results, quarantined, legacy>> /\ ToAdd = {} /\ ToRemove = {}
      BY <1>3 DEF AllRemoved, store
    <2> QED  BY <2>1, SameSuggestion
  <1>4. ASSUME NEW t \in Tests, Item(t) PROVE ToAdd' = {} /\ ToRemove' \subseteq legacy'
    <2>1. UNCHANGED <<today, results, legacy>> /\ ToAdd = {} /\ ToRemove \subseteq legacy
      BY <1>4 DEF Item, Backfill, Add, Remove
    <2>2. CASE Backfill(t)
      <3>1. t \in legacy
        BY <2>2 DEF Backfill
      <3>2. \A u \in Tests \ {t} : quarantined'[u] = quarantined[u]
        BY <2>2 DEF Backfill
      <3>3. quarantined'[t] = "no" => quarantined[t] = "no"
        BY <2>2 DEF Backfill, IsQuarantined
      <3> QED  BY <2>1, <3>1, <3>2, <3>3, SuggestedAfter, SuggestedByResults
    <2>3. CASE Add(t)
      BY <2>1, <2>3 DEF Add
    <2>4. CASE Remove(t)
      <3>1. t \in ToRemove /\ quarantined' = [quarantined EXCEPT ![t] = "no"]
        BY <2>4 DEF Remove
      <3> QED  BY <2>1, <3>1, SuggestedAfter, SuggestedByResults, NeverBoth
    <2> QED  BY <1>4, <2>2, <2>3, <2>4 DEF Item
  <1>5. CASE UNCHANGED vars
    BY <1>5, SameSuggestion DEF vars, store
  <1> QED  BY <1>1, <1>2, <1>3, <1>4, <1>5 DEF Next, Advance

LEMMA InitInv == QuarantineAssumption /\ Init => Inv /\ QuietInv
  <1> SUFFICES ASSUME QuarantineAssumption, Init PROVE Inv /\ QuietInv
    OBVIOUS
  <1>1. today \in Days /\ interrupts \in 0 .. MaxInterrupts
    BY DEF QuarantineAssumption, Init, Days
  <1>2. TypeOK
    BY <1>1 DEF Init, TypeOK
  <1> QED  BY <1>2 DEF Init, Inv, ProcessInv, PlanInv, QuietInv

-----------------------------------------------------------------------------
(* The theorems.                                                           *)

\* What is left of a plan is what a new suggestion would say (suggest.ts:77-169,
\* apply.ts:30-86): the list is made once and worked off without another look.
THEOREM Invariant == Spec => []Inv
  <1>1. Init => Inv
    BY InitInv, QuarantineAssumption
  <1>2. Inv /\ [Next]_vars => Inv'
    BY TypeInv, PlanStaysExact, QuarantineAssumption DEF Inv
  <1> QED  BY <1>1, <1>2, PTL DEF Spec

\* Every variable keeps its type, and no test is on both lists of a plan.
THEOREM TypeCorrect == Spec => []TypeOK
  <1>1. Inv => TypeOK
    BY DEF Inv
  <1> QED  BY <1>1, Invariant, PTL

\* Applying is idempotent but for the rows of an older version, whatever opens the
\* store and dies in between (categories/apply.ts:173-176).
THEOREM Idempotent == Spec => []NothingToRepeat
  <1>1. Init => QuietInv
    BY InitInv, QuarantineAssumption
  <1>2. Inv /\ QuietInv /\ [Next]_vars => QuietInv'
    BY QuietStays
  <1>3. Inv /\ QuietInv => NothingToRepeat
    BY DEF Inv, ProcessInv, PlanInv, QuietInv, NothingToRepeat
  <1> QED  BY <1>1, <1>2, <1>3, Invariant, PTL DEF Spec

\* Quarantine is not lifted from a test that keeps failing (suggest.ts:130-140).
THEOREM BrokenKept == Spec => BrokenIsKept
  <1> DEFINE A == \A t \in Tests :
                    /\ IsQuarantined(t)
                    /\ Recent(t) # {} /\ \A r \in Recent(t) : r.status = "failed"
                    => quarantined'[t] # "no"
  <1>1. Inv /\ [Next]_vars => [A]_vars
    <2> SUFFICES ASSUME Inv, Next, NEW t \in Tests, quarantined[t] # "no",
                        Recent(t) # {}, \A r \in Recent(t) : r.status = "failed"
                 PROVE  quarantined'[t] # "no"
      BY DEF IsQuarantined
    <2>1. Failures(t) = Recent(t) /\ Passes(t) = {}
      BY DEF Failures, Passes
    <2>2. Evidence(t) = {}
      BY <2>1 DEF Evidence, Failures
    <2>3. t \notin ToRemove
      BY <2>1, <2>2 DEF ToRemove, BelowThreshold, IsBroken
    <2>4. ~Remove(t)
      BY <2>3 DEF Remove, Inv, PlanInv
    <2>5. ASSUME NEW u \in Tests, Record(u) \/ AddQuarantine(u) \/ Item(u)
          PROVE  quarantined'[t] # "no"
      BY <2>4, <2>5 DEF Record, AddQuarantine, Item, Backfill, Add, Remove, Inv, TypeOK
    <2>6. ASSUME Tick \/ Open \/ Suggest \/ Opened \/ AllAdded \/ AllRemoved \/ Close \/ Die
          PROVE  quarantined' = quarantined
      BY <2>6 DEF Tick, Open, Suggest, Opened, AllAdded, AllRemoved, Close, Die, store
    <2> QED  BY <2>5, <2>6 DEF Next, World, Advance
  <1> QED  BY <1>1, Invariant, PTL DEF Spec, BrokenIsKept

\* Only evidence of flakiness quarantines a test by itself (views.ts:139-177,
\* suggest.ts:95-128).
THEOREM RegressionsOut == Spec => RegressionsStayOut
  <1> DEFINE A == \A t \in Tests :
                    pc = "adding" /\ ~IsQuarantined(t) /\ quarantined'[t] # "no" =>
                      \E r \in Recent(t) :
                        \/ r.status \in {"flaky", "retried"}
                        \/ r.status = "failed" /\ \E p \in Recent(t) : p.commit = r.commit /\ p.status \in {"passed", "retried"}
  <1>1. Inv /\ [Next]_vars => [A]_vars
    <2> SUFFICES ASSUME Inv, Next, NEW t \in Tests, pc = "adding",
                        quarantined[t] = "no", quarantined'[t] # "no"
                 PROVE  \E r \in Recent(t) :
                          \/ r.status \in {"flaky", "retried"}
                          \/ /\ r.status = "failed"
                             /\ \E p \in Recent(t) : p.commit = r.commit /\ p.status \in {"passed", "retried"}
      BY DEF IsQuarantined
    <2>1. Add(t)
      BY DEF Next, World, Advance, Item, Tick, Record, AddQuarantine, Open, Suggest, Opened,
             AllAdded, AllRemoved, Close, Die, Backfill, Add, Remove, Inv, TypeOK, store
    <2>2. t \in ToAdd
      BY <2>1 DEF Add, Inv, PlanInv
    <2>3. PICK r \in Evidence(t) : TRUE
      BY <2>2 DEF ToAdd, Qualifies, IsFlaky
    <2> QED  BY <2>3 DEF Evidence, Failures, Passes
  <1> QED  BY <1>1, Invariant, PTL DEF Spec, RegressionsStayOut
=============================================================================
