---------------------- MODULE NotificationCascade_proofs ----------------------
(***************************************************************************)
(* Proofs of the cascade's safety invariant NotifiedUnlessRetrying and of *)
(* notifyController's action property NotifySuccessWakes, for every set  *)
(* of objects, every assignment of kinds and every int width.             *)
(*                                                                         *)
(* Neither follows from a TypeOK step.  A successful Update must change    *)
(* the annotation for the watch to fire, which needs the read it was      *)
(* computed from to be what the store holds (FreshListed, FreshRead), and *)
(* the cascade may only return nil once the objects it still owes lie in  *)
(* the kinds it has not yet reached (OwedAhead).                          *)
(***************************************************************************)
EXTENDS NotificationCascade, NotificationCount_proofs

USE CascadeAssumption

\* The objects of the kinds from position k of systemDependencies on.
Pending(k) ==
    {o \in Objs : \E i \in k .. Len(systemDependencies) : KindOf[o] = systemDependencies[i]}

\* A listed copy still marked current is what the store holds.
FreshListed ==
    \A o \in DOMAIN listed : listed[o].fresh => listed[o].ann = store[o]

\* notifyController's read, when about to be used and still current, is what the store holds.
FreshRead == rpc = "update" /\ rread.fresh => rread.ann = store[robj]

\* What the running cascade still owes lies ahead of it.
OwedAhead ==
    /\ cpc = "list" => owed \subseteq Pending(kidx)
    /\ cpc = "update" => /\ kidx <= Len(systemDependencies)
                         /\ owed \subseteq DOMAIN listed \cup Pending(kidx + 1)

\* The inductive invariant.
IInv ==
    /\ TypeOK
    /\ FreshListed
    /\ FreshRead
    /\ OwedAhead
    /\ NotifiedUnlessRetrying

-----------------------------------------------------------------------------
(* Lemmas about the operators of the model.                                *)

\* systemDependencies is a list of five kinds.
LEMMA DependenciesList ==
    /\ Len(systemDependencies) = 5
    /\ DOMAIN systemDependencies = 1 .. 5
    /\ \A i \in 1 .. 5 : systemDependencies[i] \in Kinds
  BY DEF systemDependencies, Kinds

\* A bump computed from what the store holds is a text value other than it,
\* so the watch of the object fires (manager.go 218-223, 264-269).
LEMMA BumpChanges ==
    ASSUME NEW a \in Text \cup {NilMap}
    PROVE  /\ getNextCount(AnnotationValue(a)) \in Text
           /\ getNextCount(AnnotationValue(a)) # a
<1>1. getNextCount(AnnotationValue(a)) \in Text
  BY NextCountType
<1>2. CASE a = NilMap
  BY <1>1, <1>2 DEF NilMap, Text, TextForms
<1>3. CASE a \in Text
  <2>1. AnnotationValue(a) = a
    BY <1>3 DEF AnnotationValue, NilMap, Text, TextForms
  <2>2. getNextCount(a) # a
    BY <1>3, NextCountChanges
  <2>3. QED
    BY <1>1, <2>1, <2>2
<1>4. QED
  BY <1>1, <1>2, <1>3

\* The objects the cascade must reach are those of every kind it lists.
LEMMA DependentsPending == Dependents = Pending(1)
  BY DependenciesList DEF Dependents, Pending

\* Marking a read stale keeps its annotation.
LEMMA StaleRead ==
    ASSUME NEW r \in Read
    PROVE  /\ [r EXCEPT !.fresh = FALSE] \in Read
           /\ [r EXCEPT !.fresh = FALSE].ann = r.ann
           /\ ~[r EXCEPT !.fresh = FALSE].fresh
  BY DEF Read

\* Invalidate keeps the listing's objects and annotations and stales o's copies.
LEMMA InvalidateEffect ==
    ASSUME TypeOK, NEW o \in Objs, Invalidate(o)
    PROVE  /\ DOMAIN listed' = DOMAIN listed
           /\ \A x \in DOMAIN listed : /\ listed'[x] \in Read
                                       /\ listed'[x].ann = listed[x].ann
                                       /\ listed'[x].fresh => listed[x].fresh /\ x # o
           /\ rread' \in Read
           /\ rread'.ann = rread.ann
           /\ rread'.fresh => rread.fresh /\ robj # o
<1>1. \A x \in DOMAIN listed : listed[x] \in Read
  BY DEF TypeOK
<1>2. rread \in Read
  BY DEF TypeOK
<1>3. QED
  BY <1>1, <1>2, StaleRead DEF Invalidate

-----------------------------------------------------------------------------
(* The induction.                                                          *)

LEMMA InitIInv == Init => IInv
  BY DEF Init, IInv, TypeOK, FreshListed, FreshRead, OwedAhead,
         NotifiedUnlessRetrying, NoListing, Read, Text, TextForms,
         NilMap, EmptyText, JunkText, systemDependencies

LEMMA NextIInv == IInv /\ [Next]_vars => IInv'
<1> SUFFICES ASSUME IInv, [Next]_vars PROVE IInv'
  OBVIOUS
<1>0. /\ TypeOK /\ FreshListed /\ FreshRead /\ OwedAhead
      /\ NotifiedUnlessRetrying
  BY DEF IInv
<1>1. CASE CascadeStart
  <2>1. owed' = Pending(1) /\ Pending(1) \subseteq Objs
    BY <1>1, DependentsPending DEF CascadeStart, Pending
  <2>2. TypeOK'
    <3>1. kidx' \in 1 .. Len(systemDependencies) + 1
      BY <1>1, DependenciesList DEF CascadeStart
    <3>2. QED
      BY <1>0, <1>1, <2>1, <3>1 DEF CascadeStart, TypeOK
  <2>3. QED
    BY <1>0, <1>1, <2>1, <2>2
       DEF CascadeStart, IInv, FreshListed, FreshRead, OwedAhead,
           NotifiedUnlessRetrying
<1>2. CASE CascadeList
  BY <1>0, <1>2, DependenciesList
     DEF CascadeList, IInv, TypeOK, FreshListed, FreshRead, OwedAhead,
         NotifiedUnlessRetrying, Pending, Read
<1>3. CASE CascadeDone
  BY <1>0, <1>3, DependenciesList
     DEF CascadeDone, IInv, TypeOK, FreshListed, FreshRead, OwedAhead,
         NotifiedUnlessRetrying, Pending
<1>4. CASE CascadeListFails
  BY <1>0, <1>4
     DEF CascadeListFails, IInv, TypeOK, FreshListed, FreshRead, OwedAhead,
         NotifiedUnlessRetrying
<1>5. CASE CascadeNextKind
  BY <1>0, <1>5, DependenciesList
     DEF CascadeNextKind, IInv, TypeOK, FreshListed, FreshRead, OwedAhead,
         NotifiedUnlessRetrying, Pending
<1>6. ASSUME NEW o \in Objs, CascadeUpdate(o) PROVE IInv'
  <2>1. /\ o \in DOMAIN listed /\ listed[o].ann = store[o]
        /\ store[o] \in Text \cup {NilMap} /\ rread \in Read
    BY <1>0, <1>6 DEF CascadeUpdate, FreshListed, TypeOK
  <2> DEFINE new == getNextCount(AnnotationValue(listed[o].ann))
  <2>2. new \in Text /\ new # store[o]
    BY <2>1, BumpChanges
  <2>3. /\ store' = [store EXCEPT ![o] = new]
        /\ event' = [event EXCEPT ![o] = event[o] \/ new # store[o]]
    BY <1>6 DEF CascadeUpdate, Bump
  <2>4. /\ rread' \in Read
        /\ rread'.fresh => rread.fresh /\ robj # o
        /\ rread'.ann = rread.ann
    BY <1>6, <2>1, StaleRead DEF CascadeUpdate
  <2>5. TypeOK'
    BY <1>0, <1>6, <2>2, <2>3, <2>4 DEF CascadeUpdate, TypeOK
  <2>6. FreshListed'
    BY <1>0, <1>6, <2>3 DEF CascadeUpdate, FreshListed, TypeOK
  <2>7. FreshRead'
    BY <1>0, <1>6, <2>3, <2>4 DEF CascadeUpdate, FreshRead, TypeOK
  <2>9. OwedAhead' /\ NotifiedUnlessRetrying'
    BY <1>0, <1>6 DEF CascadeUpdate, OwedAhead, NotifiedUnlessRetrying
  <2>10. QED
    BY <2>5, <2>6, <2>7, <2>9 DEF IInv
<1>7. ASSUME NEW o \in Objs, CascadeUpdateFails(o) PROVE IInv'
  BY <1>0, <1>7
     DEF CascadeUpdateFails, IInv, TypeOK, FreshListed, FreshRead, OwedAhead,
         NotifiedUnlessRetrying, NoListing
<1>8. ASSUME NEW o \in Objs, ResourceStart(o) PROVE IInv'
  BY <1>0, <1>8
     DEF ResourceStart, IInv, TypeOK, FreshListed, FreshRead, OwedAhead,
         NotifiedUnlessRetrying
<1>9. CASE ResourceGet
  <2>1. rpc = "get" /\ robj \in Objs
    BY <1>0, <1>9 DEF ResourceGet, TypeOK
  <2>2. CASE rread' = [ann |-> store[robj], fresh |-> TRUE] /\ rpc' = "update"
    BY <1>0, <1>9, <2>1, <2>2
       DEF ResourceGet, IInv, TypeOK, FreshListed, FreshRead, OwedAhead,
           NotifiedUnlessRetrying, Read
  <2>3. CASE rpc' = "idle" /\ UNCHANGED rread
    BY <1>0, <1>9, <2>1, <2>3
       DEF ResourceGet, IInv, TypeOK, FreshListed, FreshRead, OwedAhead,
           NotifiedUnlessRetrying
  <2>4. QED
    BY <1>9, <2>2, <2>3 DEF ResourceGet
<1>10. CASE ResourceUpdate
  <2>1. rpc = "update" /\ robj \in Objs /\ rpc' = "idle"
        /\ UNCHANGED <<sysQueued, cpc, kidx, robj, rread, owed>>
    BY <1>0, <1>10 DEF ResourceUpdate, TypeOK
  <2>2. CASE /\ rread.fresh
             /\ Bump(robj, rread.ann)
             /\ listed' = [x \in DOMAIN listed |->
                             IF x = robj THEN [listed[x] EXCEPT !.fresh = FALSE] ELSE listed[x]]
             /\ rret' = "ok"
    <3>1. rread.ann = store[robj] /\ store[robj] \in Text \cup {NilMap}
      BY <1>0, <2>1, <2>2 DEF FreshRead, TypeOK
    <3> DEFINE new == getNextCount(AnnotationValue(rread.ann))
    <3>2. new \in Text /\ new # store[robj]
      BY <3>1, BumpChanges
    <3>3. /\ store' = [store EXCEPT ![robj] = new]
          /\ event' = [event EXCEPT ![robj] = event[robj] \/ new # store[robj]]
      BY <2>2 DEF Bump
    <3>4. /\ DOMAIN listed' = DOMAIN listed
          /\ \A x \in DOMAIN listed : /\ listed'[x] \in Read
                                      /\ listed'[x].ann = listed[x].ann
                                      /\ listed'[x].fresh => listed[x].fresh /\ x # robj
      BY <1>0, <2>2, StaleRead DEF TypeOK
    <3>5. TypeOK'
      BY <1>0, <2>1, <2>2, <3>2, <3>3, <3>4 DEF TypeOK
    <3>6. FreshListed'
      BY <1>0, <3>3, <3>4 DEF FreshListed, TypeOK
    <3>8. QED
      BY <1>0, <2>1, <3>4, <3>5, <3>6
         DEF IInv, FreshRead, OwedAhead, NotifiedUnlessRetrying
  <2>3. CASE /\ ~rread.fresh \/ ApiMayFail
             /\ rret' = "err"
             /\ UNCHANGED <<store, event, listed>>
    BY <1>0, <2>1, <2>3 DEF IInv, FreshListed, FreshRead, OwedAhead, NotifiedUnlessRetrying, TypeOK
  <2>4. QED
    BY <1>10, <2>2, <2>3 DEF ResourceUpdate
<1>11. ASSUME NEW o \in Objs, DependentReconcile(o) PROVE IInv'
  <2>1. Invalidate(o)
    BY <1>11 DEF DependentReconcile
  <2>2. TypeOK'
    BY <1>0, <1>11, <2>1, InvalidateEffect DEF DependentReconcile, TypeOK
  <2>3. FreshListed' /\ FreshRead'
    BY <1>0, <1>11, <2>1, InvalidateEffect DEF DependentReconcile, FreshListed, FreshRead
  <2>4. QED
    BY <1>0, <1>11, <2>1, <2>2, <2>3, InvalidateEffect
       DEF DependentReconcile, IInv, OwedAhead, NotifiedUnlessRetrying, TypeOK
<1>12. ASSUME NEW o \in Objs, NEW a \in {JunkText, Itoa(MaxInt)}, UserEdit(o, a)
       PROVE IInv'
  <2>1. a \in Text
    BY IntBounds DEF JunkText, Itoa, Text, TextForms
  <2>2. Invalidate(o)
    BY <1>12 DEF UserEdit
  <2>3. TypeOK'
    BY <1>0, <1>12, <2>1, <2>2, InvalidateEffect DEF UserEdit, TypeOK
  <2>4. FreshListed' /\ FreshRead'
    BY <1>0, <1>12, <2>2, InvalidateEffect DEF UserEdit, FreshListed, FreshRead, TypeOK
  <2>6. QED
    BY <1>0, <1>12, <2>2, <2>3, <2>4, InvalidateEffect
       DEF UserEdit, IInv, OwedAhead, NotifiedUnlessRetrying, TypeOK
<1>13. CASE SystemEvent
  BY <1>0, <1>13
     DEF SystemEvent, IInv, TypeOK, FreshListed, FreshRead, OwedAhead,
         NotifiedUnlessRetrying
<1>14. CASE UNCHANGED vars
  BY <1>0, <1>14
     DEF vars, IInv, TypeOK, FreshListed, FreshRead, OwedAhead,
         NotifiedUnlessRetrying, Pending
<1>15. QED
  BY <1>1, <1>2, <1>3, <1>4, <1>5, <1>6, <1>7, <1>8, <1>9, <1>10, <1>11,
     <1>12, <1>13, <1>14 DEF Next

-----------------------------------------------------------------------------
\* The inductive invariant holds in every reachable state.
LEMMA IInvHolds == Spec => []IInv
  BY InitIInv, NextIInv, PTL DEF Spec

(***************************************************************************)
(* Spec 4.4 for every namespace: when the system controller has no cascade *)
(* running and no retry queued, every object of a kind in                  *)
(* systemDependencies has been bumped by the last cascade.  The fail-fast *)
(* returns of notifyControllers (manager.go 209-212, 227-231) always leave *)
(* a retry queued, and only the return at the end of the kinds (238) ends  *)
(* the cascade without one.                                                *)
(***************************************************************************)
THEOREM NotifiedUnlessRetryingHolds == Spec => []NotifiedUnlessRetrying
  BY IInvHolds, PTL DEF IInv

(***************************************************************************)
(* For every set of objects and every int width: notifyController returns  *)
(* nil only after an Update that queued a reconcile of its object, however *)
(* other writers raced with it between the Get and the Update (manager.go  *)
(* 249-281).  Its Update is computed from a read the store still holds     *)
(* (FreshRead), and getNextCount changes every value; a read that other   *)
(* writers made stale conflicts, and the conflict is returned.             *)
(***************************************************************************)
THEOREM NotifySuccessWakesHolds == Spec => NotifySuccessWakes
<1>0. ASSUME IInv, [Next]_vars, rpc = "update", rpc' = "idle", rret' = "ok"
      PROVE  event'[robj]
  <2>0. TypeOK /\ FreshRead
    BY <1>0 DEF IInv
  <2>1. ResourceUpdate
    <3>1. CASE ResourceUpdate
      BY <3>1
    <3>2. CASE \/ CascadeStart \/ CascadeList \/ CascadeDone \/ CascadeListFails
               \/ CascadeNextKind \/ SystemEvent \/ UNCHANGED vars
      BY <1>0, <3>2 DEF CascadeStart, CascadeList, CascadeDone, CascadeListFails,
                        CascadeNextKind, SystemEvent, vars
    <3>3. CASE \E o \in Objs : CascadeUpdate(o) \/ CascadeUpdateFails(o)
      BY <1>0, <3>3 DEF CascadeUpdate, CascadeUpdateFails
    <3>4. CASE \E o \in Objs : ResourceStart(o) \/ DependentReconcile(o)
      BY <1>0, <3>4 DEF ResourceStart, DependentReconcile
    <3>5. CASE ResourceGet
      BY <1>0, <3>5 DEF ResourceGet
    <3>6. CASE \E o \in Objs, a \in {JunkText, Itoa(MaxInt)} : UserEdit(o, a)
      BY <1>0, <3>6 DEF UserEdit
    <3>7. QED
      BY <1>0, <3>1, <3>2, <3>3, <3>4, <3>5, <3>6 DEF Next
  <2>2. rread.fresh /\ Bump(robj, rread.ann)
    BY <1>0, <2>1 DEF ResourceUpdate
  <2>3. robj \in Objs /\ rread.ann = store[robj] /\ store[robj] \in Text \cup {NilMap}
    BY <1>0, <2>0, <2>2 DEF FreshRead, TypeOK
  <2> DEFINE new == getNextCount(AnnotationValue(rread.ann))
  <2>4. new # store[robj]
    BY <2>3, BumpChanges
  <2>5. event' = [event EXCEPT ![robj] = event[robj] \/ new # store[robj]]
    BY <2>2 DEF Bump
  <2>6. QED
    BY <2>0, <2>3, <2>4, <2>5 DEF TypeOK
<1>1. IInv /\ [Next]_vars
        => [rpc = "update" /\ rpc' = "idle" /\ rret' = "ok" => event'[robj]]_vars
  BY <1>0
<1>2. QED
  BY <1>1, IInvHolds, PTL DEF Spec, NotifySuccessWakes

=============================================================================
