----------------------- MODULE AnnotationCounter_proofs -----------------------
(***************************************************************************)
(* Proofs about one notification annotation bumped by notifiers and       *)
(* overwritten by users, for every int width: every value it can hold is   *)
(* changed by a bump.                                                      *)
(***************************************************************************)
EXTENDS AnnotationCounter, NotificationCount_proofs

\* The values a user may write are text values.
LEMMA EditTextsType == EditTexts \subseteq Text
  BY IntBounds DEF EditTexts, Text, TextForms, EmptyText, JunkText

\* The annotation is always a text value.
LEMMA NextTypeOK == TypeOK /\ [Next]_annotation => TypeOK'
<1> SUFFICES ASSUME TypeOK, [Next]_annotation PROVE TypeOK'
  OBVIOUS
<1>1. CASE Bump
  BY <1>1, NextCountType DEF Bump, TypeOK
<1>2. CASE Edit
  BY <1>2, EditTextsType DEF Edit, TypeOK
<1>3. CASE UNCHANGED annotation
  BY <1>3 DEF TypeOK
<1>4. QED
  BY <1>1, <1>2, <1>3 DEF Next

(***************************************************************************)
(* Every value the annotation can hold, whatever users wrote, is changed   *)
(* by a bump: the watch never misses a notifier's Update for want of a     *)
(* changed annotation (manager.go 134-147, 162-165).                       *)
(***************************************************************************)
THEOREM BumpChangesAnnotationHolds == Spec => []BumpChangesAnnotation
<1>1. Init => TypeOK
  BY EditTextsType DEF Init, TypeOK
<1>2. TypeOK => BumpChangesAnnotation
  BY NextCountChanges DEF TypeOK, BumpChangesAnnotation
<1>3. QED
  BY <1>1, <1>2, NextTypeOK, PTL DEF Spec

=============================================================================
