--------------------------- MODULE AnnotationCounter ---------------------------
(***************************************************************************)
(* The notification annotation of one tracked resource over its lifetime: *)
(* notifiers bump it with getNextCount (manager.go 162-163, 222-223,       *)
(* 268-269), and users or other tools may overwrite it with any text.     *)
(* The watch turns a change of the annotation into a reconcile request,   *)
(* so a bump is only worth something if it changes the text.              *)
(***************************************************************************)
EXTENDS NotificationCount

VARIABLE annotation

\* Values a user may write: empty, junk, and numerals just beyond int's range.
EditTexts == {EmptyText, JunkText}
               \cup [form : {"canonical", "noncanonical"}, num : (MinInt - 1) .. (MaxInt + 1)]

TypeOK == annotation \in Text

Init == annotation \in EditTexts

\* A notifier reads the annotation and writes getNextCount of it back.
Bump == annotation' = getNextCount(annotation)

\* Someone else overwrites the annotation.
Edit == \E t \in EditTexts : annotation' = t

Next == Bump \/ Edit

Spec == Init /\ [][Next]_annotation

(***************************************************************************)
(* Whatever the annotation holds (empty, junk, out of range, non-canonical *)
(* or the largest int), a bump would change its text, so the watch always  *)
(* delivers the reconcile request the notifier meant to send.  Stated of   *)
(* every reachable value rather than of Bump steps, since a bump that left *)
(* the text as it was would be a stuttering step.                          *)
(***************************************************************************)
BumpChangesAnnotation == getNextCount(annotation) # annotation

(***************************************************************************)
(* The spec (section 3) calls the counter monotonically increasing per     *)
(* resource: a bump of a value Atoi accepts yields a larger one.           *)
(***************************************************************************)
BumpIncreasesCounter ==
    [][Bump /\ Atoi(annotation).ok => Atoi(annotation').val > Atoi(annotation).val]_annotation

=============================================================================
