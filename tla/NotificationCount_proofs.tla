------------------------ MODULE NotificationCount_proofs ------------------------
(***************************************************************************)
(* Lemmas about getNextCount (manager.go 134-147) and Go's int arithmetic, *)
(* for every int width: the bump always yields a text value, and it       *)
(* always changes the text it was given, so every notifier's Update is    *)
(* seen by the watch.                                                      *)
(***************************************************************************)
EXTENDS NotificationCount, TLAPS

USE IntWidthAssumption, ModulusAssumption

-----------------------------------------------------------------------------
(* getNextCount yields a text value.                                       *)

\* The bounds of Go's int are integers.
LEMMA IntBounds ==
    /\ MinInt \in Int
    /\ MaxInt \in Int
  BY DEF MinInt, MaxInt

\* Wrapping any integer yields an integer.
LEMMA WrapIntType ==
    ASSUME NEW n \in Int
    PROVE  WrapInt(n) \in Int
  BY IntBounds DEF WrapInt

\* getNextCount always yields a text value, whatever it was given.
LEMMA NextCountType ==
    ASSUME NEW v
    PROVE  getNextCount(v) \in Text
<1>1. Atoi(v).val \in Int
  BY IntBounds DEF Atoi, Numeral
<1>2. WrapInt((IF v = EmptyText \/ ~Atoi(v).ok THEN 0 ELSE Atoi(v).val) + 1) \in Int
  BY <1>1, WrapIntType
<1>3. QED
  BY <1>2 DEF getNextCount, Itoa, Text, TextForms

-----------------------------------------------------------------------------
(* getNextCount always changes the annotation it is given.                 *)

\* Int's bounds in terms of half the modulus.
LEMMA IntRange ==
    /\ MinInt = -(2 ^ (IntWidth - 1))
    /\ MaxInt = 2 ^ (IntWidth - 1) - 1
    /\ 2 ^ IntWidth = 2 * 2 ^ (IntWidth - 1)
    /\ 2 ^ (IntWidth - 1) \in Nat \ {0}
  BY DEF MinInt, MaxInt

\* Wrapping yields an int: a value between MinInt and MaxInt.
LEMMA WrapIntRange ==
    ASSUME NEW n \in Int
    PROVE  WrapInt(n) \in MinInt .. MaxInt
<1> DEFINE H == 2 ^ (IntWidth - 1)
<1>1. H \in Nat \ {0} /\ (n + H) % (2 * H) \in 0 .. 2 * H - 1
  BY IntRange
<1>2. QED
  BY <1>1, IntRange DEF WrapInt

\* A bump changes the text of every annotation value, so the watch always
\* sees the Update of a notifier (manager.go 146, 162-165).
LEMMA NextCountChanges ==
    ASSUME NEW t \in Text
    PROVE  getNextCount(t) # t
<1>1. CASE t.form # "canonical"
  BY <1>1 DEF getNextCount, Itoa
<1>2. CASE t.form = "canonical" /\ t.num \in MinInt .. MaxInt
  <2>1. getNextCount(t) = Itoa(WrapInt(t.num + 1))
    BY <1>2 DEF getNextCount, Atoi, Numeral, EmptyText
  <2>2. WrapInt(t.num + 1) # t.num
    <3> DEFINE H == 2 ^ (IntWidth - 1)
    <3>1. H \in Nat \ {0} /\ t.num \in -H .. H - 1
      BY <1>2, IntRange
    <3>2. (t.num + 1 + H) % (2 * H) # t.num + H
      <4>1. CASE t.num + 1 + H < 2 * H
        <5>1. (t.num + 1 + H) % (2 * H) = t.num + 1 + H
          BY <3>1, <4>1
        <5>2. QED
          BY <5>1, <3>1
      <4>2. CASE t.num + 1 + H = 2 * H
        <5>1. (t.num + 1 + H) % (2 * H) = 0
          BY <3>1, <4>2
        <5>2. QED
          BY <5>1, <3>1, <4>2
      <4>3. QED
        BY <3>1, <4>1, <4>2
    <3>3. WrapInt(t.num + 1) = ((t.num + 1 + H) % (2 * H)) - H
      BY <3>1, IntRange DEF WrapInt
    <3>4. QED
      BY <3>1, <3>2, <3>3
  <2>3. QED
    BY <2>1, <2>2 DEF Itoa
<1>3. CASE t.form = "canonical" /\ t.num \notin MinInt .. MaxInt
  <2>1. getNextCount(t) = Itoa(WrapInt(0 + 1))
    BY <1>3 DEF getNextCount, Atoi, Numeral
  <2>2. WrapInt(0 + 1) \in MinInt .. MaxInt
    BY WrapIntRange
  <2>3. QED
    BY <1>3, <2>1, <2>2 DEF Itoa
<1>4. QED
  BY <1>1, <1>2, <1>3

=============================================================================
