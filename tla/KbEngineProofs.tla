--------------------------- MODULE KbEngineProofs ---------------------------
(***************************************************************************)
(* Lemmas about the key engine's operators, used by the proofs about the   *)
(* master's and the slave's kb_handle().                                   *)
(***************************************************************************)
EXTENDS KbEngine, SequenceTheorems, FiniteSetTheorems, NaturalsInduction,
        WellFoundedInduction, TLAPS

(***************************************************************************)
(* Removing the n-th entry shifts the entries behind it down by one.       *)
(***************************************************************************)
LEMMA RemoveAtProperties ==
    ASSUME NEW S, NEW s \in Seq(S), NEW n \in 1..Len(s)
    PROVE  /\ RemoveAt(s, n) \in Seq(S)
           /\ Len(RemoveAt(s, n)) = Len(s) - 1
           /\ \A m \in 1..Len(RemoveAt(s, n)) :
                 RemoveAt(s, n)[m] = IF m < n THEN s[m] ELSE s[m + 1]
<1> DEFINE a == SubSeq(s, 1, n - 1)
           b == SubSeq(s, n + 1, Len(s))
<1>0. Len(s) \in Nat /\ n \in Nat
  BY LenProperties
<1>1. /\ a \in Seq(S)
      /\ Len(a) = n - 1
      /\ \A i \in 1..(n - 1) : a[i] = s[i]
  <2>1. \A i \in 1..(n - 1) : s[i] \in S
    BY <1>0, ElementOfSeq
  <2> QED
    BY <1>0, <2>1, SubSeqProperties
<1>2. /\ b \in Seq(S)
      /\ Len(b) = Len(s) - n
      /\ \A i \in 1..(Len(s) - n) : b[i] = s[n + i]
  <2>1. \A i \in (n + 1)..Len(s) : s[i] \in S
    BY <1>0, ElementOfSeq
  <2> QED
    BY <1>0, <2>1, SubSeqProperties
<1>3. /\ a \o b \in Seq(S)
      /\ Len(a \o b) = Len(a) + Len(b)
      /\ \A i \in 1..(Len(a) + Len(b)) :
            (a \o b)[i] = IF i <= Len(a) THEN a[i] ELSE b[i - Len(a)]
  BY <1>1, <1>2, ConcatProperties
<1>4. RemoveAt(s, n) = a \o b
  BY DEF RemoveAt
<1> HIDE DEF a, b
<1>5. Len(a \o b) = Len(s) - 1
  BY <1>0, <1>1, <1>2, <1>3
<1>6. ASSUME NEW m \in 1..(Len(s) - 1)
      PROVE  (a \o b)[m] = IF m < n THEN s[m] ELSE s[m + 1]
  <2>1. CASE m < n
    BY <1>0, <1>1, <1>2, <1>3, <2>1
  <2>2. CASE ~ (m < n)
    <3>1. (a \o b)[m] = b[m - (n - 1)]
      BY <1>0, <1>1, <1>2, <1>3, <2>2
    <3>2. /\ m - (n - 1) \in 1..(Len(s) - n)
          /\ n + (m - (n - 1)) = m + 1
      BY <1>0, <2>2
    <3> QED
      BY <1>2, <2>2, <3>1, <3>2
  <2> QED
    BY <2>1, <2>2
<1> QED
  BY <1>3, <1>4, <1>5, <1>6

(***************************************************************************)
(* What the buffer and table helpers preserve.                             *)
(***************************************************************************)
LEMMA FnRemoveType ==
    ASSUME EngineTypeOK, NEW i \in Index, fn_remove(i)
    PROVE  fn_buff' \in Seq(Index) /\ Len(fn_buff') <= FnMax
  BY RemoveAtProperties, EngineConstants, LenProperties
     DEF EngineTypeOK, fn_remove

LEMMA RemoveNormalKeyType ==
    ASSUME EngineTypeOK, NEW i \in Index, remove_normal_key(i)
    PROVE  pressed_keys' \in Seq(PressedKey) /\ Len(pressed_keys') <= PressedMax
  BY RemoveAtProperties, EngineConstants, LenProperties
     DEF EngineTypeOK, remove_normal_key

(***************************************************************************)
(* A press callback keeps the engine's variables in their types.           *)
(***************************************************************************)
LEMMA OnPressType ==
    ASSUME EngineTypeOK, NEW i \in Index, OnPress(i)
    PROVE  EngineTypeOK'
<1>1. CASE PressUntranslated(i)
  BY <1>1 DEF PressUntranslated, EngineTypeOK
<1>2. CASE PressUnderFn(i)
  BY <1>2, EngineConstants
     DEF PressUnderFn, fn_add, process_fn_buff, EngineTypeOK
<1>3. CASE PressNormal(i)
  <2>1. PICK code \in NormalCodes :
          add_normal_key([index |-> i, code |-> code])
    BY <1>3 DEF PressNormal
  <2>2. [index |-> i, code |-> code] \in PressedKey
    BY DEF PressedKey
  <2>3. /\ pressed_keys' \in Seq(PressedKey)
        /\ Len(pressed_keys') <= PressedMax
    BY <2>1, <2>2, EngineConstants DEF add_normal_key, EngineTypeOK
  <2> QED
    BY <1>3, <2>3 DEF PressNormal, EngineTypeOK
<1>4. CASE PressFn(i)
  BY <1>4 DEF PressFn, EngineTypeOK
<1>5. CASE PressLayer(i)
  BY <1>5 DEF PressLayer, EngineTypeOK
<1> QED
  BY <1>1, <1>2, <1>3, <1>4, <1>5 DEF OnPress

(***************************************************************************)
(* A release callback keeps the engine's variables in their types.         *)
(***************************************************************************)
LEMMA OnReleaseType ==
    ASSUME EngineTypeOK, NEW i \in Index, OnRelease(i)
    PROVE  EngineTypeOK'
<1>0. fired' \in SUBSET Keystrokes
  BY DEF OnRelease
<1>1. CASE ReleaseUntranslated(i)
  BY <1>0, <1>1 DEF ReleaseUntranslated, EngineTypeOK
<1>2. CASE ReleaseUnderFn(i)
  BY <1>0, <1>2, FnRemoveType DEF ReleaseUnderFn, EngineTypeOK
<1>3. CASE ReleaseNormal(i)
  BY <1>0, <1>3, RemoveNormalKeyType DEF ReleaseNormal, EngineTypeOK
<1>4. CASE ReleaseFn(i)
  <2>1. <<>> \in Seq(Index) /\ Len(<<>>) = 0
    BY EmptySeq
  <2>2. fn_buff' \in Seq(Index) /\ Len(fn_buff') <= FnMax
    BY <1>4, <2>1, EngineConstants DEF ReleaseFn
  <2> QED
    BY <1>0, <1>4, <2>2 DEF ReleaseFn, EngineTypeOK
<1>5. CASE ReleaseLayer(i)
  BY <1>0, <1>5 DEF ReleaseLayer, EngineTypeOK
<1> QED
  BY <1>1, <1>2, <1>3, <1>4, <1>5 DEF OnRelease

(***************************************************************************)
(* A report is a prefix of the pressed-key table.                          *)
(***************************************************************************)
LEMMA PrefixType ==
    ASSUME NEW S, NEW s \in Seq(S), NEW n \in 0..Len(s)
    PROVE  /\ SubSeq(s, 1, n) \in Seq(S)
           /\ Len(SubSeq(s, 1, n)) = n
           /\ \A m \in 1..n : SubSeq(s, 1, n)[m] = s[m]
<1>1. Len(s) \in Nat
  BY LenProperties
<1>2. \A m \in 1..n : s[m] \in S
  BY <1>1, ElementOfSeq
<1> QED
  BY <1>1, <1>2, SubSeqProperties

(***************************************************************************)
(* The kind of key that translates to a code, by the assumption that no    *)
(* key changes its kind from layer to layer.                               *)
(***************************************************************************)
LEMMA TranslatedCode ==
    ASSUME NEW i, NEW code, TranslatesTo(i, code)
    PROVE  code \in CodesOf(i)
  BY DEF TranslatesTo, CodesOf

LEMMA NormalKind ==
    ASSUME NEW i \in Index, CodesOf(i) \cap NormalCodes # {}
    PROVE  CodesOf(i) \subseteq NormalCodes
  BY StableKeymap, EngineConstants

LEMMA SpecialKind ==
    ASSUME NEW i \in Index, NEW code \in {KeyFn} \cup LayerCodes,
           code \in CodesOf(i)
    PROVE  CodesOf(i) = {code}
  BY StableKeymap, EngineConstants

LEMMA UntranslatedKind ==
    ASSUME NEW i \in Index, Untranslated(i)
    PROVE  CodesOf(i) = {}
  BY DEF Untranslated, CodesOf

(***************************************************************************)
(* A set of numbers has a least element.                                   *)
(***************************************************************************)
LEMMA Least ==
    ASSUME NEW S \in SUBSET Nat, S # {}
    PROVE  \E n \in S : \A m \in S : n <= m
<1> DEFINE less == {p \in Nat \X Nat : p[1] < p[2]}
<1>1. IsWellFoundedOn(less, Nat)
  BY NatLessThanWellFounded DEF OpToRel
<1>2. PICK n \in S : \A m \in S : ~ (<<m, n>> \in less)
  <2> HIDE DEF less
  <2> QED
    BY <1>1, WFMin
<1>3. \A m \in S : ~ (m < n)
  BY <1>2
<1> HIDE DEF less
<1>4. \A m \in S : m \in Nat /\ n \in Nat
  OBVIOUS
<1>5. \A m \in S : n <= m
  BY <1>3, <1>4
<1> QED
  BY <1>5

(***************************************************************************)
(* kb_mapping_translate_key is a function: a key with rules becomes one    *)
(* code, whatever the layers are, and so one branch of the press and of    *)
(* the release callback takes it.                                          *)
(***************************************************************************)
LEMMA OneCode ==
    ASSUME NEW i \in Index, ~ Untranslated(i)
    PROVE  \E code \in KeyCodes :
              \A c : TranslatesTo(i, c) <=> c = code
<1> DEFINE len == Len(Rules[i])
           applying == {n \in 1..len : RuleApplies(i, n)}
<1>1. Rules[i] \in Seq(MapRule) /\ len \in Nat \ {0}
  BY EngineConstants, LenProperties DEF Untranslated
<1>2. len \in applying
  BY <1>1 DEF RuleApplies
<1>3. PICK n \in applying : \A m \in applying : n <= m
  <2>1. applying \in SUBSET Nat
    BY <1>1
  <2> HIDE DEF applying
  <2> QED
    BY <1>2, <2>1, Least
<1>4. /\ n \in 1..len /\ RuleApplies(i, n)
      /\ \A m \in 1..(n - 1) : ~ RuleApplies(i, m)
  BY <1>1, <1>3
<1>5. Rules[i][n] \in MapRule
  BY <1>1, <1>4, ElementOfSeq
<1>6. TranslatesTo(i, Rules[i][n].out_code)
  BY <1>4 DEF TranslatesTo
<1>7. ASSUME NEW c, TranslatesTo(i, c)
      PROVE  c = Rules[i][n].out_code
  <2>1. PICK m \in 1..Len(Rules[i]) :
          /\ RuleApplies(i, m)
          /\ \A l \in 1..(m - 1) : ~ RuleApplies(i, l)
          /\ Rules[i][m].out_code = c
    BY <1>7 DEF TranslatesTo
  <2>2. m \in Nat /\ n \in Nat
    BY <1>1
  <2>3. ~ (m < n) /\ ~ (n < m)
    BY <1>1, <1>4, <2>1
  <2>4. m = n
    BY <2>2, <2>3
  <2>5. Rules[i][m].out_code = c
    BY <2>1
  <2> HIDE DEF applying, len
  <2> QED
    BY <2>4, <2>5
<1> QED
  BY <1>5, <1>6, <1>7 DEF MapRule

(***************************************************************************)
(* The entries that take a slot, counted along a table.                    *)
(***************************************************************************)
LEMMA OrdinaryCount ==
    ASSUME NEW s, NEW n \in Nat
    PROVE  /\ IsFiniteSet(OrdinaryUpTo(s, n))
           /\ Cardinality(OrdinaryUpTo(s, n)) \in Nat
<1>1. OrdinaryUpTo(s, n) \in SUBSET (1..n)
  BY DEF OrdinaryUpTo
<1>2. IsFiniteSet(1..n)
  BY FS_Interval
<1>3. IsFiniteSet(OrdinaryUpTo(s, n))
  BY <1>1, <1>2, FS_Subset
<1> QED
  BY <1>3, FS_CardinalityType

LEMMA OrdinaryMonotone ==
    ASSUME NEW s, NEW n \in Nat, NEW m \in 0..n
    PROVE  Cardinality(OrdinaryUpTo(s, m)) <= Cardinality(OrdinaryUpTo(s, n))
<1>1. OrdinaryUpTo(s, m) \in SUBSET OrdinaryUpTo(s, n)
  BY DEF OrdinaryUpTo
<1>2. IsFiniteSet(OrdinaryUpTo(s, n))
  BY OrdinaryCount
<1> QED
  BY <1>1, <1>2, FS_Subset

\* An entry takes at most one slot.
LEMMA OrdinaryStep ==
    ASSUME NEW s, NEW n \in Nat
    PROVE  Cardinality(OrdinaryUpTo(s, n + 1)) <= Cardinality(OrdinaryUpTo(s, n)) + 1
<1>1. CASE s[n + 1].code \in OrdinaryCodes
  <2>1. OrdinaryUpTo(s, n + 1) = OrdinaryUpTo(s, n) \cup {n + 1}
    BY <1>1 DEF OrdinaryUpTo
  <2>2. n + 1 \notin OrdinaryUpTo(s, n)
    BY DEF OrdinaryUpTo
  <2>3. Cardinality(OrdinaryUpTo(s, n + 1)) = Cardinality(OrdinaryUpTo(s, n)) + 1
    BY <2>1, <2>2, OrdinaryCount, FS_AddElement
  <2> QED
    BY <2>3, OrdinaryCount
<1>2. CASE s[n + 1].code \notin OrdinaryCodes
  <2>1. OrdinaryUpTo(s, n + 1) = OrdinaryUpTo(s, n)
    BY <1>2 DEF OrdinaryUpTo
  <2> QED
    BY <2>1, OrdinaryCount
<1> QED
  BY <1>1, <1>2

(***************************************************************************)
(* handle_hid_report's loop ends in one place of any table: at its end, or *)
(* behind the entry that fills the last slot, which no entry overshoots.   *)
(***************************************************************************)
LEMMA OneReport ==
    ASSUME EngineTypeOK
    PROVE  \E n \in 0..Len(pressed_keys) :
              \A m \in 0..Len(pressed_keys) : ReportEndsAt(m) <=> m = n
<1> DEFINE len == Len(pressed_keys)
           slots(n) == Cardinality(OrdinaryUpTo(pressed_keys, n))
           ends == {n \in 0..len : n = len \/ slots(n) >= ReportSlots}
<1>1. len \in Nat /\ ReportSlots \in Nat \ {0}
  BY EngineConstants, LenProperties DEF EngineTypeOK
<1>2. \A n \in 0..len : slots(n) \in Nat
  BY <1>1, OrdinaryCount
<1>3. PICK n \in ends : \A m \in ends : n <= m
  <2>1. len \in ends /\ ends \in SUBSET Nat
    BY <1>1
  <2> HIDE DEF ends
  <2> QED
    BY <2>1, Least
<1>4. n \in 0..len /\ \A m \in 0..(n - 1) : slots(m) < ReportSlots
  BY <1>1, <1>2, <1>3
<1>5. n = len \/ slots(n) = ReportSlots
  <2>1. CASE n = 0
    <3>1. OrdinaryUpTo(pressed_keys, 0) = {}
      BY DEF OrdinaryUpTo
    <3>2. slots(0) = 0
      BY <3>1, FS_EmptySet
    <3> QED
      BY <1>1, <1>3, <2>1, <3>2
  <2>2. CASE n # 0
    <3>1. n - 1 \in Nat /\ n - 1 \in 0..(n - 1) /\ (n - 1) + 1 = n
      BY <1>1, <1>4, <2>2
    <3>2. slots((n - 1) + 1) <= slots(n - 1) + 1
      BY <3>1, OrdinaryStep
    <3>3. slots(n - 1) < ReportSlots /\ slots(n) <= slots(n - 1) + 1
      BY <1>4, <3>1, <3>2
    <3>4. slots(n) \in Nat /\ slots(n - 1) \in Nat
      BY <1>1, <1>2, <1>4, <3>1
    <3> HIDE DEF slots
    <3> QED
      BY <1>1, <1>3, <3>3, <3>4
  <2> QED
    BY <2>1, <2>2
<1>6. ReportEndsAt(n)
  BY <1>4, <1>5 DEF ReportEndsAt
<1>7. ASSUME NEW m \in 0..len, ReportEndsAt(m)
      PROVE  m = n
  <2>1. /\ \A l \in 0..(m - 1) : slots(l) < ReportSlots
        /\ m = len \/ slots(m) = ReportSlots
    BY <1>7 DEF ReportEndsAt
  <2>2. slots(m) \in Nat /\ slots(n) \in Nat
    BY <1>2, <1>4
  <2> HIDE DEF slots
  <2> QED
    BY <1>1, <1>4, <1>5, <2>1, <2>2
<1> QED
  BY <1>4, <1>6, <1>7
=============================================================================
