---------------------------- MODULE KbScanProofs ----------------------------
(***************************************************************************)
(* Proofs about KbScan, for any number of keys, keymap, thresholds,        *)
(* channels and images in flash: what the settings hold and remember, and  *)
(* what a poll finds with them.                                            *)
(*                                                                         *)
(* The settings' half rests on what each statement of main() finds         *)
(* (StartUpInv), above all that the scan's copy of the thresholds is that  *)
(* of the settings as soon as these are there.  The scan's half is about   *)
(* the lines before key_index: they are low (LinesInv), so a line that     *)
(* mixes with a key's signal was high when the poll began and comes after  *)
(* it, and their keys are in the bitmap exactly if they should (BitmapInv, *)
(* RaceInv).  A poll runs only while nothing changes the settings.         *)
(***************************************************************************)
EXTENDS KbScan, FiniteSetTheorems, SequenceTheorems, TLAPS

-----------------------------------------------------------------------------
(***************************************************************************)
(* The settings.                                                           *)
(***************************************************************************)
\* At most RulesMax rules are kept, and they are the last ones.
LEMMA KeepRules ==
    ASSUME NEW rules \in Seq(Rule)
    PROVE  /\ Keep(rules) \in RuleSets
           /\ Len(rules) <= RulesMax => Keep(rules) = rules
           /\ \E n \in 1..(Len(rules) + 1) :
                 Keep(rules) = SubSeq(rules, n, Len(rules))
           /\ Keep(rules) = <<>> => rules = <<>>
<1>1. Len(rules) \in Nat /\ RulesMax \in Nat /\ RulesMax # 0
  BY SettingsConstants
<1>2. CASE Len(rules) > RulesMax
  <2> DEFINE n == Len(rules) - RulesMax + 1
  <2>1. n \in 1..(Len(rules) + 1) /\ Keep(rules) = SubSeq(rules, n, Len(rules))
    BY <1>1, <1>2 DEF Keep
  <2>2. /\ SubSeq(rules, n, Len(rules)) \in Seq(Rule)
        /\ Len(SubSeq(rules, n, Len(rules))) = RulesMax
    BY <1>1, <1>2, SubSeqProperties
  <2>3. Keep(rules) \in RuleSets /\ Keep(rules) # <<>>
    BY <1>1, <2>1, <2>2 DEF RuleSets
  <2>4. ~ (Len(rules) <= RulesMax)
    BY <1>1, <1>2
  <2> QED
    BY <2>1, <2>3, <2>4
<1>3. CASE Len(rules) <= RulesMax
  <2>1. Keep(rules) = rules
    BY <1>1, <1>3 DEF Keep
  <2>2. SubSeq(rules, 1, Len(rules)) = rules
    <3> DEFINE copy == SubSeq(rules, 1, Len(rules))
    <3>1. copy \in Seq(Rule) /\ Len(copy) = Len(rules)
      BY <1>1, SubSeqProperties
    <3>2. \A i \in 1..Len(rules) : copy[i] = rules[i]
      BY <1>1, SubSeqProperties
    <3> QED
      BY <3>1, <3>2, SeqEqual
  <2>3. 1 \in 1..(Len(rules) + 1)
    BY <1>1
  <2> QED
    BY <1>1, <1>3, <2>1, <2>2, <2>3 DEF RuleSets
<1> QED
  BY <1>1, <1>2, <1>3

\* What is saved within the limit comes back as it is.
LEMMA PodsOfContents ==
    ASSUME NEW s \in Contents
    PROVE  Pods(s) = s
<1>1. \A rules \in RuleSets : Keep(rules) = rules
  BY KeepRules DEF RuleSets
<1>2. /\ [k \in Keys |-> Keep(s.mappings[k])] = s.mappings
      /\ [k \in SlaveKeys |-> Keep(s.mappings_slave[k])] = s.mappings_slave
  BY <1>1 DEF Contents
<1> QED
  BY <1>2 DEF Pods, Contents

LEMMA ThresholdType == DefaultThreshold \in Nat
<1>1. Maximum - Minimum \in Nat /\ Percent \in Nat /\ Minimum \in Nat
  BY SettingsConstants
<1>2. \A a, b \in Nat : a * b \in Nat
  OBVIOUS
<1>3. (Maximum - Minimum) * Percent \in Nat
  BY <1>1, <1>2
<1>4. \A a \in Nat : a \div 100 \in Nat
  OBVIOUS
<1>5. ((Maximum - Minimum) * Percent) \div 100 \in Nat
  BY <1>3, <1>4
<1> QED
  BY <1>1, <1>5 DEF DefaultThreshold

\* Both halves' keys have a place in the keymap.
LEMMA Positions ==
    /\ \A k \in Keys : OwnPosition(k) \in DOMAIN DefaultKeymap
                       /\ OwnPosition(k) = EngineIndex(k, FALSE)
    /\ \A k \in SlaveKeys : SlavePosition(k) \in DOMAIN DefaultKeymap
                            /\ SlavePosition(k) = EngineIndex(k, TRUE)
BY SettingsConstants, HalvesEqual
DEF Keys, SlaveKeys, OwnPosition, SlavePosition, EngineIndex, LeftCount

LEMMA DefaultType == DefaultSettings \in Contents
<1>1. DefaultKeymap \in [DOMAIN DefaultKeymap -> Seq(Rule)]
  BY SettingsConstants
<1>2. \A i \in DOMAIN DefaultKeymap : Keep(DefaultKeymap[i]) \in RuleSets
  BY <1>1, KeepRules
<1> QED
  BY <1>2, Positions, ThresholdType, SettingsConstants
  DEF DefaultSettings, Contents

LEMMA ZeroType == Zero \in Contents
<1>1. <<>> \in RuleSets
  BY SettingsConstants DEF RuleSets
<1> QED
  BY <1>1, SettingsConstants DEF Zero, Contents

\* The contents of an image that is used
LEMMA ImageType ==
    ASSUME flash \in Image \cup {None}, Valid(flash)
    PROVE  flash.contents \in Contents
BY SettingsConstants DEF Valid, Image

\* What each statement of main() finds.
StartUpInv ==
    /\ main \in {"settings", "save", "thread", "running"} => on_settings_update
    /\ main \in {"save", "thread", "running"} =>
          /\ key_thresholds = settings.thresholds
          /\ s_loaded_ok \/ settings = DefaultSettings
    /\ main = "save" => settings = DefaultSettings

SInv == SettingsTypeOK /\ StartUpInv

LEMMA InitSettings == SettingsInit => SInv
<1>1. FlashImages \subseteq Image
  BY SettingsConstants
<1>2. [k \in Keys |-> 0] \in [Keys -> Nat]
  OBVIOUS
<1> QED
  BY <1>1, <1>2, ZeroType DEF SettingsInit, SInv, SettingsTypeOK, StartUpInv

LEMMA NextSettings ==
    ASSUME SInv, Main \/ SettingsReset \/ UNCHANGED settingsVars
    PROVE  SInv'
<1>1. CASE Connect
  BY <1>1 DEF Connect, SInv, SettingsTypeOK, StartUpInv
<1>2. CASE HandleInit
  BY <1>2 DEF HandleInit, SInv, SettingsTypeOK, StartUpInv
<1>3. CASE LoadImage
  <2>1. settings' \in Contents
    BY <1>3, ImageType, PodsOfContents DEF LoadImage, SInv, SettingsTypeOK
  <2>2. key_thresholds' = settings'.thresholds
    BY <1>3 DEF LoadImage, Update, SInv, StartUpInv
  <2>3. settings'.thresholds \in [Keys -> Nat]
    BY <2>1 DEF Contents
  <2> QED
    BY <1>3, <2>1, <2>2, <2>3 DEF LoadImage, SInv, SettingsTypeOK, StartUpInv
<1>4. CASE LoadDefault
  <2>1. settings' = DefaultSettings
    BY <1>4 DEF LoadDefault
  <2>2. key_thresholds' = settings'.thresholds
    BY <1>4 DEF LoadDefault, Update, SInv, StartUpInv
  <2>3. settings'.thresholds \in [Keys -> Nat]
    BY <2>1, DefaultType DEF Contents
  <2> QED
    BY <1>4, <2>1, <2>2, <2>3, DefaultType
    DEF LoadDefault, SInv, SettingsTypeOK, StartUpInv
<1>5. CASE SaveSettings
  <2>1. BuildImage(settings) \in Image
    BY PodsOfContents, SettingsConstants
    DEF BuildImage, Image, SInv, SettingsTypeOK
  <2> QED
    BY <1>5, <2>1 DEF SaveSettings, SInv, SettingsTypeOK, StartUpInv
<1>6. CASE CreateThread
  BY <1>6 DEF CreateThread, SInv, SettingsTypeOK, StartUpInv
<1>7. CASE SettingsReset
  BY <1>7, ZeroType DEF SettingsReset, SInv, SettingsTypeOK, StartUpInv
<1>8. CASE UNCHANGED settingsVars
  BY <1>8 DEF settingsVars, SInv, SettingsTypeOK, StartUpInv
<1> QED
  BY <1>1, <1>2, <1>3, <1>4, <1>5, <1>6, <1>7, <1>8 DEF Main

\* Every step of the composition is one of the settings', or none.
LEMMA StepOfSettings ==
    [Next]_vars => Main \/ SettingsReset \/ UNCHANGED settingsVars
BY DEF Next, StartUp, GetBitmap, Poll, Reset, vars

LEMMA SpecSettings == Spec => []SInv
<1>1. Init => SInv
  BY InitSettings DEF Init
<1>2. SInv /\ [Next]_vars => SInv'
  BY NextSettings, StepOfSettings
<1> QED
  BY <1>1, <1>2, PTL DEF Spec

(***************************************************************************)
(* The default rules of a key are those of the index by which the key      *)
(* engine handles it, on either half and whichever half is the master.     *)
(***************************************************************************)
THEOREM KeymapIsAligned == Spec => []KeymapAligned
<1>1. \A i \in DOMAIN DefaultKeymap : RulesFrom(Keep(DefaultKeymap[i]), i)
  BY KeepRules, SettingsConstants DEF RulesFrom
<1>2. SInv => KeymapAligned
  <2> SUFFICES ASSUME SInv, main \in {"save", "thread", "running"}, ~ s_loaded_ok
               PROVE  /\ \A k \in Keys :
                            RulesFrom(settings.mappings[k], EngineIndex(k, FALSE))
                      /\ \A k \in SlaveKeys :
                            RulesFrom(settings.mappings_slave[k],
                                      EngineIndex(k, TRUE))
    BY DEF KeymapAligned
  <2>1. settings = DefaultSettings
    BY DEF SInv, StartUpInv
  <2> QED
    BY <1>1, <2>1, Positions DEF DefaultSettings
<1> QED
  BY <1>2, SpecSettings, PTL

(***************************************************************************)
(* The settings are remembered as SavedState says.                         *)
(***************************************************************************)
SavedContents == IF Valid(flash) THEN flash.contents ELSE DefaultSettings

LEMMA SavedType == SInv => SavedContents \in Contents
BY ImageType, DefaultType DEF SavedContents, SInv, SettingsTypeOK

THEOREM SettingsAreRemembered == Spec => SettingsRemembered
<1>1. Init => Remembered!SavedInit
  <2> SUFFICES ASSUME Init
               PROVE  Remembered!SavedInit
    OBVIOUS
  <2>1. SavedContents \in Contents
    BY SavedType, InitSettings DEF Init
  <2> QED
    BY <2>1 DEF Remembered!SavedInit, Init, SettingsInit, InUse, SavedContents
<1>2. SInv /\ [Next]_vars => [Remembered!SavedNext]_(Remembered!savedVars)
  <2> SUFFICES ASSUME SInv, [Next]_vars
               PROVE  Remembered!SavedNext \/ UNCHANGED Remembered!savedVars
    OBVIOUS
  <2> USE DEF Remembered!SavedNext, Remembered!savedVars
  <2>1. ASSUME flash' = flash
        PROVE  SavedContents' = SavedContents
    BY <2>1 DEF SavedContents, Valid
  <2>2. CASE Connect \/ HandleInit \/ LoadDefault
    <3>1. InUse = None /\ InUse' = None /\ flash' = flash
      BY <2>2 DEF Connect, HandleInit, LoadDefault, InUse
    <3> QED
      BY <2>1, <3>1 DEF SavedContents
  <2>3. CASE LoadImage
    <3>1. InUse = None /\ flash' = flash /\ InUse' = Pods(flash.contents)
          /\ Valid(flash)
      BY <2>3 DEF LoadImage, InUse
    <3>2. InUse' = SavedContents
      BY <3>1, ImageType, PodsOfContents DEF SavedContents, SInv, SettingsTypeOK
    <3> QED
      BY <2>1, <3>1, <3>2 DEF Remembered!Started, SavedContents
  <2>4. CASE SaveSettings
    <3>1. InUse = None /\ InUse' = DefaultSettings
      BY <2>4 DEF SaveSettings, InUse, SInv, StartUpInv
    <3>2. SavedContents' \in {SavedContents, DefaultSettings}
      <4>1. CASE flash' = flash
        BY <2>1, <4>1
      <4>2. CASE flash' = BuildImage(settings)
        <5>1. flash' = [version |-> Version, size |-> ImageSize,
                        contents |-> DefaultSettings]
          BY <2>4, <4>2, PodsOfContents, DefaultType
          DEF BuildImage, SaveSettings, SInv, StartUpInv
        <5> QED
          BY <5>1 DEF SavedContents
      <4> QED
        BY <2>4, <4>1, <4>2 DEF SaveSettings
    <3> QED
      BY <3>1, <3>2 DEF Remembered!Started, SavedContents
  <2>5. CASE CreateThread \/ UNCHANGED settingsVars
    <3>1. InUse' = InUse /\ flash' = flash
      BY <2>5 DEF CreateThread, InUse, settingsVars
    <3> QED
      BY <2>1, <3>1 DEF SavedContents
  <2>6. CASE SettingsReset
    <3>1. InUse' = None /\ flash' = flash
      BY <2>6 DEF SettingsReset, InUse
    <3> QED
      BY <2>1, <3>1 DEF Remembered!Reset, SavedContents
  <2> QED
    BY <2>2, <2>3, <2>4, <2>5, <2>6, StepOfSettings DEF Main
<1> QED
  BY <1>1, <1>2, SpecSettings, PTL DEF Spec, SettingsRemembered, Remembered!SavedSpec

-----------------------------------------------------------------------------
(***************************************************************************)
(* The scan.                                                               *)
(***************************************************************************)
\* The keys whose line the poll has been at
Seen(k) == k < key_index \/ (k = key_index /\ step = "lower")

\* A poll finds lines high only where earlier polls left them, from its key
\* on, besides its key's own.
LinesInv ==
    /\ \A l \in lines : l >= key_index
    /\ step # "idle" =>
          \A l \in lines : l \in found_high
                           \/ (l = key_index /\ step \in {"read", "lower"})

\* Polls run with the settings in use; before that there is no poll.
ThreadInv == main # "running" => step = "idle" /\ key_index = 0

\* The bitmap of a normal poll is right as far as the poll has come.
BitmapInv ==
    ~ race =>
        /\ step # "idle" => \A k \in bitmap : Seen(k)
        /\ \A k \in Lines \ misread :
              Seen(k) /\ ~ Disturbed(k) =>
                  (k \in bitmap <=> travel[k] >= settings.thresholds[k])

\* The key a race poll has found so far is pressed furthest of those it has
\* read, if no line mixed with them and no read failed.
Over(k) == Seen(k) /\ travel[k] >= settings.thresholds[k]

RaceInv ==
    /\ race /\ found_high = {} /\ misread = {}
            /\ (step # "idle" \/ key_index = LineCount) =>
          /\ \A k \in Lines : Over(k) => travel[k] <= max_val
          /\ \/ pressed_index = -1 /\ max_val = 0
             \/ /\ pressed_index \in Lines /\ Over(pressed_index)
                /\ travel[pressed_index] = max_val /\ max_val > 0
    /\ race /\ Completed => result = pressed_index

\* In a race poll the bitmap is empty until the end.
RaceBitmapInv == step # "idle" => bitmap \subseteq Lines /\ (race => bitmap = {})

ScanInv == LinesInv /\ ThreadInv /\ BitmapInv /\ RaceInv

LEMMA LineFacts ==
    /\ LineCount \in Nat /\ LineCount # 0
    /\ Lines = 0..(LineCount - 1)
    /\ \A T \in SUBSET Lines : Cardinality(T) \in 0..LineCount
<1>1. LineCount \in Nat /\ LineCount # 0 /\ Lines = 0..(LineCount - 1)
  BY EnablesConstants, FS_CardinalityType DEF LineCount
<1>2. ASSUME NEW T \in SUBSET Lines
      PROVE  Cardinality(T) \in 0..LineCount
  <2>1. IsFiniteSet(T) /\ Cardinality(T) <= LineCount
    BY EnablesConstants, FS_Subset DEF LineCount
  <2>2. Cardinality(T) \in Nat
    BY <2>1, FS_CardinalityType
  <2> QED
    BY <1>1, <2>1, <2>2
<1> QED
  BY <1>1, <1>2

LEMMA ReadingFacts ==
    /\ Reading \subseteq Nat /\ 0 \in Reading
    /\ [k \in Lines |-> 0] \in [Lines -> Reading]
BY EnablesConstants

\* Types, and what a poll's bitmap can hold.
ScanType == ScanTypeOK /\ RaceBitmapInv

LEMMA Zeroes ==
    /\ 0 \in 0..LineCount /\ -1 \in -2..LineCount /\ 0 \in Nat
    /\ [k \in Lines |-> 0] \in [Lines -> Reading]
BY LineFacts, ReadingFacts

LEMMA InitScan == ScanInit => ScanType
BY Zeroes DEF ScanInit, ScanType, ScanTypeOK, RaceBitmapInv

LEMMA NextScanType ==
    ASSUME ScanType,
           \/ \E in_race \in BOOLEAN : PollStarts(in_race)
           \/ \E thresholds : ScanStep(thresholds)
           \/ ScanReset
           \/ UNCHANGED scanVars
    PROVE  ScanType'
<1> USE DEF ScanType, RaceBitmapInv
<1>1. CASE \E in_race \in BOOLEAN : PollStarts(in_race)
  BY <1>1, LineFacts, Zeroes DEF PollStarts, ScanTypeOK
<1>2. CASE Raise
  BY <1>2, LineFacts DEF Raise, ScanTypeOK
<1>3. ASSUME NEW own \in Reading, NEW value \in Reading, ReadChannel(own, value),
             step = "read"
      PROVE  /\ travel' \in [Lines -> Reading]
             /\ misread' \subseteq Lines
             /\ value \in Nat
  BY <1>3, ReadingFacts, LineFacts DEF ReadChannel, ScanTypeOK
<1>4. ASSUME NEW thresholds, NEW own \in Reading, NEW value \in Reading,
             ReadNormal(thresholds, own, value)
      PROVE  ScanType'
  BY <1>3, <1>4, LineFacts DEF ReadNormal, ScanTypeOK
<1>5. ASSUME NEW thresholds, NEW own \in Reading, NEW value \in Reading,
             ReadRace(thresholds, own, value)
      PROVE  ScanType'
  BY <1>3, <1>5, LineFacts DEF ReadRace, ScanTypeOK
<1>6. CASE Lower
  BY <1>6, LineFacts DEF Lower, ScanTypeOK
<1>7. CASE LowerLast
  <2>1. result' \in -2..LineCount
    BY <1>7, LineFacts DEF LowerLast, ScanTypeOK
  <2> QED
    BY <1>7, <2>1, LineFacts DEF LowerLast, ScanTypeOK
<1>8. CASE WriteFails
  BY <1>8, LineFacts DEF WriteFails, ScanTypeOK
<1>9. CASE ScanReset
  BY <1>9, Zeroes DEF ScanReset, ScanTypeOK
<1>10. CASE UNCHANGED scanVars
  BY <1>10 DEF scanVars, ScanTypeOK
<1> QED
  BY <1>1, <1>2, <1>4, <1>5, <1>6, <1>7, <1>8, <1>9, <1>10 DEF ScanStep

\* The steps of the composition, seen from the scan
LEMMA StepOfScan ==
    [Next]_vars =>
        \/ GetBitmap /\ UNCHANGED settingsVars
        \/ ScanStep(key_thresholds) /\ UNCHANGED settingsVars
        \/ Reset
        \/ Main /\ main # "running" /\ UNCHANGED scanVars
        \/ UNCHANGED vars
BY DEF Next, StartUp, GetBitmap, Poll, vars, Main, Connect, HandleInit,
       LoadImage, LoadDefault, SaveSettings, CreateThread

LEMMA SpecScanType == Spec => []ScanType
<1>1. Init => ScanType
  BY InitScan DEF Init
<1>2. ScanType /\ [Next]_vars => ScanType'
  <2>1. GetBitmap => \E in_race \in BOOLEAN : PollStarts(in_race)
    BY DEF GetBitmap
  <2>2. UNCHANGED vars => UNCHANGED scanVars
    BY DEF vars
  <2> QED
    BY <2>1, <2>2, StepOfScan, NextScanType DEF Reset
<1> QED
  BY <1>1, <1>2, PTL DEF Spec

(***************************************************************************)
(* Every value of a poll and of the settings has its type.                 *)
(***************************************************************************)
THEOREM ScanTypeCorrect == Spec => []TypeOK
<1>1. SInv /\ ScanType => TypeOK
  BY DEF SInv, ScanType, TypeOK
<1> QED
  BY <1>1, SpecSettings, SpecScanType, PTL

LEMMA InitScanInv == Init => ScanInv
<1>1. Init => /\ lines = {} /\ step = "idle" /\ key_index = 0 /\ race = FALSE
  BY DEF Init, ScanInit
<1>2. \A k \in Lines : ~ (k < 0)
  BY LineFacts
<1> QED
  BY <1>1, <1>2
  DEF ScanInv, LinesInv, ThreadInv, BitmapInv, RaceInv, Seen

-----------------------------------------------------------------------------
\* The lines, and when a poll runs
LEMMA NextLines ==
    ASSUME ScanType, LinesInv, [Next]_vars
    PROVE  LinesInv'
<1> USE LineFacts DEF ScanType, ScanTypeOK, LinesInv
<1>1. CASE GetBitmap
  BY <1>1 DEF GetBitmap, PollStarts
<1>2. CASE ScanStep(key_thresholds)
  <2>1. CASE Raise
    BY <2>1 DEF Raise
  <2>2. CASE \E own, value \in Reading : \/ ReadNormal(key_thresholds, own, value)
                                        \/ ReadRace(key_thresholds, own, value)
    <3>1. lines' = lines /\ key_index' = key_index /\ step' = "lower"
          /\ found_high' = found_high /\ step = "read"
      BY <2>2 DEF ReadNormal, ReadRace
    <3> QED
      BY <3>1
  <2>3. CASE Lower \/ LowerLast
    <3>1. /\ step = "lower" /\ lines' = lines \ {key_index}
          /\ key_index' = key_index + 1 /\ found_high' = found_high
      BY <2>3 DEF Lower, LowerLast
    <3> QED
      BY <3>1
  <2>4. CASE WriteFails
    BY <2>4 DEF WriteFails
  <2> QED
    BY <1>2, <2>1, <2>2, <2>3, <2>4 DEF ScanStep
<1>3. CASE Reset
  BY <1>3 DEF Reset, ScanReset
<1>4. CASE UNCHANGED scanVars
  BY <1>4 DEF scanVars
<1> QED
  BY <1>1, <1>2, <1>3, <1>4, StepOfScan DEF vars

LEMMA NextThread ==
    ASSUME ThreadInv, [Next]_vars
    PROVE  ThreadInv'
<1>1. CASE GetBitmap
  BY <1>1 DEF GetBitmap, ThreadInv, settingsVars
<1>2. CASE ScanStep(key_thresholds) /\ UNCHANGED settingsVars
  <2>1. step # "idle"
    BY <1>2 DEF ScanStep, Raise, Lower, LowerLast, WriteFails, ReadNormal, ReadRace
  <2> QED
    BY <1>2, <2>1 DEF ThreadInv, settingsVars
<1>3. CASE Reset
  BY <1>3 DEF Reset, ScanReset, SettingsReset, ThreadInv
<1>4. CASE main # "running" /\ UNCHANGED scanVars
  BY <1>4 DEF ThreadInv, scanVars
<1>5. CASE UNCHANGED vars
  BY <1>5 DEF ThreadInv, vars, settingsVars, scanVars
<1> QED
  BY <1>1, <1>2, <1>3, <1>4, <1>5, StepOfScan

-----------------------------------------------------------------------------
\* What a step of a poll compares with
LEMMA Thresholds ==
    ASSUME SInv, ThreadInv, ScanStep(key_thresholds)
    PROVE  /\ key_thresholds = settings.thresholds
           /\ \A k \in Lines : settings.thresholds[k] \in Nat
<1>1. step # "idle"
  BY DEF ScanStep, Raise, Lower, LowerLast, WriteFails, ReadNormal, ReadRace
<1>2. main = "running"
  BY <1>1 DEF ThreadInv
<1> QED
  BY <1>2, OneLinePerKey DEF SInv, StartUpInv, SettingsTypeOK, Contents

\* A signal is mixed only with a line that was high when the poll began.
LEMMA MixedDisturbs ==
    ASSUME ScanType, LinesInv, step = "read", Mixed
    PROVE  Disturbed(key_index) /\ found_high # {}
<1>1. PICK l \in lines \ {key_index} : Channel[l] = Channel[key_index]
  BY DEF Mixed
<1>2. l \in found_high /\ l > key_index
  BY <1>1, LineFacts DEF LinesInv, ScanType, ScanTypeOK
<1> QED
  BY <1>1, <1>2 DEF Disturbed

\* The steps that lower a line, raise one or give up see no other keys.
LEMMA SeenStays ==
    ASSUME ScanType, Raise \/ Lower \/ LowerLast, NEW k \in Lines
    PROVE  Seen(k)' <=> Seen(k)
BY LineFacts DEF Raise, Lower, LowerLast, Seen, ScanType, ScanTypeOK

LEMMA NextBitmap ==
    ASSUME SInv, ScanType, LinesInv, ThreadInv, BitmapInv, [Next]_vars
    PROVE  BitmapInv'
<1> USE LineFacts DEF ScanType, ScanTypeOK
<1>1. CASE GetBitmap
  <2>1. key_index' = 0 /\ bitmap' = {} /\ step' = "raise"
    BY <1>1 DEF GetBitmap, PollStarts
  <2>2. \A k \in Lines : ~ Seen(k)'
    BY <2>1 DEF Seen
  <2> QED
    BY <2>1, <2>2 DEF BitmapInv
<1>2. CASE ScanStep(key_thresholds) /\ UNCHANGED settingsVars
  <2>0. settings' = settings
    BY <1>2 DEF settingsVars
  <2>1. CASE Raise \/ Lower \/ (LowerLast /\ ~ race)
    <3>1. /\ race' = race /\ bitmap' = bitmap /\ found_high' = found_high
          /\ travel' = travel /\ misread' = misread /\ step # "idle"
      BY <2>1 DEF Raise, Lower, LowerLast
    <3>2. ASSUME NEW k PROVE Disturbed(k)' <=> Disturbed(k)
      BY <3>1 DEF Disturbed
    <3>3. ~ race => bitmap \subseteq Lines
      BY <3>1 DEF RaceBitmapInv
    <3> QED
      BY <2>0, <2>1, <3>1, <3>2, <3>3, SeenStays DEF BitmapInv
  <2>2. CASE LowerLast /\ race
    BY <2>2 DEF LowerLast, BitmapInv
  <2>3. CASE WriteFails
    <3>1. /\ race' = race /\ bitmap' = bitmap /\ found_high' = found_high
          /\ travel' = travel /\ misread' = misread /\ step' = "idle"
      BY <2>3 DEF WriteFails
    <3>2. ASSUME NEW k PROVE /\ Disturbed(k)' <=> Disturbed(k)
                             /\ Seen(k)' => Seen(k)
      BY <2>3, <3>1 DEF Disturbed, Seen, WriteFails
    <3> QED
      BY <2>0, <3>1, <3>2 DEF BitmapInv
  <2>4. ASSUME NEW own \in Reading, NEW value \in Reading,
               ReadRace(key_thresholds, own, value)
        PROVE  BitmapInv'
    BY <2>4 DEF ReadRace, BitmapInv
  <2>5. ASSUME NEW own \in Reading, NEW value \in Reading,
               ReadNormal(key_thresholds, own, value)
        PROVE  BitmapInv'
    <3>1. /\ step = "read" /\ step' = "lower" /\ ~ race /\ ~ race'
          /\ key_index \in Lines /\ key_index' = key_index
          /\ found_high' = found_high
          /\ travel' = [travel EXCEPT ![key_index] = own]
          /\ misread \subseteq misread'
      BY <2>5 DEF ReadNormal, ReadChannel
    <3>2. ASSUME NEW k PROVE Disturbed(k)' <=> Disturbed(k)
      BY <3>1 DEF Disturbed
    <3>3. ASSUME NEW k \in Lines
          PROVE  /\ Seen(k)' <=> Seen(k) \/ k = key_index
                 /\ ~ Seen(key_index)
      BY <3>1 DEF Seen
    <3>4. key_index \notin bitmap /\ bitmap \subseteq Lines
      BY <3>1, <3>3 DEF BitmapInv, RaceBitmapInv
    <3>5. ASSUME NEW k \in Lines, k # key_index
          PROVE  /\ k \in bitmap' <=> k \in bitmap
                 /\ travel'[k] = travel[k]
      BY <2>5, <3>1, <3>5 DEF ReadNormal
    <3>6. ASSUME key_index \notin misread', ~ Disturbed(key_index)
          PROVE  key_index \in bitmap' <=>
                    travel'[key_index] >= settings.thresholds[key_index]
      <4>1. value = own
        BY <2>5, <3>1, <3>6, MixedDisturbs DEF ReadNormal, ReadChannel
      <4>2. key_index \in bitmap' <=> Pressed(value, key_thresholds[key_index])
        BY <2>5, <3>4 DEF ReadNormal
      <4>3. settings.thresholds[key_index] \in Nat /\ value \in Nat
            /\ key_thresholds = settings.thresholds
        BY <1>2, <3>1, Thresholds, ReadingFacts
      <4>4. travel'[key_index] = own
        BY <3>1
      <4> QED
        BY <4>1, <4>2, <4>3, <4>4 DEF Pressed
    <3>7. \A k \in bitmap' : Seen(k)'
      <4>1. bitmap' \subseteq bitmap \cup {key_index}
        BY <2>5 DEF ReadNormal
      <4> QED
        BY <4>1, <3>1, <3>3, <3>4 DEF BitmapInv
    <3> QED
      BY <2>0, <3>1, <3>2, <3>3, <3>5, <3>6, <3>7 DEF BitmapInv
  <2> QED
    BY <1>2, <2>1, <2>2, <2>3, <2>4, <2>5 DEF ScanStep
<1>3. CASE Reset
  <2>1. key_index' = 0 /\ step' = "idle"
    BY <1>3 DEF Reset, ScanReset
  <2>2. \A k \in Lines : ~ Seen(k)'
    BY <2>1 DEF Seen
  <2> QED
    BY <2>1, <2>2 DEF BitmapInv
<1>4. CASE main # "running" /\ UNCHANGED scanVars
  <2>1. key_index' = 0 /\ step' = "idle"
    BY <1>4 DEF ThreadInv, scanVars
  <2>2. \A k \in Lines : ~ Seen(k)'
    BY <2>1 DEF Seen
  <2> QED
    BY <2>1, <2>2 DEF BitmapInv
<1>5. CASE UNCHANGED vars
  BY <1>5 DEF vars, settingsVars, scanVars, BitmapInv, Seen, Disturbed
<1> QED
  BY <1>1, <1>2, <1>3, <1>4, <1>5, StepOfScan

\* What a race poll has found
LEMMA NextRace ==
    ASSUME SInv, ScanType, LinesInv, ThreadInv, RaceInv, [Next]_vars
    PROVE  RaceInv'
<1> USE LineFacts DEF ScanType, ScanTypeOK
<1>1. CASE GetBitmap
  <2>1. /\ key_index' = 0 /\ step' = "raise"
        /\ max_val' = 0 /\ pressed_index' = -1
    BY <1>1 DEF GetBitmap, PollStarts
  <2>2. \A k \in Lines : ~ Over(k)'
    BY <2>1 DEF Over, Seen
  <2> QED
    BY <2>1, <2>2 DEF RaceInv, Completed
<1>2. CASE ScanStep(key_thresholds) /\ UNCHANGED settingsVars
  <2>0. settings' = settings
    BY <1>2 DEF settingsVars
  <2>1. CASE Raise \/ Lower \/ LowerLast
    <3>1. /\ race' = race /\ found_high' = found_high /\ travel' = travel
          /\ misread' = misread /\ max_val' = max_val
          /\ pressed_index' = pressed_index /\ step # "idle"
      BY <2>1 DEF Raise, Lower, LowerLast
    <3>2. ASSUME NEW k \in Lines PROVE Over(k)' <=> Over(k)
      BY <2>0, <2>1, <3>1, SeenStays DEF Over
    <3>3. race /\ Completed' => result' = pressed_index'
      BY <2>1 DEF Raise, Lower, LowerLast, Completed
    <3> QED
      BY <3>1, <3>2, <3>3 DEF RaceInv
  <2>2. CASE WriteFails
    <3>1. step' = "idle" /\ key_index' # LineCount
      BY <2>2 DEF WriteFails
    <3> QED
      BY <3>1 DEF RaceInv, Completed
  <2>3. ASSUME NEW own \in Reading, NEW value \in Reading,
               ReadNormal(key_thresholds, own, value)
        PROVE  RaceInv'
    BY <2>3 DEF ReadNormal, RaceInv
  <2>4. ASSUME NEW own \in Reading, NEW value \in Reading,
               ReadRace(key_thresholds, own, value)
        PROVE  RaceInv'
    <3>1. /\ step = "read" /\ step' = "lower" /\ race
          /\ key_index \in Lines /\ key_index' = key_index
          /\ found_high' = found_high
          /\ travel' = [travel EXCEPT ![key_index] = own]
          /\ misread \subseteq misread'
      BY <2>4 DEF ReadRace, ReadChannel
    <3> SUFFICES ASSUME found_high' = {}, misread' = {}
                 PROVE  /\ \A k \in Lines : Over(k)' => travel'[k] <= max_val'
                        /\ \/ pressed_index' = -1 /\ max_val' = 0
                           \/ /\ pressed_index' \in Lines /\ Over(pressed_index)'
                              /\ travel'[pressed_index'] = max_val'
                              /\ max_val' > 0
      BY <3>1 DEF RaceInv, Completed
    <3>2. /\ \A k \in Lines : Over(k) => travel[k] <= max_val
          /\ \/ pressed_index = -1 /\ max_val = 0
             \/ /\ pressed_index \in Lines /\ Over(pressed_index)
                /\ travel[pressed_index] = max_val /\ max_val > 0
      BY <3>1 DEF RaceInv
    <3>3. value = own /\ travel'[key_index] = value
      BY <2>4, <3>1, MixedDisturbs DEF ReadRace, ReadChannel
    <3>4. /\ key_thresholds = settings.thresholds
          /\ settings.thresholds[key_index] \in Nat /\ value \in Nat
      BY <1>2, <3>1, Thresholds, ReadingFacts
    <3>5. ASSUME NEW k \in Lines, k # key_index
          PROVE  travel'[k] = travel[k] /\ (Over(k)' <=> Over(k))
      BY <2>0, <3>1, <3>5 DEF Over, Seen
    <3>6. ~ Over(key_index)
      BY <3>1 DEF Over, Seen
    <3>7. Over(key_index)' <=> Pressed(value, key_thresholds[key_index])
      BY <2>0, <3>1, <3>3, <3>4 DEF Over, Seen, Pressed
    <3>8. CASE Pressed(value, key_thresholds[key_index]) /\ max_val < value
      <4>1. max_val' = value /\ pressed_index' = key_index
        BY <2>4, <3>4, <3>8 DEF ReadRace
      <4>2. \A k \in Lines : travel[k] \in Nat
        BY ReadingFacts
      <4> QED
        BY <3>1, <3>2, <3>3, <3>4, <3>5, <3>7, <3>8, <4>1, <4>2
    <3>9. CASE ~ Pressed(value, key_thresholds[key_index]) \/ max_val >= value
      <4>1. max_val' = max_val /\ pressed_index' = pressed_index
        BY <2>4, <3>4, <3>9 DEF ReadRace
      <4>2. Over(key_index)' => travel'[key_index] <= max_val'
        BY <3>3, <3>4, <3>7, <3>9, <4>1
      <4>3. ASSUME NEW k \in Lines, Over(k)'
            PROVE  travel'[k] <= max_val'
        <5>1. CASE k = key_index
          BY <4>2, <4>3, <5>1, <3>1
        <5>2. CASE k # key_index
          BY <3>2, <3>5, <4>1, <4>3, <5>2
        <5> QED
          BY <5>1, <5>2
      <4>4. pressed_index \in Lines /\ Over(pressed_index) =>
               /\ Over(pressed_index)'
               /\ travel'[pressed_index'] = travel[pressed_index]
        <5>1. ASSUME pressed_index \in Lines, Over(pressed_index)
              PROVE  pressed_index # key_index
          BY <3>6, <5>1
        <5>2. ASSUME pressed_index \in Lines, Over(pressed_index)
              PROVE  Over(pressed_index)'
          <6>1. settings'.thresholds[pressed_index']
                   = settings.thresholds[pressed_index]
            BY <2>0, <4>1
          <6>2. travel'[pressed_index'] = travel[pressed_index]
            BY <3>5, <4>1, <5>1, <5>2
          <6>3. Seen(pressed_index)'
            BY <3>1, <4>1, <5>1, <5>2 DEF Over, Seen
          <6> QED
            BY <5>2, <6>1, <6>2, <6>3 DEF Over
        <5> QED
          BY <3>5, <4>1, <5>1, <5>2
      <4> QED
        BY <3>2, <4>1, <4>3, <4>4
    <3> QED
      BY <3>4, <3>8, <3>9
  <2> QED
    BY <1>2, <2>1, <2>2, <2>3, <2>4 DEF ScanStep
<1>3. CASE Reset
  BY <1>3 DEF Reset, ScanReset, RaceInv, Completed
<1>4. CASE main # "running" /\ UNCHANGED scanVars
  <2>1. key_index' # LineCount
    BY <1>4 DEF ThreadInv, scanVars
  <2>2. step' = "idle"
    BY <1>4 DEF ThreadInv, scanVars
  <2> QED
    BY <2>1, <2>2 DEF RaceInv, Completed
<1>5. CASE UNCHANGED vars
  BY <1>5 DEF vars, settingsVars, scanVars, RaceInv, Over, Seen, Completed
<1> QED
  BY <1>1, <1>2, <1>3, <1>4, <1>5, StepOfScan

-----------------------------------------------------------------------------
LEMMA SpecScan == Spec => [](SInv /\ ScanType /\ ScanInv)
<1>1. SInv /\ ScanType /\ ScanInv /\ [Next]_vars => ScanInv'
  BY NextLines, NextThread, NextBitmap, NextRace DEF ScanInv
<1> QED
  BY <1>1, InitScanInv, SpecSettings, SpecScanType, PTL DEF Spec

(***************************************************************************)
(* A poll that reads every key leaves every line low.                      *)
(***************************************************************************)
THEOREM LinesDoRecover == Spec => []LinesRecover
<1>1. ScanType /\ ScanInv => LinesRecover
  BY LineFacts
  DEF ScanType, ScanTypeOK, ScanInv, LinesInv, LinesRecover, Completed
<1> QED
  BY <1>1, SpecScan, PTL

(***************************************************************************)
(* A normal poll that reads every key finds exactly those at or over the   *)
(* thresholds in use, but for failed reads and lines left high before.     *)
(***************************************************************************)
THEOREM BitmapIsExact == Spec => []BitmapExact
<1>1. SInv /\ ScanType /\ ScanInv => BitmapExact
  BY LineFacts
  DEF ScanType, ScanTypeOK, ScanInv, BitmapInv, BitmapExact, Completed, Seen
<1> QED
  BY <1>1, SpecScan, PTL

(***************************************************************************)
(* A race poll that no line and no failed read disturbed finds a key       *)
(* pressed furthest, and -1 only if no key is pressed.                     *)
(***************************************************************************)
THEOREM RaceFindsGreatest == Spec => []RaceGreatest
<1>1. ASSUME ScanType, ScanInv, Completed, race, found_high = {}, misread = {},
             \A k \in Lines : settings.thresholds[k] \in Nat
      PROVE  \/ result \in GreatestOf(settings.thresholds)
             \/ result = -1 /\ GreatestOf(settings.thresholds) = {}
  <2>1. /\ \A k \in Lines : Over(k) => travel[k] <= max_val
        /\ \/ pressed_index = -1 /\ max_val = 0
           \/ /\ pressed_index \in Lines /\ Over(pressed_index)
              /\ travel[pressed_index] = max_val /\ max_val > 0
        /\ result = pressed_index
    BY <1>1 DEF ScanInv, RaceInv, Completed
  <2>2. \A k \in Lines : /\ Over(k) <=> travel[k] >= settings.thresholds[k]
                         /\ travel[k] \in Nat
    <3>1. \A k \in Lines : Seen(k)
      BY <1>1, LineFacts DEF Seen, Completed
    <3>2. \A k \in Lines : travel[k] \in Nat
      BY <1>1, ReadingFacts DEF ScanType, ScanTypeOK
    <3> QED
      BY <3>1, <3>2 DEF Over
  <2>3. CASE pressed_index = -1 /\ max_val = 0
    BY <2>1, <2>2, <2>3 DEF GreatestOf
  <2>4. CASE pressed_index \in Lines /\ max_val > 0
    BY <2>1, <2>2, <2>4 DEF GreatestOf
  <2> QED
    BY <2>1, <2>3, <2>4
<1>2. SInv => \A k \in Lines : settings.thresholds[k] \in Nat
  BY OneLinePerKey DEF SInv, SettingsTypeOK, Contents
<1>3. SInv /\ ScanType /\ ScanInv => RaceGreatest
  BY <1>1, <1>2 DEF RaceGreatest
<1> QED
  BY <1>3, SpecScan, PTL
=============================================================================
