------------------------ MODULE KbHandleMasterProofs ------------------------
(***************************************************************************)
(* Type correctness of the master's key handling, and the ownership        *)
(* invariants of the pressed-key table, FN mode and the layer bits, for    *)
(* every keymap, number of keys and table size.                            *)
(***************************************************************************)
EXTENDS KbHandleMaster, KbEngineProofs, FunctionTheorems

(***************************************************************************)
(* Every key of a half has a keymap index, and no two keys share one.      *)
(***************************************************************************)
LEMMA KeymapIndexType ==
    \A h \in Halves : \A k \in Keys(h) : KeymapIndex(h, k) \in Index
  BY HandleConstants DEF Halves, Keys, KeymapIndex

LEMMA KeymapIndexInjective ==
    \A g, h \in Halves : \A j \in Keys(g), k \in Keys(h) :
        KeymapIndex(g, j) = KeymapIndex(h, k) => g = h /\ j = k
  BY HandleConstants DEF Halves, Keys, KeymapIndex

LEMMA InitType == Init => TypeOK
<1> SUFFICES ASSUME Init PROVE TypeOK
  OBVIOUS
<1>1. /\ <<>> \in Seq(PressedKey)
      /\ <<>> \in Seq(Index)
      /\ Len(<<>>) = 0
  BY EmptySeq
<1>2. EngineTypeOK
  <2>1. pressed_keys \in Seq(PressedKey) /\ Len(pressed_keys) <= PressedMax
    BY <1>1, EngineConstants DEF Init, EngineInit
  <2>2. fn_buff \in Seq(Index) /\ Len(fn_buff) <= FnMax
    BY <1>1, EngineConstants DEF Init, EngineInit
  <2> QED
    BY <2>1, <2>2 DEF Init, EngineInit, EngineTypeOK
<1> QED
  BY <1>1, <1>2 DEF Init, LinkInit, TypeOK, Phases, Halves

(***************************************************************************)
(* Every step of kb_handle and of the Bluetooth callbacks keeps the types. *)
(***************************************************************************)
LEMMA NextType == TypeOK /\ [Next]_vars => TypeOK'
<1> SUFFICES ASSUME TypeOK, [Next]_vars PROVE TypeOK'
  OBVIOUS
<1> USE DEF TypeOK, Phases, Halves
<1>1. ASSUME UNCHANGED engineVars PROVE EngineTypeOK'
  BY <1>1 DEF engineVars, EngineTypeOK
<1>2. CASE Poll
  <2>1. ASSUME NEW down \in MasterBitmaps, PollNormal(down) PROVE TypeOK'
    <3>1. down \subseteq Keys("master") /\ down \subseteq Index
      BY <2>1, HandleConstants DEF Keys
    <3> QED
      BY <1>1, <2>1, <3>1 DEF PollNormal, inputVars, linkVars, history
  <2>2. ASSUME NEW k \in UNION MasterBitmaps, PollRace(k) PROVE TypeOK'
    <3>1. k \in Keys("master") /\ k \in Index
      BY <2>2, HandleConstants DEF Keys
    <3> QED
      BY <1>1, <2>2, <3>1 DEF PollRace, inputVars, linkVars, history
  <2>3. CASE PollRaceNone
    BY <1>1, <2>3 DEF PollRaceNone, inputVars, linkVars, history
  <2> QED
    BY <1>2, <2>1, <2>2, <2>3 DEF Poll
<1>3. ASSUME NEW h \in Halves, NEW k \in Keys(h), Press(h, k) PROVE TypeOK'
  <2>1. EngineTypeOK'
    BY <1>3, OnPressType, KeymapIndexType DEF Press
  <2> QED
    BY <1>3, <2>1 DEF Press, inputVars, linkVars, history
<1>4. ASSUME NEW h \in Halves, NEW k \in Keys(h), Release(h, k) PROVE TypeOK'
  <2>1. EngineTypeOK'
    BY <1>4, OnReleaseType, KeymapIndexType DEF Release
  <2>2. masked' \subseteq Index
    BY <1>4, KeymapIndexType DEF Release
  <2> QED
    BY <1>4, <2>1, <2>2 DEF Release, inputVars, linkVars
<1>5. ASSUME NEW h \in Halves, EdgesDone(h) PROVE TypeOK'
  BY <1>1, <1>5 DEF EdgesDone, inputVars, linkVars, history
<1>6. CASE GetSlaveKeys
  BY <1>1, <1>6 DEF GetSlaveKeys, inputVars, linkVars, history
<1>7. CASE ClearSlaveKeys
  <2>1. SlaveIndices(prev_down["slave"]) \subseteq Index
    BY KeymapIndexType DEF SlaveIndices
  <2> QED
    BY <1>1, <1>7, <2>1 DEF ClearSlaveKeys, inputVars, linkVars
<1>8. CASE CopyDone
  BY <1>1, <1>8 DEF CopyDone, inputVars, linkVars, history
<1>9. ASSUME NEW w \in WordsOf("slave"), CopyWord(w) PROVE TypeOK'
  <2>1. curr_down' \in [Halves -> SUBSET Index]
    BY <1>9, HandleConstants DEF CopyWord, Keys
  <2> QED
    BY <1>1, <1>9, <2>1 DEF CopyWord, inputVars, linkVars, history
<1>10. CASE SendReport
  <2>1. report' \in Seq(PressedKey)
    BY <1>10, PrefixType DEF SendReport, EngineTypeOK
  <2> QED
    BY <1>1, <1>10, <2>1 DEF SendReport, inputVars, linkVars, history
<1>11. CASE Link
  <2>0. UNCHANGED <<engineVars, handleVars, race_mode, history>>
    BY <1>11 DEF Link
  <2>1. incoming_keys' \subseteq Keys("slave") /\ slave_conn' \in BOOLEAN
    <3>1. LinkNext
      BY <1>11 DEF Link
    <3>2. ASSUME NEW keys \in SlaveBitmaps, Notified(keys)
          PROVE  incoming_keys' \subseteq Keys("slave") /\ slave_conn' \in BOOLEAN
      BY <3>2, HandleConstants DEF Notified
    <3>3. CASE ConnCreated
      BY <3>3 DEF ConnCreated
    <3>4. CASE ConnLost
      BY <3>4 DEF ConnLost
    <3> QED
      BY <3>1, <3>2, <3>3, <3>4 DEF LinkNext
  <2> QED
    BY <1>1, <2>0, <2>1 DEF handleVars, history
<1>12. CASE UNCHANGED vars
  BY <1>1, <1>12 DEF vars, handleVars, inputVars, linkVars, history
<1> QED
  BY <1>2, <1>3, <1>4, <1>5, <1>6, <1>7, <1>8, <1>9, <1>10, <1>11, <1>12
     DEF Next, InKbHandle

(***************************************************************************)
(* Every variable of the master's key handling keeps its type: the tables  *)
(* stay within their arrays, bitmaps within the keys of their half, and a  *)
(* report is made of table entries.                                        *)
(***************************************************************************)
THEOREM TypeCorrect == Spec => []TypeOK
<1>1. Init => TypeOK
  BY InitType
<1>2. TypeOK /\ [Next]_vars => TypeOK'
  BY NextType
<1> QED
  BY <1>1, <1>2, PTL DEF Spec

-----------------------------------------------------------------------------
(***************************************************************************)
(* The inductive invariant.  Ownership alone is not inductive: that the    *)
(* release of an FN key or of a layer key leaves no entry behind needs     *)
(* that neither ever has one, hence the kinds of the keys recorded.        *)
(***************************************************************************)
Recorded ==
    /\ \A n \in 1..Len(pressed_keys) :
          CodesOf(pressed_keys[n].index) \cap NormalCodes # {}
    /\ \A n \in 1..Len(fn_buff) : CodesOf(fn_buff[n]) \cap NormalCodes # {}

Owned == PressedOwned /\ FnOwned /\ LayersOwned

IInv == TypeOK /\ Recorded /\ Owned

(***************************************************************************)
(* A press makes its key an owner, and whatever it adds is owned by it.    *)
(***************************************************************************)
LEMMA PressOwned ==
    ASSUME IInv, NEW i \in Index, i \notin Held, OnPress(i),
           Held' = Held \cup {i}, dropped' = dropped, masked' = masked
    PROVE  Recorded' /\ Owned'
<1> USE DEF IInv, TypeOK, EngineTypeOK, Recorded, Owned
<1>1. UNCHANGED pressed_keys => PressedOwned'
  BY DEF PressedOwned, IndicesIn
<1>2. UNCHANGED <<fn_buff, fn_pressed>> => FnOwned'
  BY DEF FnOwned
<1>3. UNCHANGED layer_modifiers => LayersOwned'
  BY DEF LayersOwned
<1>4. CASE PressUntranslated(i)
  BY <1>1, <1>2, <1>3, <1>4 DEF PressUntranslated
<1>5. CASE PressUnderFn(i)
  <2>1. CodesOf(i) \cap NormalCodes # {}
    BY <1>5, TranslatedCode DEF PressUnderFn
  <2>2. CASE Len(fn_buff) < FnMax
    <3>1. fn_buff' = Append(fn_buff, i)
      BY <1>5, <2>2 DEF PressUnderFn, fn_add
    <3>2. /\ Len(fn_buff) \in Nat
          /\ Len(fn_buff') = Len(fn_buff) + 1
          /\ \A n \in 1..Len(fn_buff) : fn_buff'[n] = fn_buff[n]
          /\ fn_buff'[Len(fn_buff) + 1] = i
      BY <3>1, LenProperties
    <3>3. \A n \in 1..Len(fn_buff') :
             n \in 1..Len(fn_buff) \/ n = Len(fn_buff) + 1
      BY <3>2
    <3>4. Recorded'
      BY <1>5, <2>1, <3>2, <3>3 DEF PressUnderFn
    <3>5. FnOwned'
      <4>1. fn_pressed' /\ \E j \in Held' \cup dropped' : KeyFn \in CodesOf(j)
        BY <1>5 DEF PressUnderFn, FnOwned
      <4>2. \A n \in 1..Len(fn_buff') : fn_buff'[n] \in Held' \cup dropped'
        BY <3>2, <3>3 DEF FnOwned
      <4>3. \A n \in 1..Len(fn_buff) : fn_buff[n] = i => i \in dropped
        BY DEF FnOwned
      <4>4. \A m, n \in 1..Len(fn_buff') :
               fn_buff'[m] = fn_buff'[n] /\ m # n => fn_buff'[m] \in dropped'
        BY <3>2, <3>3, <4>3 DEF FnOwned
      <4> QED
        BY <4>1, <4>2, <4>4 DEF FnOwned
    <3> QED
      BY <1>1, <1>3, <1>5, <3>4, <3>5 DEF PressUnderFn
  <2>3. CASE ~ (Len(fn_buff) < FnMax)
    BY <1>1, <1>2, <1>3, <1>5, <2>3 DEF PressUnderFn, fn_add
  <2> QED
    BY <2>2, <2>3
<1>6. CASE PressNormal(i)
  <2>1. PICK code \in NormalCodes :
          /\ TranslatesTo(i, code)
          /\ add_normal_key([index |-> i, code |-> code])
    BY <1>6 DEF PressNormal
  <2>2. CodesOf(i) \cap NormalCodes # {}
    BY <2>1, TranslatedCode
  <2>3. CASE Len(pressed_keys) < PressedMax
    <3>1. pressed_keys' = Append(pressed_keys, [index |-> i, code |-> code])
      BY <2>1, <2>3 DEF add_normal_key
    <3>2. /\ Len(pressed_keys) \in Nat
          /\ Len(pressed_keys') = Len(pressed_keys) + 1
          /\ \A n \in 1..Len(pressed_keys) : pressed_keys'[n] = pressed_keys[n]
          /\ pressed_keys'[Len(pressed_keys) + 1].index = i
      BY <3>1, LenProperties
    <3>3. \A n \in 1..Len(pressed_keys') :
             n \in 1..Len(pressed_keys) \/ n = Len(pressed_keys) + 1
      BY <3>2
    <3>4. Recorded'
      BY <1>6, <2>2, <3>2, <3>3 DEF PressNormal
    <3>5. PressedOwned'
      <4>1. \A n \in 1..Len(pressed_keys') :
               pressed_keys'[n].index \in Held' \cup dropped' \cup masked'
        BY <3>2, <3>3 DEF PressedOwned, IndicesIn
      <4>2. \A n \in 1..Len(pressed_keys) :
               pressed_keys[n].index = i => i \in dropped \cup masked
        BY DEF PressedOwned, IndicesIn
      <4>3. \A m, n \in 1..Len(pressed_keys') :
               pressed_keys'[m].index = pressed_keys'[n].index /\ m # n
                 => pressed_keys'[m].index \in dropped' \cup masked'
        BY <3>2, <3>3, <4>2 DEF PressedOwned
      <4> QED
        BY <4>1, <4>3 DEF PressedOwned, IndicesIn
    <3> QED
      BY <1>2, <1>3, <1>6, <3>4, <3>5 DEF PressNormal
  <2>4. CASE ~ (Len(pressed_keys) < PressedMax)
    <3>1. UNCHANGED pressed_keys
      BY <2>1, <2>4 DEF add_normal_key
    <3> QED
      BY <1>1, <1>2, <1>3, <1>6, <3>1 DEF PressNormal
  <2> QED
    BY <2>3, <2>4
<1>7. CASE PressFn(i)
  <2>1. KeyFn \in CodesOf(i)
    BY <1>7, TranslatedCode DEF PressFn
  <2>2. FnOwned'
    BY <1>7, <2>1 DEF PressFn, FnOwned
  <2> QED
    BY <1>1, <1>3, <1>7, <2>2 DEF PressFn
<1>8. CASE PressLayer(i)
  <2>1. PICK code \in LayerCodes :
          /\ TranslatesTo(i, code)
          /\ layer_modifiers' = layer_modifiers \cup {code}
    BY <1>8 DEF PressLayer
  <2>2. code \in CodesOf(i)
    BY <2>1, TranslatedCode
  <2>3. LayersOwned'
    BY <2>1, <2>2 DEF LayersOwned
  <2> QED
    BY <1>1, <1>2, <1>8, <2>3 DEF PressLayer
<1> QED
  BY <1>4, <1>5, <1>6, <1>7, <1>8 DEF OnPress

(***************************************************************************)
(* A release takes its key from the owners.  What the key owned goes with  *)
(* it, except for a table entry whose release FN took: the key is then     *)
(* masked.                                                                 *)
(***************************************************************************)
LEMMA ReleaseOwned ==
    ASSUME IInv, NEW i \in Index, i \in Held, OnRelease(i),
           Held' = Held \ {i}, dropped' = dropped,
           masked' = IF fn_pressed
                     THEN masked \cup ({i} \cap IndicesIn(pressed_keys))
                     ELSE masked
    PROVE  Recorded' /\ Owned'
<1> USE DEF IInv, TypeOK, EngineTypeOK, Recorded, Owned
<1>0. masked \subseteq masked'
  OBVIOUS
<1>1. CodesOf(i) \cap NormalCodes = {} =>
        /\ \A n \in 1..Len(pressed_keys) : pressed_keys[n].index # i
        /\ \A n \in 1..Len(fn_buff) : fn_buff[n] # i
  OBVIOUS
<1>2. UNCHANGED pressed_keys
      /\ (\A n \in 1..Len(pressed_keys) : pressed_keys[n].index # i)
        => PressedOwned'
  BY <1>0 DEF PressedOwned, IndicesIn
<1>3. UNCHANGED <<fn_buff, fn_pressed>> /\ KeyFn \notin CodesOf(i)
      /\ (\A n \in 1..Len(fn_buff) : fn_buff[n] # i)
        => FnOwned'
  BY DEF FnOwned
<1>4. UNCHANGED layer_modifiers /\ CodesOf(i) \cap LayerCodes = {}
        => LayersOwned'
  BY DEF LayersOwned
<1>5. CASE ReleaseUntranslated(i)
  <2>1. CodesOf(i) = {}
    BY <1>5, UntranslatedKind DEF ReleaseUntranslated
  <2> QED
    BY <1>1, <1>2, <1>3, <1>4, <1>5, <2>1 DEF ReleaseUntranslated
<1>6. CASE ReleaseUnderFn(i)
  <2>1. CodesOf(i) \subseteq NormalCodes
    BY <1>6, TranslatedCode, NormalKind DEF ReleaseUnderFn
  <2>2. KeyFn \notin CodesOf(i) /\ CodesOf(i) \cap LayerCodes = {}
    BY <2>1, EngineConstants
  <2>3. PressedOwned'
    BY <1>6 DEF ReleaseUnderFn, PressedOwned, IndicesIn
  <2>4. CASE \A n \in 1..Len(fn_buff) : fn_buff[n] # i
    <3>1. UNCHANGED fn_buff
      BY <1>6, <2>4 DEF ReleaseUnderFn, fn_remove
    <3> QED
      BY <1>3, <1>4, <1>6, <2>2, <2>3, <2>4, <3>1 DEF ReleaseUnderFn
  <2>5. CASE \E n \in 1..Len(fn_buff) : fn_buff[n] = i
    <3>1. PICK n \in 1..Len(fn_buff) :
            fn_buff[n] = i /\ fn_buff' = RemoveAt(fn_buff, n)
      BY <1>6, <2>5 DEF ReleaseUnderFn, fn_remove
    <3>2. /\ Len(fn_buff) \in Nat
          /\ Len(fn_buff') = Len(fn_buff) - 1
          /\ \A m \in 1..Len(fn_buff') :
                fn_buff'[m] = IF m < n THEN fn_buff[m] ELSE fn_buff[m + 1]
      BY <3>1, RemoveAtProperties, LenProperties
    <3> DEFINE from(m) == IF m < n THEN m ELSE m + 1
    <3>3. \A m \in 1..Len(fn_buff') : /\ from(m) \in 1..Len(fn_buff)
                                      /\ from(m) # n
                                      /\ fn_buff'[m] = fn_buff[from(m)]
      BY <3>1, <3>2
    <3>4. \A l, m \in 1..Len(fn_buff') : l # m => from(l) # from(m)
      BY <3>2
    <3> HIDE DEF from
    <3>5. Recorded'
      BY <1>6, <3>3 DEF ReleaseUnderFn
    <3>6. FnOwned'
      <4>1. fn_pressed' /\ \E j \in Held' \cup dropped' : KeyFn \in CodesOf(j)
        BY <1>6, <2>2 DEF ReleaseUnderFn, FnOwned
      <4>2. \A m \in 1..Len(fn_buff') : fn_buff'[m] \in Held' \cup dropped'
        <5>1. \A m \in 1..Len(fn_buff) : fn_buff[m] = i /\ m # n => i \in dropped
          BY <3>1 DEF FnOwned
        <5> QED
          BY <3>3, <5>1 DEF FnOwned
      <4>3. \A l, m \in 1..Len(fn_buff') :
               fn_buff'[l] = fn_buff'[m] /\ l # m => fn_buff'[l] \in dropped'
        BY <3>3, <3>4 DEF FnOwned
      <4> QED
        BY <4>1, <4>2, <4>3 DEF FnOwned
    <3> QED
      BY <1>4, <1>6, <2>2, <2>3, <3>5, <3>6 DEF ReleaseUnderFn
  <2> QED
    BY <2>4, <2>5
<1>7. CASE ReleaseNormal(i)
  <2>1. CodesOf(i) \subseteq NormalCodes
    BY <1>7, TranslatedCode, NormalKind DEF ReleaseNormal
  <2>2. KeyFn \notin CodesOf(i) /\ CodesOf(i) \cap LayerCodes = {}
    BY <2>1, EngineConstants
  <2>3. FnOwned'
    BY <1>7 DEF ReleaseNormal, FnOwned
  <2>4. CASE \A n \in 1..Len(pressed_keys) : pressed_keys[n].index # i
    <3>1. UNCHANGED pressed_keys
      BY <1>7, <2>4 DEF ReleaseNormal, remove_normal_key
    <3> QED
      BY <1>2, <1>4, <1>7, <2>2, <2>3, <2>4, <3>1 DEF ReleaseNormal
  <2>5. CASE \E n \in 1..Len(pressed_keys) : pressed_keys[n].index = i
    <3>1. PICK n \in 1..Len(pressed_keys) :
            /\ pressed_keys[n].index = i
            /\ pressed_keys' = RemoveAt(pressed_keys, n)
      BY <1>7, <2>5 DEF ReleaseNormal, remove_normal_key
    <3>2. /\ Len(pressed_keys) \in Nat
          /\ Len(pressed_keys') = Len(pressed_keys) - 1
          /\ \A m \in 1..Len(pressed_keys') :
                pressed_keys'[m] =
                    IF m < n THEN pressed_keys[m] ELSE pressed_keys[m + 1]
      BY <3>1, RemoveAtProperties, LenProperties
    <3> DEFINE from(m) == IF m < n THEN m ELSE m + 1
    <3>3. \A m \in 1..Len(pressed_keys') :
             /\ from(m) \in 1..Len(pressed_keys)
             /\ from(m) # n
             /\ pressed_keys'[m] = pressed_keys[from(m)]
      BY <3>1, <3>2
    <3>4. \A l, m \in 1..Len(pressed_keys') : l # m => from(l) # from(m)
      BY <3>2
    <3> HIDE DEF from
    <3>5. Recorded'
      BY <1>7, <3>3 DEF ReleaseNormal
    <3>6. PressedOwned'
      <4>1. \A m \in 1..Len(pressed_keys') :
               pressed_keys'[m].index \in Held' \cup dropped' \cup masked'
        <5>1. \A m \in 1..Len(pressed_keys) :
                 pressed_keys[m].index = i /\ m # n => i \in dropped \cup masked
          BY <3>1 DEF PressedOwned
        <5> QED
          BY <1>0, <3>3, <5>1 DEF PressedOwned, IndicesIn
      <4>2. \A l, m \in 1..Len(pressed_keys') :
               pressed_keys'[l].index = pressed_keys'[m].index /\ l # m
                 => pressed_keys'[l].index \in dropped' \cup masked'
        BY <1>0, <3>3, <3>4 DEF PressedOwned
      <4>3. IndicesIn(pressed_keys') \subseteq Held' \cup dropped' \cup masked'
        BY <4>1 DEF IndicesIn
      <4> QED
        BY <4>2, <4>3 DEF PressedOwned
    <3> QED
      BY <1>4, <1>7, <2>2, <2>3, <3>5, <3>6 DEF ReleaseNormal
  <2> QED
    BY <2>4, <2>5
<1>8. CASE ReleaseFn(i)
  <2>1. CodesOf(i) = {KeyFn}
    BY <1>8, TranslatedCode, SpecialKind DEF ReleaseFn
  <2>2. CodesOf(i) \cap NormalCodes = {} /\ CodesOf(i) \cap LayerCodes = {}
    BY <2>1, EngineConstants
  <2>3. FnOwned' /\ Recorded'
    BY <1>8, EmptySeq DEF ReleaseFn, FnOwned
  <2> QED
    BY <1>1, <1>2, <1>4, <1>8, <2>2, <2>3 DEF ReleaseFn
<1>9. CASE ReleaseLayer(i)
  <2>1. PICK code \in LayerCodes :
          /\ TranslatesTo(i, code)
          /\ layer_modifiers' = layer_modifiers \ {code}
    BY <1>9 DEF ReleaseLayer
  <2>2. CodesOf(i) = {code}
    BY <2>1, TranslatedCode, SpecialKind
  <2>3. CodesOf(i) \cap NormalCodes = {} /\ KeyFn \notin CodesOf(i)
    BY <2>2, EngineConstants
  <2>4. LayersOwned'
    BY <2>1, <2>2 DEF LayersOwned
  <2> QED
    BY <1>1, <1>2, <1>3, <1>9, <2>3, <2>4 DEF ReleaseLayer
<1> QED
  BY <1>5, <1>6, <1>7, <1>8, <1>9 DEF OnRelease

(***************************************************************************)
(* A step that touches neither the engine, nor prev_down, nor the history  *)
(* leaves ownership as it is.                                              *)
(***************************************************************************)
LEMMA UnchangedOwned ==
    ASSUME Recorded, Owned, UNCHANGED <<engineVars, prev_down, history>>
    PROVE  Recorded' /\ Owned'
<1>1. UNCHANGED <<pressed_keys, fn_buff, fn_pressed, layer_modifiers, dropped,
                  masked>>
  BY DEF engineVars, history
<1>2. Held' = Held
  BY DEF Held
<1> QED
  BY <1>1, <1>2 DEF Recorded, Owned, PressedOwned, FnOwned, LayersOwned,
                    IndicesIn

\* And every keymap index is a key's.
LEMMA KeymapIndexOnto ==
    \A i \in Index : \E h \in Halves : \E k \in Keys(h) : KeymapIndex(h, k) = i
<1> SUFFICES ASSUME NEW i \in Index
             PROVE  \E h \in Halves : \E k \in Keys(h) : KeymapIndex(h, k) = i
  OBVIOUS
<1>1. i \in 0..(2 * KeyCount - 1) /\ KeyCount \in Nat /\ SlaveKeyCount = KeyCount
      /\ MasterIsLeft \in BOOLEAN
  BY HandleConstants
<1> DEFINE h == IF (i >= KeyCount) = MasterIsLeft THEN "slave" ELSE "master"
           k == IF i >= KeyCount THEN i - KeyCount ELSE i
<1>2. h \in Halves /\ k \in Keys(h)
  BY <1>1 DEF Halves, Keys
<1>3. KeymapIndex(h, k) = i
  BY <1>1 DEF KeymapIndex
<1> QED
  BY <1>2, <1>3

(***************************************************************************)
(* How the keys known to be down change with prev_down.                    *)
(***************************************************************************)
LEMMA HeldMember ==
    ASSUME NEW h \in Halves, NEW k \in Keys(h), TypeOK
    PROVE  KeymapIndex(h, k) \in Held <=> k \in prev_down[h]
<1>1. k \in prev_down[h] => KeymapIndex(h, k) \in Held
  BY DEF Held
<1>2. ASSUME KeymapIndex(h, k) \in Held
      PROVE  k \in prev_down[h]
  <2>1. PICK g \in Halves :
          \E j \in prev_down[g] : KeymapIndex(h, k) = KeymapIndex(g, j)
    BY <1>2 DEF Held
  <2>2. PICK j \in prev_down[g] : KeymapIndex(h, k) = KeymapIndex(g, j)
    BY <2>1
  <2>3. j \in Keys(g)
    BY <2>2 DEF TypeOK
  <2>4. h = g /\ k = j
    BY <2>2, <2>3, KeymapIndexInjective
  <2> QED
    BY <2>2, <2>4
<1> QED
  BY <1>1, <1>2

LEMMA HeldPress ==
    ASSUME TypeOK, NEW h \in Halves, NEW k \in Keys(h),
           prev_down' = [prev_down EXCEPT ![h] = @ \cup {k}]
    PROVE  Held' = Held \cup {KeymapIndex(h, k)}
<1>1. \A g \in Halves : prev_down'[g] = IF g = h THEN prev_down[g] \cup {k}
                                               ELSE prev_down[g]
  BY DEF TypeOK
<1> QED
  BY <1>1 DEF Held

LEMMA HeldRelease ==
    ASSUME TypeOK, NEW h \in Halves, NEW k \in Keys(h),
           prev_down' = [prev_down EXCEPT ![h] = @ \ {k}]
    PROVE  Held' = Held \ {KeymapIndex(h, k)}
<1>1. \A g \in Halves : prev_down'[g] = IF g = h THEN prev_down[g] \ {k}
                                               ELSE prev_down[g]
  BY DEF TypeOK
<1>2. \A g \in Halves : \A j \in prev_down[g] :
         KeymapIndex(g, j) = KeymapIndex(h, k) => g = h /\ j = k
  BY KeymapIndexInjective DEF TypeOK
<1> QED
  BY <1>1, <1>2 DEF Held

LEMMA InitOwned == Init => Recorded /\ Owned
<1> SUFFICES ASSUME Init PROVE Recorded /\ Owned
  OBVIOUS
<1>1. Len(pressed_keys) = 0 /\ Len(fn_buff) = 0 /\ fn_buff = <<>>
  BY EmptySeq DEF Init, EngineInit
<1> QED
  BY <1>1 DEF Init, EngineInit, Recorded, Owned, PressedOwned, FnOwned,
              LayersOwned, IndicesIn

LEMMA NextOwned == IInv /\ [Next]_vars => Recorded' /\ Owned'
<1> SUFFICES ASSUME IInv, [Next]_vars PROVE Recorded' /\ Owned'
  OBVIOUS
<1>0. TypeOK /\ Recorded /\ Owned
  BY DEF IInv
<1>1. CASE Poll
  BY <1>0, <1>1, UnchangedOwned DEF Poll, PollNormal, PollRace, PollRaceNone
<1>2. ASSUME NEW h \in Halves, NEW k \in Keys(h), Press(h, k)
      PROVE  Recorded' /\ Owned'
  <2>1. KeymapIndex(h, k) \in Index /\ KeymapIndex(h, k) \notin Held
    BY <1>0, <1>2, KeymapIndexType, HeldMember DEF Press, NextEdge, Edges
  <2>2. Held' = Held \cup {KeymapIndex(h, k)}
    BY <1>0, <1>2, HeldPress DEF Press
  <2> QED
    BY <1>2, <2>1, <2>2, PressOwned DEF Press, history
<1>3. ASSUME NEW h \in Halves, NEW k \in Keys(h), Release(h, k)
      PROVE  Recorded' /\ Owned'
  <2>1. KeymapIndex(h, k) \in Index /\ KeymapIndex(h, k) \in Held
    BY <1>0, <1>3, KeymapIndexType, HeldMember DEF Release, NextEdge, Edges
  <2>2. Held' = Held \ {KeymapIndex(h, k)}
    BY <1>0, <1>3, HeldRelease DEF Release
  <2> QED
    BY <1>3, <2>1, <2>2, ReleaseOwned DEF Release
<1>4. ASSUME NEW h \in Halves, EdgesDone(h)
      PROVE  Recorded' /\ Owned'
  BY <1>0, <1>4, UnchangedOwned DEF EdgesDone
<1>5. CASE GetSlaveKeys
  BY <1>0, <1>5, UnchangedOwned DEF GetSlaveKeys
<1>6. CASE ClearSlaveKeys
  <2>1. Held' \cup dropped' = Held \cup dropped
    <3>1. prev_down' = [prev_down EXCEPT !["slave"] = {}]
      BY <1>6 DEF ClearSlaveKeys
    <3>2. /\ prev_down'["master"] = prev_down["master"]
          /\ prev_down'["slave"] = {}
      BY <1>0, <3>1 DEF TypeOK, Halves
    <3>3. Held = {KeymapIndex("master", k) : k \in prev_down["master"]}
                   \cup SlaveIndices(prev_down["slave"])
      BY DEF Held, Halves, SlaveIndices
    <3>4. Held' = {KeymapIndex("master", k) : k \in prev_down["master"]}
      BY <3>2 DEF Held, Halves
    <3> QED
      BY <1>6, <3>3, <3>4 DEF ClearSlaveKeys
  <2>2. UNCHANGED <<pressed_keys, fn_buff, fn_pressed, layer_modifiers, masked>>
        /\ dropped \subseteq dropped'
    BY <1>6 DEF ClearSlaveKeys, engineVars
  <2>3. Recorded'
    BY <1>0, <2>2 DEF Recorded
  <2>4. PressedOwned'
    BY <1>0, <2>1, <2>2 DEF Owned, PressedOwned, IndicesIn
  <2>5. FnOwned'
    BY <1>0, <2>1, <2>2 DEF Owned, FnOwned
  <2>6. LayersOwned'
    BY <1>0, <2>1, <2>2 DEF Owned, LayersOwned
  <2> QED
    BY <2>3, <2>4, <2>5, <2>6 DEF Owned
<1>7. CASE CopyDone
  BY <1>0, <1>7, UnchangedOwned DEF CopyDone
<1>8. ASSUME NEW w \in WordsOf("slave"), CopyWord(w)
      PROVE  Recorded' /\ Owned'
  BY <1>0, <1>8, UnchangedOwned DEF CopyWord
<1>9. CASE SendReport
  BY <1>0, <1>9, UnchangedOwned DEF SendReport
<1>10. CASE Link
  BY <1>0, <1>10, UnchangedOwned DEF Link, handleVars
<1>11. CASE UNCHANGED vars
  BY <1>0, <1>11, UnchangedOwned DEF vars, handleVars
<1> QED
  BY <1>1, <1>2, <1>3, <1>4, <1>5, <1>6, <1>7, <1>8, <1>9, <1>10, <1>11
     DEF Next, InKbHandle

LEMMA Inductive == Spec => []IInv
<1>1. Init => IInv
  BY InitType, InitOwned DEF IInv
<1>2. IInv /\ [Next]_vars => IInv'
  BY NextType, NextOwned DEF IInv
<1> QED
  BY <1>1, <1>2, PTL DEF Spec

(***************************************************************************)
(* No entry of the pressed-key table outlives its key but for the two      *)
(* causes named: a release taken by FN mode, and a lost slave.             *)
(***************************************************************************)
THEOREM TableOwned == Spec => []PressedOwned
<1>1. IInv => PressedOwned
  BY DEF IInv, Owned
<1> QED
  BY <1>1, Inductive, PTL

(***************************************************************************)
(* FN mode and the FN buffer do not outlive the keys that made them.       *)
(***************************************************************************)
THEOREM FnModeOwned == Spec => []FnOwned
<1>1. IInv => FnOwned
  BY DEF IInv, Owned
<1> QED
  BY <1>1, Inductive, PTL

(***************************************************************************)
(* A layer bit does not outlive the keys of its layer.                     *)
(***************************************************************************)
THEOREM LayerBitsOwned == Spec => []LayersOwned
<1>1. IInv => LayersOwned
  BY DEF IInv, Owned
<1> QED
  BY <1>1, Inductive, PTL

-----------------------------------------------------------------------------
(***************************************************************************)
(* Which keys a callback can take out of the table.                        *)
(***************************************************************************)
LEMMA PressKeeps ==
    ASSUME EngineTypeOK, NEW i \in Index, OnPress(i)
    PROVE  IndicesIn(pressed_keys) \subseteq IndicesIn(pressed_keys')
<1>1. CASE PressNormal(i)
  <2>1. PICK code \in NormalCodes :
          add_normal_key([index |-> i, code |-> code])
    BY <1>1 DEF PressNormal
  <2>2. CASE Len(pressed_keys) < PressedMax
    <3>1. pressed_keys' = Append(pressed_keys, [index |-> i, code |-> code])
      BY <2>1, <2>2 DEF add_normal_key
    <3>2. /\ Len(pressed_keys) \in Nat
          /\ Len(pressed_keys') = Len(pressed_keys) + 1
          /\ \A n \in 1..Len(pressed_keys) : pressed_keys'[n] = pressed_keys[n]
      BY <3>1, LenProperties DEF EngineTypeOK
    <3> QED
      BY <3>2 DEF IndicesIn
  <2>3. CASE ~ (Len(pressed_keys) < PressedMax)
    BY <2>1, <2>3 DEF add_normal_key, IndicesIn
  <2> QED
    BY <2>2, <2>3
<1>2. CASE UNCHANGED pressed_keys
  BY <1>2 DEF IndicesIn
<1> QED
  BY <1>1, <1>2 DEF OnPress, PressUntranslated, PressUnderFn, PressFn, PressLayer

LEMMA ReleaseKeepsOthers ==
    ASSUME EngineTypeOK, NEW i \in Index, OnRelease(i)
    PROVE  IndicesIn(pressed_keys) \ {i} \subseteq IndicesIn(pressed_keys')
<1>1. CASE ReleaseNormal(i) /\ ~ UNCHANGED pressed_keys
  <2>1. PICK n \in 1..Len(pressed_keys) :
          /\ pressed_keys[n].index = i
          /\ pressed_keys' = RemoveAt(pressed_keys, n)
    BY <1>1 DEF ReleaseNormal, remove_normal_key
  <2>2. /\ Len(pressed_keys) \in Nat
        /\ Len(pressed_keys') = Len(pressed_keys) - 1
        /\ \A m \in 1..Len(pressed_keys') :
              pressed_keys'[m] =
                  IF m < n THEN pressed_keys[m] ELSE pressed_keys[m + 1]
    BY <2>1, RemoveAtProperties, LenProperties DEF EngineTypeOK
  <2>3. ASSUME NEW p \in 1..Len(pressed_keys), pressed_keys[p].index # i
        PROVE  \E m \in 1..Len(pressed_keys') : pressed_keys'[m] = pressed_keys[p]
    <3>1. p # n
      BY <2>1, <2>3
    <3>2. CASE p < n
      BY <2>1, <2>2, <3>2
    <3>3. CASE p > n
      <4>1. p - 1 \in 1..Len(pressed_keys') /\ ~ (p - 1 < n) /\ (p - 1) + 1 = p
        BY <2>1, <2>2, <3>3
      <4> QED
        BY <2>2, <4>1
    <3> QED
      BY <2>1, <3>1, <3>2, <3>3
  <2> QED
    BY <2>3 DEF IndicesIn
<1>2. CASE UNCHANGED pressed_keys
  BY <1>2 DEF IndicesIn
<1> QED
  BY <1>1, <1>2 DEF OnRelease, ReleaseUntranslated, ReleaseUnderFn, ReleaseFn,
                    ReleaseLayer

(***************************************************************************)
(* A key leaves the pressed-key table by its own release callback only.    *)
(***************************************************************************)
THEOREM OnlyOwnReleaseHolds == Spec => OnlyOwnRelease
<1> DEFINE Keeps ==
        \A i \in IndicesIn(pressed_keys) \ IndicesIn(pressed_keys') :
            i \in Held /\ i \notin Held'
<1>1. TypeOK /\ [Next]_vars => [Keeps]_vars
  <2> SUFFICES ASSUME TypeOK, Next PROVE Keeps
    OBVIOUS
  <2>1. CASE UNCHANGED pressed_keys
    BY <2>1 DEF IndicesIn
  <2>2. ASSUME NEW h \in Halves, NEW k \in Keys(h), Press(h, k) PROVE Keeps
    BY <2>2, KeymapIndexType, PressKeeps DEF Press, TypeOK
  <2>3. ASSUME NEW h \in Halves, NEW k \in Keys(h), Release(h, k) PROVE Keeps
    <3>1. IndicesIn(pressed_keys) \ {KeymapIndex(h, k)}
             \subseteq IndicesIn(pressed_keys')
      BY <2>3, KeymapIndexType, ReleaseKeepsOthers DEF Release, TypeOK
    <3>2. KeymapIndex(h, k) \in Held
      BY <2>3, HeldMember DEF Release, NextEdge, Edges
    <3>3. Held' = Held \ {KeymapIndex(h, k)}
      BY <2>3, HeldRelease DEF Release
    <3> QED
      BY <3>1, <3>2, <3>3
  <2> QED
    BY <2>1, <2>2, <2>3
       DEF Next, Poll, PollNormal, PollRace, PollRaceNone, InKbHandle, EdgesDone,
           GetSlaveKeys, ClearSlaveKeys, CopyDone, CopyWord, SendReport, Link,
           engineVars
<1> QED
  BY <1>1, TypeCorrect, PTL DEF Spec, OnlyOwnRelease

-----------------------------------------------------------------------------
(***************************************************************************)
(* What the last report says of the table.  Its entries belong to keys     *)
(* that are down, or were released since: such a key has no press callback *)
(* before the next report, for its bitmap is taken once per kb_handle().   *)
(* And an entry of the table that was reported stays within reach of the   *)
(* report's slots: entries before it go, none comes.                       *)
(***************************************************************************)
Released(h, k) ==
    /\ k \notin curr_down[h]
    /\ phase \in IF h = "master" THEN Phases \ {"idle"} ELSE {"slave", "report"}

Shown == IndicesIn(report) \ (dropped \cup masked)

ReportHeld ==
    \A h \in Halves : \A k \in Keys(h) :
        KeymapIndex(h, k) \in Shown => k \in prev_down[h] \/ Released(h, k)

InReach ==
    \A p \in 1..Len(pressed_keys) :
        pressed_keys[p] \in ToSet(report)
        /\ pressed_keys[p].index \notin dropped \cup masked
          => Cardinality(OrdinaryUpTo(pressed_keys, p - 1)) < ReportSlots

\* Removing an entry puts no slot before another one.
LEMMA OrdinaryRemoved ==
    ASSUME NEW s, NEW t, NEW n \in Nat, NEW p \in Nat \ {0},
           \A m \in 1..p : t[m] = s[IF m < n THEN m ELSE m + 1]
    PROVE  Cardinality(OrdinaryUpTo(t, p - 1))
             <= Cardinality(OrdinaryUpTo(s, (IF p < n THEN p ELSE p + 1) - 1))
<1> DEFINE from(m) == IF m < n THEN m ELSE m + 1
           S == OrdinaryUpTo(t, p - 1)
           T == OrdinaryUpTo(s, from(p) - 1)
           f == [m \in S |-> from(m)]
<1>1. \A m \in S : from(m) \in T
  BY DEF OrdinaryUpTo
<1>2. \A l, m \in S : from(l) = from(m) => l = m
  BY DEF OrdinaryUpTo
<1>3. IsFiniteSet(T)
  <2>1. from(p) - 1 \in Nat
    OBVIOUS
  <2> QED
    BY <2>1, OrdinaryCount
<1> HIDE DEF from, S, T
<1>4. f \in Injection(S, T)
  BY <1>1, <1>2, Fun_IsInj
<1>5. Cardinality(S) <= Cardinality(T)
  BY <1>3, <1>4, FS_Injection
<1> QED
  BY <1>5 DEF S, T, from

(***************************************************************************)
(* A press adds its entry last; a release takes one out.                   *)
(***************************************************************************)
LEMMA PressReach ==
    ASSUME EngineTypeOK, InReach, NEW i \in Index, i \notin Shown, OnPress(i),
           UNCHANGED <<report, dropped, masked>>
    PROVE  InReach'
<1>1. CASE UNCHANGED pressed_keys
  BY <1>1 DEF InReach
<1>2. CASE ~ UNCHANGED pressed_keys
  <2>1. PICK code \in NormalCodes :
          pressed_keys' = Append(pressed_keys, [index |-> i, code |-> code])
    BY <1>2 DEF OnPress, PressUntranslated, PressUnderFn, PressNormal, PressFn,
                PressLayer, add_normal_key
  <2>2. /\ Len(pressed_keys) \in Nat
        /\ Len(pressed_keys') = Len(pressed_keys) + 1
        /\ \A n \in 1..Len(pressed_keys) : pressed_keys'[n] = pressed_keys[n]
        /\ pressed_keys'[Len(pressed_keys) + 1].index = i
    BY <2>1, LenProperties DEF EngineTypeOK
  <2>3. ASSUME NEW p \in 1..Len(pressed_keys'),
               pressed_keys'[p] \in ToSet(report),
               pressed_keys'[p].index \notin dropped \cup masked
        PROVE  Cardinality(OrdinaryUpTo(pressed_keys', p - 1)) < ReportSlots
    <3>1. pressed_keys'[p].index \in Shown
      BY <2>3 DEF Shown, IndicesIn, ToSet
    <3>2. p \in 1..Len(pressed_keys)
      BY <2>2, <3>1
    <3>3. OrdinaryUpTo(pressed_keys', p - 1) = OrdinaryUpTo(pressed_keys, p - 1)
      BY <2>2, <3>2 DEF OrdinaryUpTo
    <3>4. pressed_keys'[p] = pressed_keys[p]
      BY <2>2, <3>2
    <3> QED
      BY <2>3, <3>2, <3>3, <3>4 DEF InReach
  <2> QED
    BY <2>3 DEF InReach
<1> QED
  BY <1>1, <1>2

LEMMA ReleaseReach ==
    ASSUME EngineTypeOK, InReach, NEW i \in Index, OnRelease(i),
           UNCHANGED <<report, dropped>>, masked \subseteq masked'
    PROVE  InReach'
<1>1. CASE UNCHANGED pressed_keys
  BY <1>1 DEF InReach
<1>2. CASE ~ UNCHANGED pressed_keys
  <2>1. PICK n \in 1..Len(pressed_keys) :
          pressed_keys' = RemoveAt(pressed_keys, n)
    BY <1>2 DEF OnRelease, ReleaseUntranslated, ReleaseUnderFn, ReleaseNormal,
                ReleaseFn, ReleaseLayer, remove_normal_key
  <2>2. /\ Len(pressed_keys) \in Nat
        /\ Len(pressed_keys') = Len(pressed_keys) - 1
        /\ \A m \in 1..Len(pressed_keys') :
              pressed_keys'[m] =
                  IF m < n THEN pressed_keys[m] ELSE pressed_keys[m + 1]
    BY <2>1, RemoveAtProperties, LenProperties DEF EngineTypeOK
  <2>3. ASSUME NEW p \in 1..Len(pressed_keys'),
               pressed_keys'[p] \in ToSet(report),
               pressed_keys'[p].index \notin dropped \cup masked
        PROVE  Cardinality(OrdinaryUpTo(pressed_keys', p - 1)) < ReportSlots
    <3> DEFINE q == IF p < n THEN p ELSE p + 1
    <3>1. q \in 1..Len(pressed_keys) /\ pressed_keys'[p] = pressed_keys[q]
      BY <2>2
    <3>2. Cardinality(OrdinaryUpTo(pressed_keys, q - 1)) < ReportSlots
      BY <2>3, <3>1 DEF InReach
    <3>3. Cardinality(OrdinaryUpTo(pressed_keys', p - 1))
             <= Cardinality(OrdinaryUpTo(pressed_keys, q - 1))
      <4>1. \A m \in 1..p : pressed_keys'[m] = pressed_keys[IF m < n THEN m ELSE m + 1]
        BY <2>2
      <4>2. p \in Nat \ {0} /\ n \in Nat
        BY <2>2
      <4> QED
        BY <4>1, <4>2, OrdinaryRemoved
    <3>4. /\ Cardinality(OrdinaryUpTo(pressed_keys', p - 1)) \in Nat
          /\ Cardinality(OrdinaryUpTo(pressed_keys, q - 1)) \in Nat
      <4>1. p - 1 \in Nat /\ q - 1 \in Nat
        BY <2>2
      <4> QED
        BY <4>1, OrdinaryCount
    <3>5. ReportSlots \in Nat
      BY EngineConstants
    <3> QED
      BY <3>2, <3>3, <3>4, <3>5
  <2> QED
    BY <2>3 DEF InReach
<1> QED
  BY <1>1, <1>2

(***************************************************************************)
(* A step that touches neither the table nor the report keeps the reach.   *)
(***************************************************************************)
LEMMA UnchangedReach ==
    ASSUME InReach, UNCHANGED <<pressed_keys, report>>,
           dropped \subseteq dropped', masked \subseteq masked'
    PROVE  InReach'
  BY DEF InReach

(***************************************************************************)
(* The table entry of a key that is neither dropped nor masked is the only *)
(* one with its index, and its key is down.                                *)
(***************************************************************************)
LEMMA SendReach ==
    ASSUME IInv, SendReport
    PROVE  ReportHeld' /\ InReach'
<1>1. PICK n \in 0..Len(pressed_keys) :
        ReportEndsAt(n) /\ report' = SubSeq(pressed_keys, 1, n)
  BY DEF SendReport
<1>2. /\ pressed_keys \in Seq(PressedKey) /\ Len(pressed_keys) \in Nat
      /\ UNCHANGED <<pressed_keys, prev_down, dropped, masked>>
  BY LenProperties DEF IInv, TypeOK, EngineTypeOK, SendReport, engineVars, history
<1>3. /\ report' \in Seq(PressedKey)
      /\ Len(report') = n
      /\ \A m \in 1..n : report'[m] = pressed_keys[m]
  BY <1>1, <1>2, PrefixType
<1>4. DOMAIN report' = 1..n
  BY <1>3
<1>5. ReportHeld'
  <2>1. SUFFICES ASSUME NEW h \in Halves, NEW k \in Keys(h),
                        KeymapIndex(h, k) \in Shown'
                 PROVE  k \in prev_down[h]
    BY <1>2 DEF ReportHeld
  <2>2. KeymapIndex(h, k) \in IndicesIn(pressed_keys) \ (dropped \cup masked)
    BY <1>2, <1>3, <2>1 DEF Shown, IndicesIn
  <2>3. KeymapIndex(h, k) \in Held
    BY <2>2 DEF IInv, Owned, PressedOwned
  <2> QED
    BY <2>3, HeldMember DEF IInv
<1>6. InReach'
  <2>1. SUFFICES ASSUME NEW p \in 1..Len(pressed_keys),
                        pressed_keys[p] \in ToSet(report'),
                        pressed_keys[p].index \notin dropped \cup masked
                 PROVE  Cardinality(OrdinaryUpTo(pressed_keys, p - 1)) < ReportSlots
    BY <1>2 DEF InReach
  <2>2. PICK q \in 1..n : pressed_keys[p] = pressed_keys[q]
    BY <1>3, <1>4, <2>1 DEF ToSet
  <2>3. p = q
    BY <1>2, <2>1, <2>2 DEF IInv, Owned, PressedOwned
  <2> QED
    BY <1>1, <2>3 DEF ReportEndsAt
<1> QED
  BY <1>5, <1>6

LEMMA InitReach == Init => ReportHeld /\ InReach
<1> SUFFICES ASSUME Init PROVE ReportHeld /\ InReach
  OBVIOUS
<1>1. Len(pressed_keys) = 0 /\ Len(report) = 0
  BY EmptySeq DEF Init, EngineInit
<1> QED
  BY <1>1 DEF ReportHeld, Shown, InReach, IndicesIn

LEMMA NextReach == IInv /\ ReportHeld /\ InReach /\ [Next]_vars => ReportHeld' /\ InReach'
<1> SUFFICES ASSUME IInv, ReportHeld, InReach, [Next]_vars
             PROVE  ReportHeld' /\ InReach'
  OBVIOUS
<1>0. TypeOK /\ EngineTypeOK
  BY DEF IInv, TypeOK
<1> USE DEF Halves, Phases
<1>1. CASE Poll
  <2>1. UNCHANGED <<pressed_keys, report, prev_down, dropped, masked>>
        /\ phase = "idle"
    BY <1>1 DEF Poll, PollNormal, PollRace, PollRaceNone, engineVars, history
  <2> QED
    BY <2>1, UnchangedReach DEF ReportHeld, Released, Shown
<1>2. ASSUME NEW h \in Halves, NEW k \in Keys(h), Press(h, k)
      PROVE  ReportHeld' /\ InReach'
  <2>1. KeymapIndex(h, k) \in Index
    BY KeymapIndexType
  <2>2. KeymapIndex(h, k) \notin Shown
    BY <1>2 DEF Press, NextEdge, Edges, ReportHeld, Released
  <2>3. /\ OnPress(KeymapIndex(h, k))
        /\ UNCHANGED <<phase, curr_down, report, dropped, masked>>
        /\ \A g \in Halves : prev_down[g] \subseteq prev_down'[g]
    BY <1>0, <1>2 DEF Press, history, TypeOK
  <2>4. InReach'
    BY <1>0, <2>1, <2>2, <2>3, PressReach
  <2> QED
    BY <2>3, <2>4 DEF ReportHeld, Released, Shown
<1>3. ASSUME NEW h \in Halves, NEW k \in Keys(h), Release(h, k)
      PROVE  ReportHeld' /\ InReach'
  <2>1. KeymapIndex(h, k) \in Index
    BY KeymapIndexType
  <2>2. /\ OnRelease(KeymapIndex(h, k))
        /\ UNCHANGED <<phase, curr_down, report, dropped>>
        /\ masked \subseteq masked'
        /\ phase = h /\ k \notin curr_down[h]
        /\ \A g \in Halves : \A j \in prev_down[g] :
              j \in prev_down'[g] \/ (g = h /\ j = k)
    BY <1>0, <1>3 DEF Release, TypeOK
  <2>3. InReach'
    BY <1>0, <2>1, <2>2, ReleaseReach
  <2>4. Released(h, k)'
    BY <2>2 DEF Released
  <2> QED
    BY <2>2, <2>3, <2>4 DEF ReportHeld, Released, Shown
<1>4. ASSUME NEW h \in Halves, EdgesDone(h)
      PROVE  ReportHeld' /\ InReach'
  <2>1. UNCHANGED <<pressed_keys, report, prev_down, curr_down, dropped, masked>>
        /\ phase = h /\ phase' = IF h = "master" THEN "get" ELSE "report"
    BY <1>4 DEF EdgesDone, engineVars, history
  <2> QED
    BY <2>1, UnchangedReach DEF ReportHeld, Released, Shown
<1>5. CASE GetSlaveKeys
  <2>1. UNCHANGED <<pressed_keys, report, prev_down, curr_down, dropped, masked>>
        /\ phase = "get" /\ phase' = "copy"
    BY <1>5 DEF GetSlaveKeys, engineVars, history
  <2> QED
    BY <2>1, UnchangedReach DEF ReportHeld, Released, Shown
<1>6. CASE ClearSlaveKeys
  <2>1. /\ UNCHANGED <<pressed_keys, report, masked>>
        /\ dropped' = dropped \cup SlaveIndices(prev_down["slave"])
        /\ phase = "get" /\ phase' = "report"
        /\ prev_down'["master"] = prev_down["master"]
        /\ curr_down'["master"] = curr_down["master"]
    BY <1>0, <1>6 DEF ClearSlaveKeys, engineVars, TypeOK
  <2>2. ASSUME NEW k \in Keys("slave"), KeymapIndex("slave", k) \in Shown'
        PROVE  FALSE
    <3>1. KeymapIndex("slave", k) \in Shown
      BY <2>1, <2>2 DEF Shown
    <3>2. k \in prev_down["slave"]
      BY <2>1, <3>1 DEF ReportHeld, Released
    <3> QED
      BY <2>1, <2>2, <3>2 DEF Shown, SlaveIndices
  <2>3. ASSUME NEW k \in Keys("master"), KeymapIndex("master", k) \in Shown'
        PROVE  k \in prev_down'["master"] \/ Released("master", k)'
    <3>1. KeymapIndex("master", k) \in Shown
      BY <2>1, <2>3 DEF Shown
    <3> QED
      BY <2>1, <3>1 DEF ReportHeld, Released
  <2> QED
    BY <2>1, <2>2, <2>3, UnchangedReach DEF ReportHeld
<1>7. CASE CopyDone
  <2>1. UNCHANGED <<pressed_keys, report, prev_down, curr_down, dropped, masked>>
        /\ phase = "copy" /\ phase' = "slave"
    BY <1>7 DEF CopyDone, engineVars, history
  <2> QED
    BY <2>1, UnchangedReach DEF ReportHeld, Released, Shown
<1>8. ASSUME NEW w \in WordsOf("slave"), CopyWord(w)
      PROVE  ReportHeld' /\ InReach'
  <2>1. UNCHANGED <<pressed_keys, report, prev_down, dropped, masked>>
        /\ phase = "copy" /\ phase' = "copy"
        /\ curr_down'["master"] = curr_down["master"]
    BY <1>0, <1>8 DEF CopyWord, engineVars, history, TypeOK
  <2> QED
    BY <2>1, UnchangedReach DEF ReportHeld, Released, Shown
<1>9. CASE SendReport
  BY <1>9, SendReach
<1>10. CASE Link
  <2>1. UNCHANGED <<pressed_keys, report, prev_down, curr_down, phase, dropped,
                    masked>>
    BY <1>10 DEF Link, engineVars, handleVars, history
  <2> QED
    BY <2>1, UnchangedReach DEF ReportHeld, Released, Shown
<1>11. CASE UNCHANGED vars
  <2>1. UNCHANGED <<pressed_keys, report, prev_down, curr_down, phase, dropped,
                    masked>>
    BY <1>11 DEF vars, engineVars, handleVars, history
  <2> QED
    BY <2>1, UnchangedReach DEF ReportHeld, Released, Shown
<1> QED
  BY <1>1, <1>2, <1>3, <1>4, <1>5, <1>6, <1>7, <1>8, <1>9, <1>10, <1>11
     DEF Next, InKbHandle

LEMMA ReachInductive == Spec => [](IInv /\ ReportHeld /\ InReach)
<1>1. Init => IInv /\ ReportHeld /\ InReach
  BY InitType, InitOwned, InitReach DEF IInv
<1>2. IInv /\ ReportHeld /\ InReach /\ [Next]_vars => (IInv /\ ReportHeld /\ InReach)'
  BY NextType, NextOwned, NextReach DEF IInv
<1> QED
  BY <1>1, <1>2, PTL DEF Spec

(***************************************************************************)
(* An entry the host was told about is told again while it is in the       *)
(* table, however many keys beyond the report's slots come and go.         *)
(***************************************************************************)
THEOREM NoFlickerHolds == Spec => NoFlicker
<1> DEFINE Tells ==
        \A e \in ToSet(report) \ ToSet(report') :
            e \notin ToSet(pressed_keys) \/ e.index \in dropped \cup masked
<1>1. IInv /\ InReach /\ [Next]_vars => [Tells]_vars
  <2> SUFFICES ASSUME IInv, InReach, Next PROVE Tells
    OBVIOUS
  <2>1. CASE UNCHANGED report
    BY <2>1
  <2>2. CASE SendReport
    <3>1. PICK n \in 0..Len(pressed_keys) :
            ReportEndsAt(n) /\ report' = SubSeq(pressed_keys, 1, n)
      BY <2>2 DEF SendReport
    <3>2. pressed_keys \in Seq(PressedKey) /\ Len(pressed_keys) \in Nat
      BY LenProperties DEF IInv, TypeOK, EngineTypeOK
    <3>3. /\ report' \in Seq(PressedKey)
          /\ Len(report') = n
          /\ \A m \in 1..n : report'[m] = pressed_keys[m]
      BY <3>1, <3>2, PrefixType
    <3>4. SUFFICES ASSUME NEW e \in ToSet(report), e \notin ToSet(report'),
                          e \in ToSet(pressed_keys),
                          e.index \notin dropped \cup masked
                   PROVE  FALSE
      OBVIOUS
    <3>5. PICK p \in 1..Len(pressed_keys) : pressed_keys[p] = e
      BY <3>2, <3>4 DEF ToSet
    <3>6. p > n
      <4>1. ASSUME p <= n PROVE FALSE
        <5>1. p \in DOMAIN report' /\ report'[p] = e
          BY <3>2, <3>3, <3>5, <4>1
        <5> QED
          BY <3>4, <5>1 DEF ToSet
      <4> QED
        BY <3>2, <4>1
    <3>7. Cardinality(OrdinaryUpTo(pressed_keys, n)) = ReportSlots
      BY <3>1, <3>2, <3>6 DEF ReportEndsAt
    <3>8. Cardinality(OrdinaryUpTo(pressed_keys, p - 1)) < ReportSlots
      BY <3>4, <3>5 DEF InReach
    <3>9. Cardinality(OrdinaryUpTo(pressed_keys, n))
             <= Cardinality(OrdinaryUpTo(pressed_keys, p - 1))
      <4>1. p - 1 \in Nat /\ n \in 0..(p - 1)
        BY <3>2, <3>6
      <4> QED
        BY <4>1, OrdinaryMonotone
    <3>10. /\ ReportSlots \in Nat
           /\ Cardinality(OrdinaryUpTo(pressed_keys, p - 1)) \in Nat
      <4>1. p - 1 \in Nat
        BY <3>2
      <4> QED
        BY <4>1, OrdinaryCount, EngineConstants
    <3> QED
      BY <3>7, <3>8, <3>9, <3>10
  <2> QED
    BY <2>1, <2>2
       DEF Next, Poll, PollNormal, PollRace, PollRaceNone, InKbHandle, Press,
           Release, EdgesDone, GetSlaveKeys, ClearSlaveKeys, CopyDone, CopyWord,
           Link, handleVars
<1> QED
  BY <1>1, ReachInductive, PTL DEF Spec, NoFlicker


(***************************************************************************)
(* A report shows no key that is up: when kb_handle() has ended, every key *)
(* in the last report is down, whichever half it is on, unless FN masked   *)
(* its release or it was forgotten with the slave.  It is what is left of  *)
(* ReleaseReported when time is taken out of it.                           *)
(***************************************************************************)
ReportShowsHeld ==
    phase = "idle" => IndicesIn(report) \subseteq Held \cup dropped \cup masked

THEOREM ReportIsHeld == Spec => []ReportShowsHeld
<1>1. IInv /\ ReportHeld => ReportShowsHeld
  <2> SUFFICES ASSUME IInv, ReportHeld, phase = "idle",
                      NEW i \in IndicesIn(report), i \notin dropped \cup masked
               PROVE  i \in Held
    BY DEF ReportShowsHeld
  <2>1. i \in Index
    <3>1. PICK n \in 1..Len(report) : i = report[n].index
      BY DEF IndicesIn
    <3>2. report[n] \in PressedKey
      BY ElementOfSeq DEF IInv, TypeOK
    <3> QED
      BY <3>1, <3>2 DEF PressedKey
  <2>2. PICK h \in Halves : \E k \in Keys(h) : KeymapIndex(h, k) = i
    BY <2>1, KeymapIndexOnto
  <2>3. PICK k \in Keys(h) : KeymapIndex(h, k) = i
    BY <2>2
  <2>4. k \in prev_down[h]
    <3>1. ~ Released(h, k)
      BY DEF Released
    <3> QED
      BY <2>3, <3>1 DEF ReportHeld, Shown
  <2> QED
    BY <2>3, <2>4, HeldMember DEF IInv
<1> QED
  BY <1>1, ReachInductive, PTL

-----------------------------------------------------------------------------
(***************************************************************************)
(* The order of edge_detection is total, so that while edges are left one  *)
(* key is next, and one only.                                              *)
(***************************************************************************)
LEMMA OneNextEdge ==
    ASSUME NEW h \in Halves, Edges(h) # {}
    PROVE  \E k \in Keys(h) : \A j \in Keys(h) : NextEdge(h, j) <=> j = k
<1> DEFINE words == {Word(k) : k \in Edges(h)}
<1>1. /\ Keys(h) \in SUBSET Nat
      /\ Edges(h) \in SUBSET Keys(h)
      /\ \A k \in Keys(h) : Word(k) \in Nat
  <2>1. Keys(h) \in SUBSET Nat /\ WordBits \in Nat \ {0}
    BY HandleConstants DEF Keys
  <2>2. ASSUME NEW k \in Keys(h) PROVE Word(k) \in Nat
    BY <2>1 DEF Word
  <2> QED
    BY <2>1, <2>2 DEF Edges
<1>2. PICK w \in words : \A v \in words : w <= v
  <2>1. words # {} /\ words \in SUBSET Nat
    BY <1>1
  <2> HIDE DEF words
  <2> QED
    BY <2>1, Least
<1> DEFINE first == {k \in Edges(h) : Word(k) = w}
           presses == first \cap curr_down[h]
           candidates == IF presses # {} THEN presses ELSE first
<1>3. PICK k \in candidates : \A j \in candidates : k <= j
  <2>1. candidates # {} /\ candidates \in SUBSET Nat
    BY <1>1, <1>2
  <2> HIDE DEF candidates
  <2> QED
    BY <2>1, Least
<1>4. k \in Edges(h) /\ k \in Keys(h) /\ Word(k) = w
  BY <1>1, <1>3
<1>5. ASSUME NEW j \in Edges(h) \ {k}
      PROVE  Precedes(h, k, j)
  <2>1. Word(j) \in Nat /\ w \in Nat /\ w <= Word(j) /\ j \in Nat /\ k \in Nat
    BY <1>1, <1>2, <1>4
  <2>2. CASE Word(j) # w
    BY <1>4, <2>1, <2>2 DEF Precedes
  <2>3. CASE Word(j) = w /\ j \in candidates
    <3>1. k < j
      BY <1>3, <2>1, <2>3
    <3>2. (k \in curr_down[h]) = (j \in curr_down[h])
      BY <1>3, <2>3
    <3> QED
      BY <1>4, <2>3, <3>1, <3>2 DEF Precedes
  <2>4. CASE Word(j) = w /\ j \notin candidates
    BY <1>3, <1>4, <2>4 DEF Precedes
  <2> QED
    BY <2>2, <2>3, <2>4
<1>6. NextEdge(h, k)
  BY <1>4, <1>5 DEF NextEdge
<1>7. ASSUME NEW j \in Keys(h), NextEdge(h, j), j # k
      PROVE  FALSE
  <2>1. Precedes(h, j, k) /\ Precedes(h, k, j)
    BY <1>4, <1>5, <1>7 DEF NextEdge
  <2>2. Word(j) \in Nat /\ Word(k) \in Nat /\ j \in Nat /\ k \in Nat
    BY <1>1, <1>4
  <2> QED
    BY <2>1, <2>2 DEF Precedes
<1> QED
  BY <1>4, <1>6, <1>7

(***************************************************************************)
(* A call of kb_handle() has one way on from wherever it is, whatever the  *)
(* callbacks did to the link: one edge is next until none is left, one     *)
(* word of the bitmap is copied next until all are, a translated key has   *)
(* one code, and a report ends in one place.  The one choice is what a     *)
(* poll finds.                                                             *)
(***************************************************************************)
OneWayOn ==
    /\ \A h \in Halves :
          phase = h /\ Edges(h) # {}
             => \E k \in Keys(h) : \A j \in Keys(h) : NextEdge(h, j) <=> j = k
    /\ \A i \in Index :
          ~ Untranslated(i) => \E c \in KeyCodes : \A d : TranslatesTo(i, d) <=> d = c
    /\ phase = "copy" /\ copied # WordsOf("slave")
          => \E w \in WordsOf("slave") \ copied :
                \A v \in WordsOf("slave") \ copied : w <= v
    /\ \E n \in 0..Len(pressed_keys) :
          \A m \in 0..Len(pressed_keys) : ReportEndsAt(m) <=> m = n

THEOREM KbHandleGoesOn == Spec => []OneWayOn
<1>1. TypeOK => OneWayOn
  <2> SUFFICES ASSUME TypeOK PROVE OneWayOn
    OBVIOUS
  <2>1. ASSUME phase = "copy", copied # WordsOf("slave")
        PROVE  \E w \in WordsOf("slave") \ copied :
                  \A v \in WordsOf("slave") \ copied : w <= v
    <3>1. WordsOf("slave") \ copied # {}
      BY <2>1 DEF TypeOK
    <3>2. WordsOf("slave") \ copied \in SUBSET Nat
      BY HandleConstants DEF WordsOf, Word, Keys
    <3> QED
      BY <3>1, <3>2, Least
  <2> QED
    BY <2>1, OneNextEdge, OneCode, OneReport DEF OneWayOn, TypeOK
<1> QED
  BY <1>1, TypeCorrect, PTL

(***************************************************************************)
(* And it ends: every step of it goes on to a later part, or leaves fewer  *)
(* edges or words to do in the present one, and what the callbacks do in   *)
(* between touches neither.  So kb_handle() returns after finitely many    *)
(* steps of its own, however often notifications change the bitmap it is   *)
(* copying.                                                                *)
(***************************************************************************)
PartsLeft == CASE phase = "master" -> 5
               [] phase = "get"    -> 4
               [] phase = "copy"   -> 3
               [] phase = "slave"  -> 2
               [] phase = "report" -> 1
               [] OTHER            -> 0

LeftInPart == IF phase \in Halves THEN Edges(phase)
              ELSE IF phase = "copy" THEN WordsOf("slave") \ copied
              ELSE {}

KbHandleNearsEnd ==
    [][phase # "idle" =>
          \/ UNCHANGED handleVars
          \/ PartsLeft' < PartsLeft
          \/ /\ PartsLeft' = PartsLeft
             /\ Cardinality(LeftInPart') < Cardinality(LeftInPart)]_vars

LEMMA PartFinite == IsFiniteSet(LeftInPart)
<1>1. ASSUME NEW h \in Halves PROVE IsFiniteSet(Keys(h))
  <2>1. Keys(h) = 0..(KeyCount - 1) /\ 0 \in Int /\ KeyCount - 1 \in Int
    BY HandleConstants DEF Halves, Keys
  <2> QED
    BY <2>1, FS_Interval
<1>2. ASSUME NEW h \in Halves PROVE IsFiniteSet(Edges(h))
  BY <1>1, FS_Subset DEF Edges
<1>3. IsFiniteSet(WordsOf("slave"))
  <2> DEFINE f == [k \in Keys("slave") |-> Word(k)]
  <2>1. f \in Surjection(Keys("slave"), WordsOf("slave"))
    BY DEF Surjection, WordsOf
  <2> QED
    BY <1>1, <2>1, FS_Surjection DEF Halves
<1>4. IsFiniteSet(WordsOf("slave") \ copied)
  BY <1>3, FS_Subset
<1> QED
  BY <1>2, <1>4, FS_EmptySet DEF LeftInPart

\* What is left of a part is less when one thing is done.
LEMMA OneLess ==
    ASSUME NEW x \in LeftInPart, LeftInPart' = LeftInPart \ {x}
    PROVE  Cardinality(LeftInPart') < Cardinality(LeftInPart)
<1>1. /\ Cardinality(LeftInPart') = Cardinality(LeftInPart) - 1
      /\ Cardinality(LeftInPart) \in Nat
  BY PartFinite, FS_RemoveElement, FS_CardinalityType
<1> QED
  BY <1>1

THEOREM KbHandleEnds == Spec => KbHandleNearsEnd
<1> DEFINE Nears == \/ UNCHANGED handleVars
                    \/ PartsLeft' < PartsLeft
                    \/ /\ PartsLeft' = PartsLeft
                       /\ Cardinality(LeftInPart') < Cardinality(LeftInPart)
<1>1. TypeOK /\ [Next]_vars => [phase # "idle" => Nears]_vars
  <2> SUFFICES ASSUME TypeOK, Next, phase # "idle" PROVE Nears
    OBVIOUS
  <2>1. ASSUME NEW h \in Halves, NEW k \in Keys(h), Press(h, k) \/ Release(h, k)
        PROVE  Nears
    <3>1. /\ phase = h /\ phase' = h
          /\ k \in Edges(h)
          /\ UNCHANGED curr_down
          /\ \/ k \in curr_down[h] /\ prev_down'[h] = prev_down[h] \cup {k}
             \/ k \notin curr_down[h] /\ prev_down'[h] = prev_down[h] \ {k}
      BY <2>1 DEF Press, Release, NextEdge, TypeOK
    <3>2. k \in LeftInPart /\ LeftInPart' = LeftInPart \ {k}
      BY <3>1 DEF LeftInPart, Edges
    <3>3. PartsLeft' = PartsLeft
      BY <3>1 DEF PartsLeft
    <3> QED
      BY <3>2, <3>3, OneLess
  <2>2. ASSUME NEW w \in WordsOf("slave"), CopyWord(w)
        PROVE  Nears
    <3>1. /\ phase = "copy" /\ phase' = "copy"
          /\ w \notin copied /\ copied' = copied \cup {w}
      BY <2>2 DEF CopyWord
    <3>2. w \in LeftInPart /\ LeftInPart' = LeftInPart \ {w}
      BY <3>1 DEF LeftInPart, Halves
    <3>3. PartsLeft' = PartsLeft
      BY <3>1 DEF PartsLeft
    <3> QED
      BY <3>2, <3>3, OneLess
  <2>3. CASE \/ \E h \in Halves : EdgesDone(h)
             \/ GetSlaveKeys \/ ClearSlaveKeys \/ CopyDone \/ SendReport
    <3>1. \/ phase = "master" /\ phase' = "get"
          \/ phase = "slave" /\ phase' = "report"
          \/ phase = "get" /\ phase' \in {"copy", "report"}
          \/ phase = "copy" /\ phase' = "slave"
          \/ phase = "report" /\ phase' = "idle"
      BY <2>3 DEF EdgesDone, GetSlaveKeys, ClearSlaveKeys, CopyDone, SendReport,
                  Halves
    <3> QED
      BY <3>1 DEF PartsLeft
  <2>4. CASE Link
    BY <2>4 DEF Link
  <2>5. ~ Poll
    BY DEF Poll, PollNormal, PollRace, PollRaceNone
  <2> QED
    BY <2>1, <2>2, <2>3, <2>4, <2>5 DEF Next, InKbHandle
<1> QED
  BY <1>1, TypeCorrect, PTL DEF Spec, KbHandleNearsEnd
=============================================================================
