------------------------ MODULE KbHandleSlaveProofs ------------------------
(***************************************************************************)
(* Type correctness of the slave's key handling, what FN mode may rest on, *)
(* and what was sent to the master, for every keymap and number of keys.   *)
(***************************************************************************)
EXTENDS KbHandleSlave, KbEngineProofs

LEMMA InitType == Init => TypeOK
<1> SUFFICES ASSUME Init PROVE TypeOK
  OBVIOUS
<1>1. /\ <<>> \in Seq(PressedKey)
      /\ <<>> \in Seq(Index)
      /\ Len(<<>>) = 0
  BY EmptySeq
<1>2. EngineTypeOK
  <2>1. pressed_keys \in Seq(PressedKey) /\ Len(pressed_keys) <= PressedMax
    BY <1>1, EngineConstants DEF Init, EngineInit
  <2>2. fn_buff \in Seq(Index) /\ Len(fn_buff) <= FnMax
    BY <1>1, EngineConstants DEF Init, EngineInit
  <2> QED
    BY <2>1, <2>2 DEF Init, EngineInit, EngineTypeOK
<1> QED
  BY <1>2 DEF Init, TypeOK

LEMMA NextType == TypeOK /\ [Next]_vars => TypeOK'
<1> SUFFICES ASSUME TypeOK, [Next]_vars PROVE TypeOK'
  OBVIOUS
<1> USE DEF TypeOK
<1>1. ASSUME UNCHANGED engineVars PROVE EngineTypeOK'
  BY <1>1 DEF engineVars, EngineTypeOK
<1>2. ASSUME NEW down \in Bitmaps, Poll(down) PROVE TypeOK'
  BY <1>1, <1>2, SlaveConstants DEF Poll
<1>3. ASSUME NEW k \in Index, Press(k) PROVE TypeOK'
  <2>1. EngineTypeOK'
    BY <1>1, <1>3, OnPressType DEF Press
  <2> QED
    BY <1>3, <2>1 DEF Press
<1>4. ASSUME NEW k \in Index, Release(k) PROVE TypeOK'
  <2>1. EngineTypeOK'
    BY <1>1, <1>4, OnReleaseType DEF Release
  <2>2. unheard' \subseteq Index
    BY <1>4 DEF Release, Unheard
  <2> QED
    BY <1>4, <2>1, <2>2 DEF Release
<1>5. CASE EdgesDone
  BY <1>1, <1>5 DEF EdgesDone
<1>6. CASE Send
  BY <1>1, <1>6 DEF Send
<1>7. CASE LinkChanges
  BY <1>1, <1>7 DEF LinkChanges
<1>8. CASE UNCHANGED vars
  BY <1>1, <1>8 DEF vars
<1> QED
  BY <1>2, <1>3, <1>4, <1>5, <1>6, <1>7, <1>8 DEF Next

(***************************************************************************)
(* The slave's variables keep their types; the engine it shares with the   *)
(* master stays within its arrays.                                         *)
(***************************************************************************)
THEOREM SlaveTypeCorrect == Spec => []TypeOK
<1>1. Init => TypeOK
  BY InitType
<1>2. TypeOK /\ [Next]_vars => TypeOK'
  BY NextType
<1> QED
  BY <1>1, <1>2, PTL DEF Spec

-----------------------------------------------------------------------------
(***************************************************************************)
(* The inductive invariant behind SlaveFnOwned: the FN buffer lists no FN  *)
(* key and no layer key, so their releases leave no entry behind.          *)
(***************************************************************************)
FnInv ==
    /\ SlaveFnOwned
    /\ \A n \in 1..Len(fn_buff) : CodesOf(fn_buff[n]) \cap NormalCodes # {}

\* A press the engine hears of.
LEMMA PressFnInv ==
    ASSUME TypeOK, FnInv, NEW k \in Index, k \notin prev_down, OnPress(k),
           prev_down' = prev_down \cup {k}, unheard' = unheard
    PROVE  FnInv'
<1> USE DEF TypeOK, EngineTypeOK, FnInv
<1>1. UNCHANGED <<fn_buff, fn_pressed>> /\ fired' = {} => FnInv'
  BY DEF SlaveFnOwned
<1>2. CASE PressUnderFn(k)
  <2>1. CodesOf(k) \cap NormalCodes # {} /\ fn_pressed /\ fn_pressed'
    BY <1>2, TranslatedCode DEF PressUnderFn
  <2>2. CASE Len(fn_buff) < FnMax
    <3>1. fn_buff' = Append(fn_buff, k)
      BY <1>2, <2>2 DEF PressUnderFn, fn_add
    <3>2. /\ Len(fn_buff) \in Nat
          /\ Len(fn_buff') = Len(fn_buff) + 1
          /\ \A n \in 1..Len(fn_buff) : fn_buff'[n] = fn_buff[n]
          /\ fn_buff'[Len(fn_buff) + 1] = k
      BY <3>1, LenProperties
    <3>3. \A n \in 1..Len(fn_buff') :
             n \in 1..Len(fn_buff) \/ n = Len(fn_buff) + 1
      BY <3>2
    <3>4. \A n \in 1..Len(fn_buff) : fn_buff[n] = k => k \in unheard
      BY DEF SlaveFnOwned
    <3>5. \A m, n \in 1..Len(fn_buff') :
             fn_buff'[m] = fn_buff'[n] /\ m # n => fn_buff'[m] \in unheard'
      BY <3>2, <3>3, <3>4 DEF SlaveFnOwned
    <3>6. \A n \in 1..Len(fn_buff') :
             /\ fn_buff'[n] \in prev_down' \cup unheard'
             /\ CodesOf(fn_buff'[n]) \cap NormalCodes # {}
      BY <2>1, <3>2, <3>3 DEF SlaveFnOwned
    <3> QED
      BY <2>1, <3>5, <3>6 DEF SlaveFnOwned
  <2>3. CASE ~ (Len(fn_buff) < FnMax)
    BY <1>2, <2>1, <2>3 DEF PressUnderFn, fn_add, SlaveFnOwned
  <2> QED
    BY <2>2, <2>3
<1>3. CASE PressFn(k)
  <2>1. KeyFn \in CodesOf(k)
    BY <1>3, TranslatedCode DEF PressFn
  <2> QED
    BY <1>3, <2>1 DEF PressFn, SlaveFnOwned
<1> QED
  BY <1>1, <1>2, <1>3
     DEF OnPress, PressUntranslated, PressNormal, PressLayer

\* A release the engine hears of.
LEMMA ReleaseFnInv ==
    ASSUME TypeOK, FnInv, NEW k \in Index, OnRelease(k),
           prev_down' = prev_down \ {k},
           unheard' = IF TranslatesTo(k, KeyFn) THEN {} ELSE unheard
    PROVE  FnInv'
<1> USE DEF TypeOK, EngineTypeOK, FnInv
<1>0. fired' = {}
  BY DEF OnRelease
<1>1. CASE ReleaseFn(k)
  <2>1. Len(fn_buff') = 0 /\ fn_buff' = <<>> /\ ~ fn_pressed'
    BY <1>1, EmptySeq DEF ReleaseFn
  <2> QED
    BY <1>0, <2>1 DEF SlaveFnOwned
<1>2. ASSUME KeyFn \notin CodesOf(k),
             UNCHANGED <<fn_buff, fn_pressed>>,
             \A n \in 1..Len(fn_buff) : fn_buff[n] # k
      PROVE  FnInv'
  <2>1. unheard' = unheard
    BY <1>2, TranslatedCode
  <2> QED
    BY <1>0, <1>2, <2>1 DEF SlaveFnOwned
<1>3. CASE ReleaseUntranslated(k)
  <2>1. CodesOf(k) = {}
    BY <1>3, UntranslatedKind DEF ReleaseUntranslated
  <2> QED
    BY <1>2, <1>3, <2>1 DEF ReleaseUntranslated
<1>4. CASE ReleaseNormal(k)
  <2>1. KeyFn \notin CodesOf(k)
    BY <1>4, TranslatedCode, NormalKind, EngineConstants DEF ReleaseNormal
  <2>2. Len(fn_buff) = 0
    BY <1>4, EmptySeq DEF ReleaseNormal, SlaveFnOwned
  <2> QED
    BY <1>2, <1>4, <2>1, <2>2 DEF ReleaseNormal
<1>5. CASE ReleaseLayer(k)
  <2>1. PICK code \in LayerCodes : code \in CodesOf(k)
    BY <1>5, TranslatedCode DEF ReleaseLayer
  <2>2. KeyFn \notin CodesOf(k) /\ CodesOf(k) \cap NormalCodes = {}
    BY <2>1, SpecialKind, EngineConstants
  <2> QED
    BY <1>2, <1>5, <2>2 DEF ReleaseLayer
<1>6. CASE ReleaseUnderFn(k)
  <2>1. KeyFn \notin CodesOf(k)
    BY <1>6, TranslatedCode, NormalKind, EngineConstants DEF ReleaseUnderFn
  <2>2. CASE \A n \in 1..Len(fn_buff) : fn_buff[n] # k
    BY <1>2, <1>6, <2>1, <2>2 DEF ReleaseUnderFn, fn_remove
  <2>3. CASE \E n \in 1..Len(fn_buff) : fn_buff[n] = k
    <3>1. PICK n \in 1..Len(fn_buff) :
            fn_buff[n] = k /\ fn_buff' = RemoveAt(fn_buff, n)
      BY <1>6, <2>3 DEF ReleaseUnderFn, fn_remove
    <3>2. /\ Len(fn_buff) \in Nat
          /\ Len(fn_buff') = Len(fn_buff) - 1
          /\ \A m \in 1..Len(fn_buff') :
                fn_buff'[m] = IF m < n THEN fn_buff[m] ELSE fn_buff[m + 1]
      BY <3>1, RemoveAtProperties, LenProperties
    <3> DEFINE from(m) == IF m < n THEN m ELSE m + 1
    <3>3. \A m \in 1..Len(fn_buff') : /\ from(m) \in 1..Len(fn_buff)
                                      /\ from(m) # n
                                      /\ fn_buff'[m] = fn_buff[from(m)]
      BY <3>1, <3>2
    <3>4. \A l, m \in 1..Len(fn_buff') : l # m => from(l) # from(m)
      BY <3>2
    <3> HIDE DEF from
    <3>5. unheard' = unheard /\ fn_pressed /\ fn_pressed'
      BY <1>6, <2>1, TranslatedCode DEF ReleaseUnderFn
    <3>6. \A m \in 1..Len(fn_buff) : fn_buff[m] = k /\ m # n => k \in unheard
      BY <3>1 DEF SlaveFnOwned
    <3>7. \A m \in 1..Len(fn_buff') :
             /\ fn_buff'[m] \in prev_down' \cup unheard'
             /\ CodesOf(fn_buff'[m]) \cap NormalCodes # {}
      BY <3>3, <3>5, <3>6 DEF SlaveFnOwned
    <3>8. \A l, m \in 1..Len(fn_buff') :
             fn_buff'[l] = fn_buff'[m] /\ l # m => fn_buff'[l] \in unheard'
      BY <3>3, <3>4, <3>5 DEF SlaveFnOwned
    <3>9. \E i \in prev_down' \cup unheard' : KeyFn \in CodesOf(i)
      BY <2>1, <3>5 DEF SlaveFnOwned
    <3> QED
      BY <1>0, <3>5, <3>7, <3>8, <3>9 DEF SlaveFnOwned
  <2> QED
    BY <2>2, <2>3
<1> QED
  BY <1>1, <1>3, <1>4, <1>5, <1>6 DEF OnRelease

LEMMA NextFnInv == TypeOK /\ FnInv /\ [Next]_vars => FnInv'
<1> SUFFICES ASSUME TypeOK, FnInv, [Next]_vars PROVE FnInv'
  OBVIOUS
<1>1. ASSUME UNCHANGED engineVars, prev_down \cup unheard
                                      \subseteq prev_down' \cup unheard',
             unheard \subseteq unheard'
      PROVE  FnInv'
  BY <1>1 DEF engineVars, FnInv, SlaveFnOwned
<1>2. ASSUME NEW k \in Index, Press(k) PROVE FnInv'
  BY <1>1, <1>2, PressFnInv DEF Press, NextEdge, Edges
<1>3. ASSUME NEW k \in Index, Release(k) PROVE FnInv'
  <2>1. CASE ready
    BY <1>1, <1>3, <2>1 DEF Release, Unheard
  <2>2. CASE ~ ready
    BY <1>3, <2>2, ReleaseFnInv DEF Release, Unheard
  <2> QED
    BY <2>1, <2>2
<1>4. CASE UNCHANGED <<engineVars, prev_down, unheard>>
  BY <1>1, <1>4
<1> QED
  BY <1>2, <1>3, <1>4 DEF Next, Poll, EdgesDone, Send, LinkChanges, vars

(***************************************************************************)
(* FN mode and each key of the FN buffer belong to a key that is down, or  *)
(* was released while the master was connected.                            *)
(***************************************************************************)
THEOREM SlaveFnModeOwned == Spec => []SlaveFnOwned
<1>1. Init => TypeOK /\ FnInv
  <2> SUFFICES ASSUME Init PROVE FnInv
    BY InitType
  <2>1. Len(fn_buff) = 0 /\ fn_buff = <<>>
    BY EmptySeq DEF Init, EngineInit
  <2> QED
    BY <2>1 DEF Init, EngineInit, FnInv, SlaveFnOwned
<1>2. TypeOK /\ FnInv /\ [Next]_vars => TypeOK' /\ FnInv'
  BY NextType, NextFnInv
<1>3. FnInv => SlaveFnOwned
  BY DEF FnInv
<1> QED
  BY <1>1, <1>2, <1>3, PTL DEF Spec

-----------------------------------------------------------------------------
(***************************************************************************)
(* The inductive invariant behind SentCurrent: what was sent lags behind   *)
(* the callbacks only while change says so.                                *)
(***************************************************************************)
SentInv ==
    /\ ~ unsent /\ ~ change => sent = prev_down
    /\ phase = "idle" => ~ change
    /\ phase = "send" => curr_down = prev_down

\* A send catches up; only an edge makes it lag again, and sets change.
LEMMA NextSent == TypeOK /\ SentInv /\ [Next]_vars => SentInv'
<1> SUFFICES ASSUME TypeOK, SentInv, [Next]_vars PROVE SentInv'
  OBVIOUS
<1> USE DEF SentInv
<1>1. ASSUME NEW down \in Bitmaps, Poll(down) PROVE SentInv'
  BY <1>1 DEF Poll
<1>2. ASSUME NEW k \in Index, Press(k) \/ Release(k) PROVE SentInv'
  BY <1>2 DEF Press, Release
<1>3. CASE EdgesDone
  <2>1. curr_down = prev_down
    BY <1>3 DEF EdgesDone, Edges, TypeOK
  <2> QED
    BY <1>3, <2>1 DEF EdgesDone
<1>4. CASE Send
  BY <1>4 DEF Send, TypeOK
<1>5. CASE LinkChanges \/ UNCHANGED vars
  BY <1>5 DEF LinkChanges, vars
<1> QED
  BY <1>1, <1>2, <1>3, <1>4, <1>5 DEF Next

(***************************************************************************)
(* Between polls, what was last sent is what the callbacks were told,      *)
(* unless the link was down when a later bitmap was to be sent.            *)
(***************************************************************************)
THEOREM SentCurrentHolds == Spec => []SentCurrent
<1>1. Init => SentInv
  BY DEF Init, SentInv
<1>2. TypeOK /\ SentInv /\ [Next]_vars => SentInv'
  BY NextSent
<1>3. SentInv => SentCurrent
  BY DEF SentInv, SentCurrent
<1> QED
  BY <1>1, <1>2, <1>3, SlaveTypeCorrect, PTL DEF Spec

-----------------------------------------------------------------------------
(***************************************************************************)
(* The slave's kb_handle implements SlaveSends, the slave's end of the     *)
(* link: a poll is the abstract one, its edges and their callbacks are     *)
(* stutters, because a send is due from the first to the last of them,     *)
(* and the end of kb_handle hands over what was polled.                    *)
(***************************************************************************)
LEMMA PollSends ==
    ASSUME TypeOK, SentInv, NEW down \in Bitmaps, Poll(down)
    PROVE  [Sender!SendNext]_(Sender!sendVars)
<1>0. down \in SUBSET Index /\ UNCHANGED <<change, ready, sent, prev_down>>
  BY SlaveConstants DEF Poll
<1>1. CASE phase' = "idle"
  BY <1>0, <1>1 DEF Poll, Sender!sendVars, KeysTaken, SendDue
<1>2. CASE phase' = "edges"
  <2>1. KeysTaken = prev_down /\ KeysTaken' = down /\ ~ SendDue
    BY <1>2 DEF Poll, KeysTaken, SendDue
  <2>2. SendDue' <=> down # prev_down
    BY <1>0, <1>2 DEF Poll, SendDue, Edges, SentInv, TypeOK
  <2>3. SendDue' = (down # prev_down)
    BY <2>2 DEF SendDue
  <2>4. Sender!Polls(down)
    BY <1>0, <2>1, <2>3 DEF Sender!Polls
  <2> QED
    BY <1>0, <2>4 DEF Sender!SendNext
<1> QED
  BY <1>1, <1>2 DEF Poll

LEMMA SendSends ==
    ASSUME TypeOK, SentInv, Send
    PROVE  [Sender!SendNext]_(Sender!sendVars)
<1>1. curr_down = prev_down /\ UNCHANGED <<prev_down, ready>>
  BY DEF Send, SentInv
<1>2. Edges = {}
  BY <1>1 DEF Edges
<1>3. KeysTaken = curr_down /\ UNCHANGED KeysTaken
  BY <1>1 DEF Send, KeysTaken
<1>4. SendDue = change /\ SendDue' = FALSE
  BY <1>2 DEF Send, SendDue, TypeOK
<1>5. CASE change /\ ready
  BY <1>1, <1>3, <1>4, <1>5 DEF Send, Sender!SendNext, Sender!Sends
<1>6. CASE change /\ ~ ready
  BY <1>1, <1>3, <1>4, <1>6 DEF Send, Sender!SendNext, Sender!SendsNothing
<1>7. CASE ~ change
  BY <1>1, <1>3, <1>4, <1>7 DEF Send, Sender!sendVars, TypeOK
<1> QED
  BY <1>5, <1>6, <1>7

THEOREM SendsImplemented == Spec => ImplementsSlaveSends
<1>1. Init => Sender!SendInit
  BY DEF Init, Sender!SendInit, KeysTaken, SendDue
<1>2. Init => SentInv
  BY DEF Init, SentInv
<1>3. TypeOK /\ SentInv /\ [Next]_vars => SentInv'
  BY NextSent
<1>4. TypeOK /\ SentInv /\ [Next]_vars => [Sender!SendNext]_(Sender!sendVars)
  <2> SUFFICES ASSUME TypeOK, SentInv, [Next]_vars
               PROVE  [Sender!SendNext]_(Sender!sendVars)
    OBVIOUS
  <2>1. ASSUME NEW k \in Index, Press(k) \/ Release(k)
        PROVE  UNCHANGED Sender!sendVars
    <3>1. phase = "edges" /\ UNCHANGED <<phase, curr_down, ready, sent>>
          /\ change' = TRUE /\ k \in Edges
      BY <2>1 DEF Press, Release, NextEdge
    <3>2. UNCHANGED KeysTaken /\ SendDue = TRUE /\ SendDue' = TRUE
      BY <3>1 DEF KeysTaken, SendDue
    <3> QED
      BY <3>1, <3>2 DEF Sender!sendVars
  <2>2. CASE EdgesDone
    <3>1. Edges = {} /\ UNCHANGED <<curr_down, prev_down, change, ready, sent>>
          /\ phase = "edges" /\ phase' = "send"
      BY <2>2 DEF EdgesDone
    <3>2. Edges' = {}
      BY <3>1 DEF Edges
    <3>3. UNCHANGED KeysTaken /\ SendDue = change /\ SendDue' = change'
      BY <3>1, <3>2 DEF KeysTaken, SendDue, TypeOK
    <3> QED
      BY <3>1, <3>3 DEF Sender!sendVars
  <2>3. CASE LinkChanges
    <3>1. ready' = ~ ready /\ UNCHANGED <<phase, curr_down, prev_down, change, sent>>
      BY <2>3 DEF LinkChanges
    <3>2. UNCHANGED <<KeysTaken, SendDue>>
      BY <3>1 DEF KeysTaken, SendDue, Edges
    <3> QED
      BY <3>1, <3>2 DEF Sender!SendNext, Sender!ReadyChanges
  <2>4. CASE UNCHANGED vars
    BY <2>4 DEF vars, Sender!sendVars, KeysTaken, SendDue, Edges
  <2> QED
    BY <2>1, <2>2, <2>3, <2>4, PollSends, SendSends DEF Next
<1> QED
  BY <1>1, <1>2, <1>3, <1>4, SlaveTypeCorrect, PTL
     DEF Spec, ImplementsSlaveSends, Sender!SendSpec
=============================================================================
