-------------------------- MODULE KscanMuxesProofs --------------------------
(***************************************************************************)
(* The key scan reads the right keys, for every number of muxes, channels  *)
(* and select lines: ReadsOwnKey, BitmapExact and CountExact.  The poll    *)
(* keeps no record of where the muxes stand, so the invariant has to:      *)
(* between polls every mux is at its last channel (or has never been       *)
(* stepped), during one the muxes before the current one are at their last *)
(* channel, those after it are where the previous poll left them, and the  *)
(* current one is one step behind the channel the poll wants until it is   *)
(* stepped.  When a select has failed this is lost, but every mux still    *)
(* goes round once in a poll, from wherever it started.                    *)
(***************************************************************************)
EXTENDS KscanMuxes, FiniteSetTheorems, FunctionTheorems, TLAPS

\* Mux m is where a complete pass leaves it.
Parked(m) == current[m] \in {-1, Channels[m] - 1}

Positions ==
    /\ phase = "idle" => \A m \in Mux : Parked(m)
    /\ phase # "idle" => \A m \in Mux \ {mux} : Parked(m)
    /\ phase = "select" => IF channel = 0 THEN Parked(mux)
                           ELSE current[mux] = channel - 1
    /\ phase = "read" => current[mux] = channel

\* The key the loops are at.
Here == <<mux, channel>>

Counting == phase # "idle" => key_index = KeyIndex(Here)

\* The lines of the mux that is read select the channel it was stepped to.
Selected ==
    /\ phase = "select" /\ channel > 0 => current[mux] >= 0
    /\ phase = "read" => current[mux] >= 0 /\ sel_lines[mux] = Pattern(current[mux])

\* How often the poll has stepped mux m, its present mux only, ...
Steps(m) == IF phase = "idle" \/ m # mux THEN 0
            ELSE IF phase = "read" THEN channel + 1 ELSE channel

\* ... the channel a poll enters mux m at, and the key it samples for key k.
Start(m) == (current[m] + 1 - Steps(m) + Channels[m]) % Channels[m]
Sampled(k) == <<k[1], (Start(k[1]) + k[2]) % Channels[k[1]]>>

\* The bits set are those of the keys whose samples were keys that are down.
Account(K) == bitmap = {KeyIndex(k) : k \in {j \in K : Sampled(j) \in down}}

Accounted ==
    ~ disturbed =>
        /\ phase # "idle" => Account(KeysBefore(Here))
        /\ phase = "idle" /\ result = "ok" => Account(Key)

IInv == TypeOK /\ Counting /\ Selected /\ Accounted /\ (~ failed => Positions)

\* A step from the channel before c, or from a parked mux when c is the
\* first channel, reaches c.
LEMMA StepReaches ==
    ASSUME NEW n \in Nat \ {0}, NEW c \in 0..(n - 1), NEW cur \in Int,
           IF c = 0 THEN cur \in {-1, n - 1} ELSE cur = c - 1
    PROVE  (cur + 1) % n = c
<1>1. c % n = c
  OBVIOUS
<1>2. n % n = 0
  OBVIOUS
<1>3. CASE c = 0
  BY <1>1, <1>2, <1>3
<1>4. CASE c # 0
  BY <1>1, <1>4
<1>. QED
  BY <1>3, <1>4

\* Reducing a number modulo n, within three times n.
LEMMA Wrap ==
    ASSUME NEW n \in Nat \ {0}, NEW x \in 0..(3 * n - 1)
    PROVE  x % n = IF x < n THEN x ELSE IF x < 2 * n THEN x - n ELSE x - 2 * n
<1>1. CASE x < n
  BY <1>1
<1>2. CASE x >= n /\ x < 2 * n
  BY <1>2
<1>3. CASE x >= 2 * n
  BY <1>3
<1>. QED
  BY <1>1, <1>2, <1>3

\* Adding a number to the channels of a mux goes round them, once each.
LEMMA Round ==
    ASSUME NEW n \in Nat \ {0}, NEW a \in 0..(n - 1)
    PROVE  /\ \A i \in 0..(n - 1) : (a + i) % n \in 0..(n - 1)
           /\ \A i, j \in 0..(n - 1) : (a + i) % n = (a + j) % n => i = j
           /\ \A c \in 0..(n - 1) : \E i \in 0..(n - 1) : (a + i) % n = c
<1>1. ASSUME NEW i \in 0..(n - 1)
      PROVE  (a + i) % n = IF a + i < n THEN a + i ELSE a + i - n
  <2>1. PICK x \in 0..(3 * n - 1) : x = a + i /\ x < 2 * n
    OBVIOUS
  <2>2. x % n = IF x < n THEN x ELSE x - n
    BY <2>1, Wrap
  <2>. QED
    BY <2>1, <2>2
<1>2. ASSUME NEW c \in 0..(n - 1)
      PROVE  \E i \in 0..(n - 1) : (a + i) % n = c
  <2>1. CASE a <= c
    <3>1. c - a \in 0..(n - 1) /\ (a + (c - a)) % n = c
      BY <1>1, <2>1
    <3>. QED
      BY <3>1
  <2>2. CASE c < a
    <3>1. c - a + n \in 0..(n - 1) /\ (a + (c - a + n)) % n = c
      BY <1>1, <2>2
    <3>. QED
      BY <3>1
  <2>. QED
    BY <2>1, <2>2
<1>3. \A i, j \in 0..(n - 1) : (a + i) % n = (a + j) % n => i = j
  BY <1>1
<1>4. \A i \in 0..(n - 1) : (a + i) % n \in 0..(n - 1)
  BY <1>1
<1>. QED
  BY <1>2, <1>3, <1>4

-----------------------------------------------------------------------------
\* What a key is.
LEMMA KeyParts ==
    ASSUME NEW k \in Key
    PROVE  k[1] \in Mux /\ k[2] \in 0..(Channels[k[1]] - 1) /\ k = <<k[1], k[2]>>
  BY DEF Key

LEMMA KeyIntro ==
    ASSUME NEW m \in Mux, NEW c \in 0..(Channels[m] - 1)
    PROVE  <<m, c>> \in Key
  BY DEF Key

LEMMA KeysFinite == IsFiniteSet(Key)
<1>. DEFINE OfMux(m) == {<<m, c>> : c \in 0..(Channels[m] - 1)}
            all == {OfMux(m) : m \in Mux}
            f == [m \in Mux |-> OfMux(m)]
<1>1. ASSUME NEW m \in Mux
      PROVE  IsFiniteSet(OfMux(m))
  <2>1. Channels[m] - 1 \in Int
    BY MuxConstants
  <2>2. IsFiniteSet({m})
    BY FS_Singleton
  <2>3. IsFiniteSet(0..(Channels[m] - 1))
    BY <2>1, FS_Interval
  <2>4. IsFiniteSet({m} \X (0..(Channels[m] - 1)))
    BY <2>2, <2>3, FS_Product
  <2>5. OfMux(m) \in SUBSET ({m} \X (0..(Channels[m] - 1)))
    OBVIOUS
  <2>. QED
    BY <2>4, <2>5, FS_Subset
<1>2. IsFiniteSet(all)
  <2>1. f \in Surjection(Mux, all)
    BY DEF Surjection
  <2>2. IsFiniteSet(Mux)
    BY MuxConstants, FS_Interval DEF Mux
  <2>. QED
    BY <2>1, <2>2, FS_Surjection
<1>3. \A T \in all : IsFiniteSet(T)
  BY <1>1
<1>4. IsFiniteSet(UNION all)
  BY <1>2, <1>3, FS_UNION
<1>. QED
  BY <1>4 DEF Key

\* A key and those before it, counted.
LEMMA CountNext ==
    ASSUME NEW k \in Key
    PROVE  /\ IsFiniteSet(KeysBefore(k))
           /\ KeyIndex(k) \in Nat
           /\ k \notin KeysBefore(k)
           /\ Cardinality(KeysBefore(k) \cup {k}) = KeyIndex(k) + 1
<1>1. KeysBefore(k) \in SUBSET Key
  BY DEF KeysBefore
<1>2. IsFiniteSet(KeysBefore(k))
  BY <1>1, KeysFinite, FS_Subset
<1>3. k \notin KeysBefore(k)
  <2>1. k[1] \in Int /\ k[2] \in Int
    BY KeyParts, MuxConstants DEF Mux
  <2>. QED
    BY <2>1 DEF KeysBefore
<1>. QED
  BY <1>2, <1>3, FS_AddElement, FS_CardinalityType DEF KeyIndex

\* Key indices count the keys from zero, without a gap at the end.
LEMMA KeyIndexBound ==
    ASSUME NEW k \in Key
    PROVE  KeyCount \in Nat /\ KeyIndex(k) \in KeyIndices /\ KeyIndex(k) < KeyCount
<1>1. KeysBefore(k) \cup {k} \in SUBSET Key
  BY DEF KeysBefore
<1>2. Cardinality(KeysBefore(k) \cup {k}) <= KeyCount
  BY <1>1, KeysFinite, FS_Subset DEF KeyCount
<1>3. KeyCount \in Nat
  BY KeysFinite, FS_CardinalityType DEF KeyCount
<1>4. /\ KeyIndex(k) \in Nat
      /\ Cardinality(KeysBefore(k) \cup {k}) = KeyIndex(k) + 1
  BY CountNext
<1>. QED
  BY <1>2, <1>3, <1>4 DEF KeyIndices

\* A key that comes later has a greater index.
LEMMA KeyIndexOrder ==
    ASSUME NEW j \in Key, NEW k \in Key, j \in KeysBefore(k)
    PROVE  KeyIndex(j) < KeyIndex(k)
<1>1. \A i \in Key : i[1] \in Int /\ i[2] \in Int
  BY KeyParts, MuxConstants DEF Mux
<1>2. KeysBefore(j) \cup {j} \in SUBSET KeysBefore(k)
  BY <1>1 DEF KeysBefore
<1>3. Cardinality(KeysBefore(j) \cup {j}) <= KeyIndex(k)
  <2>1. IsFiniteSet(KeysBefore(k))
    BY CountNext
  <2>. QED
    BY <1>2, <2>1, FS_Subset DEF KeyIndex
<1>4. /\ KeyIndex(j) \in Nat /\ KeyIndex(k) \in Nat
      /\ Cardinality(KeysBefore(j) \cup {j}) = KeyIndex(j) + 1
  BY CountNext
<1>. QED
  BY <1>3, <1>4

LEMMA KeyIndexInjective ==
    ASSUME NEW j \in Key, NEW k \in Key, KeyIndex(j) = KeyIndex(k)
    PROVE  j = k
<1>1. j[1] \in Int /\ j[2] \in Int /\ k[1] \in Int /\ k[2] \in Int
  BY KeyParts, MuxConstants DEF Mux
<1>2. j \in KeysBefore(k) \/ k \in KeysBefore(j) \/ (j[1] = k[1] /\ j[2] = k[2])
  BY <1>1 DEF KeysBefore
<1>3. ~ (KeyIndex(j) < KeyIndex(k)) /\ ~ (KeyIndex(k) < KeyIndex(j))
  <2>1. KeyIndex(j) \in Nat
    BY CountNext
  <2>. QED
    BY <2>1
<1>4. j \notin KeysBefore(k) /\ k \notin KeysBefore(j)
  BY <1>3, KeyIndexOrder
<1>. QED
  BY <1>2, <1>4, KeyParts

\* The keys before the next one are those before this one, and this one.
LEMMA FirstKey == KeysBefore(<<1, 0>>) = {}
<1>1. \A k \in Key : k[1] \in Int /\ k[1] >= 1 /\ k[2] \in Int /\ k[2] >= 0
  BY KeyParts, MuxConstants DEF Mux
<1>. QED
  BY <1>1 DEF KeysBefore

LEMMA SameMux ==
    ASSUME NEW m \in Mux, NEW c \in 0..(Channels[m] - 1), c < Channels[m] - 1
    PROVE  KeysBefore(<<m, c + 1>>) = KeysBefore(<<m, c>>) \cup {<<m, c>>}
<1>1. \A k \in Key : k[1] \in Int /\ k[2] \in Int /\ k = <<k[1], k[2]>>
  BY KeyParts, MuxConstants DEF Mux
<1>2. c \in Int /\ m \in Int /\ <<m, c>> \in Key
  BY KeyIntro, MuxConstants DEF Mux
<1>. QED
  BY <1>1, <1>2 DEF KeysBefore

LEMMA NextMux ==
    ASSUME NEW m \in Mux, NEW c \in 0..(Channels[m] - 1), c = Channels[m] - 1
    PROVE  /\ KeysBefore(<<m + 1, 0>>) = KeysBefore(<<m, c>>) \cup {<<m, c>>}
           /\ m = MuxCnt => Key = KeysBefore(<<m, c>>) \cup {<<m, c>>}
<1>1. \A k \in Key : /\ k[1] \in Mux /\ k[1] \in Int
                     /\ k[2] \in Int /\ 0 <= k[2] /\ k[2] <= Channels[k[1]] - 1
                     /\ k = <<k[1], k[2]>>
  BY KeyParts, MuxConstants DEF Mux
<1>2. c \in Int /\ m \in Int /\ <<m, c>> \in Key
  BY KeyIntro, MuxConstants DEF Mux
<1>3. m = MuxCnt => \A k \in Key : k[1] <= m
  BY <1>1, MuxConstants DEF Mux
<1>4. \A k \in Key : k[1] = m => k[2] < c \/ k = <<m, c>>
  BY <1>1, <1>2
<1>5. KeysBefore(<<m + 1, 0>>) = KeysBefore(<<m, c>>) \cup {<<m, c>>}
  BY <1>1, <1>2, <1>4 DEF KeysBefore
<1>6. ASSUME m = MuxCnt
      PROVE  Key = KeysBefore(<<m, c>>) \cup {<<m, c>>}
  BY <1>1, <1>2, <1>3, <1>4, <1>6 DEF KeysBefore
<1>. QED
  BY <1>5, <1>6

-----------------------------------------------------------------------------
\* The levels that select a channel are levels.
LEMMA PatternType ==
    ASSUME NEW c \in Nat
    PROVE  Pattern(c) \in [Line -> BOOLEAN]
  BY DEF Pattern

\* The channel after the present one is a channel of the mux.
LEMMA NextChannelType ==
    ASSUME MuxTypeOK, NEW m \in Mux
    PROVE  NextChannel(m) \in 0..(Channels[m] - 1)
<1>1. Channels[m] \in Nat \ {0} /\ current[m] \in Int
  BY MuxConstants DEF MuxTypeOK
<1>. QED
  BY <1>1 DEF NextChannel

\* Driving any number of lines of a mux leaves levels on all of them.
LEMMA DriveType ==
    ASSUME MuxTypeOK, NEW m \in Mux, NEW n, drive_bits(m, NextChannel(m), n)
    PROVE  sel_lines' \in [Mux -> [Line -> BOOLEAN]]
<1>1. NextChannel(m) \in Nat
  BY NextChannelType, MuxConstants
<1>2. Pattern(NextChannel(m)) \in [Line -> BOOLEAN]
  BY <1>1, PatternType
<1>. QED
  BY <1>2 DEF drive_bits, MuxTypeOK

\* A successful select leaves its mux at the next channel, selected.
LEMMA SelectNextReaches ==
    ASSUME MuxTypeOK, NEW m \in Mux, SelectNext(m)
    PROVE  /\ MuxTypeOK'
           /\ current' = [current EXCEPT ![m] = NextChannel(m)]
           /\ sel_lines'[m] = Pattern(NextChannel(m))
<1>1. NextChannel(m) \in 0..(Channels[m] - 1)
  BY NextChannelType
<1>2. sel_lines' \in [Mux -> [Line -> BOOLEAN]]
  BY DriveType DEF SelectNext
<1>3. current' \in [Mux -> Int] /\ \A k \in Mux : current'[k] \in -1..(Channels[k] - 1)
  BY <1>1, MuxConstants DEF SelectNext, MuxTypeOK
<1>4. sel_lines'[m] = [b \in Line |-> Pattern(NextChannel(m))[b]]
  <2>1. \A b \in Line : b < SelCnt
    BY MuxConstants DEF Line
  <2>. QED
    BY <2>1 DEF SelectNext, drive_bits, MuxTypeOK
<1>. QED
  BY <1>2, <1>3, <1>4 DEF SelectNext, MuxTypeOK, Pattern

\* A select that fails leaves the multiplexers well typed.
LEMMA SelectFailsType ==
    ASSUME MuxTypeOK, NEW m \in Mux,
           SelectNextEnableFails(m) \/ SelectNextDriveFails(m)
    PROVE  MuxTypeOK'
<1>1. CASE SelectNextEnableFails(m)
  BY <1>1 DEF SelectNextEnableFails, MuxTypeOK, muxVars
<1>2. CASE SelectNextDriveFails(m)
  <2>1. sel_lines' \in [Mux -> [Line -> BOOLEAN]]
    BY <1>2, DriveType DEF SelectNextDriveFails
  <2>. QED
    BY <1>2, <2>1 DEF SelectNextDriveFails, MuxTypeOK
<1>. QED
  BY <1>1, <1>2

-----------------------------------------------------------------------------
\* The poll is always at a key.
LEMMA HereIsKey == TypeOK => Here \in Key
  BY KeyIntro DEF TypeOK, Here

\* After a sample the loops go on to the next key, or have seen them all.
LEMMA AdvanceCounts ==
    ASSUME TypeOK, Counting, phase = "read", Advance
    PROVE  /\ mux' \in Mux
           /\ channel' \in 0..(Channels[mux'] - 1)
           /\ key_index \in KeyIndices
           /\ key_index' \in 0..KeyCount
           /\ \/ /\ phase' = "select"
                 /\ result' = result
                 /\ KeysBefore(Here)' = KeysBefore(Here) \cup {Here}
                 /\ key_index' = KeyIndex(Here)'
              \/ /\ phase' = "idle"
                 /\ result' = "ok"
                 /\ Key = KeysBefore(Here) \cup {Here}
<1>1. mux \in Mux /\ channel \in 0..(Channels[mux] - 1)
  BY DEF TypeOK
<1>2. Channels[mux] \in Nat \ {0} /\ mux \in Int /\ MuxCnt \in Nat
  BY <1>1, MuxConstants DEF Mux
<1>3. Here \in Key /\ key_index = KeyIndex(Here)
  BY HereIsKey DEF Counting
<1>4. key_index \in KeyIndices /\ key_index' \in 0..KeyCount
  <2>1. KeyCount \in Nat /\ key_index \in KeyIndices /\ key_index < KeyCount
    BY <1>3, KeyIndexBound
  <2>2. key_index' = key_index + 1
    BY DEF Advance
  <2>. QED
    BY <2>1, <2>2 DEF KeyIndices
<1>5. Cardinality(KeysBefore(Here) \cup {Here}) = key_index'
  BY <1>3, CountNext DEF Advance
<1>6. CASE channel < Channels[mux] - 1
  <2>1. phase' = "select" /\ mux' = mux /\ channel' = channel + 1 /\ result' = result
    BY <1>1, <1>2, <1>6 DEF Advance
  <2>2. KeysBefore(<<mux, channel + 1>>) = KeysBefore(<<mux, channel>>) \cup {<<mux, channel>>}
    BY <1>1, <1>6, SameMux
  <2>3. KeysBefore(Here)' = KeysBefore(Here) \cup {Here}
    BY <2>1, <2>2 DEF Here, KeysBefore
  <2>4. mux' \in Mux /\ channel' \in 0..(Channels[mux'] - 1)
    BY <1>1, <1>2, <1>6, <2>1
  <2>5. key_index' = KeyIndex(Here)'
    BY <1>5, <2>3 DEF KeyIndex
  <2>. QED
    BY <1>4, <2>1, <2>3, <2>4, <2>5
<1>7. CASE channel = Channels[mux] - 1 /\ mux < MuxCnt
  <2>1. phase' = "select" /\ mux' = mux + 1 /\ channel' = 0 /\ result' = result
    BY <1>1, <1>2, <1>7 DEF Advance
  <2>2. KeysBefore(<<mux + 1, 0>>) = KeysBefore(<<mux, channel>>) \cup {<<mux, channel>>}
    BY <1>1, <1>7, NextMux
  <2>3. KeysBefore(Here)' = KeysBefore(Here) \cup {Here}
    BY <2>1, <2>2 DEF Here, KeysBefore
  <2>4. mux' \in Mux
    BY <1>1, <1>2, <1>7, <2>1 DEF Mux
  <2>5. channel' \in 0..(Channels[mux'] - 1)
    BY <2>1, <2>4, MuxConstants
  <2>6. key_index' = KeyIndex(Here)'
    BY <1>5, <2>3 DEF KeyIndex
  <2>. QED
    BY <1>4, <2>1, <2>3, <2>4, <2>5, <2>6
<1>8. CASE channel = Channels[mux] - 1 /\ mux = MuxCnt
  <2>1. phase' = "idle" /\ mux' = mux /\ channel' = channel /\ result' = "ok"
    BY <1>1, <1>2, <1>8 DEF Advance
  <2>2. Key = KeysBefore(Here) \cup {Here}
    BY <1>1, <1>8, NextMux DEF Here
  <2>. QED
    BY <1>1, <1>4, <2>1, <2>2
<1>9. \/ channel < Channels[mux] - 1
      \/ channel = Channels[mux] - 1 /\ mux < MuxCnt
      \/ channel = Channels[mux] - 1 /\ mux = MuxCnt
  BY <1>1, <1>2 DEF Mux
<1>. QED
  BY <1>6, <1>7, <1>8, <1>9

\* Every step leaves a state of the right types, with the key index of the
\* key the loops are at.
LEMMA NextType ==
    ASSUME TypeOK, Counting, [Next]_vars
    PROVE  TypeOK' /\ Counting'
<1>. USE MuxConstants DEF TypeOK
<1>1. CASE PollStart
  <2>1. MuxTypeOK'
    BY <1>1 DEF PollStart, muxVars, MuxTypeOK
  <2>2. mux' \in Mux /\ channel' \in 0..(Channels[mux'] - 1)
    BY <1>1 DEF PollStart, Mux
  <2>3. key_index' \in 0..KeyCount
    BY <1>1, KeysFinite, FS_CardinalityType DEF PollStart, KeyCount
  <2>4. KeyIndex(Here)' = 0
    BY <1>1, FirstKey, FS_EmptySet DEF PollStart, Here, KeyIndex, KeysBefore
  <2>. QED
    BY <1>1, <2>1, <2>2, <2>3, <2>4 DEF PollStart, Counting
<1>2. CASE Select
  <2>1. MuxTypeOK'
    BY <1>2, SelectNextReaches DEF Select
  <2>. QED
    BY <1>2, <2>1 DEF Select, Counting, Here, KeyIndex, KeysBefore
<1>3. CASE SelectFails
  BY <1>3, SelectFailsType DEF SelectFails, Counting
<1>4. ASSUME phase = "read", NEW r \in {0, 1}, Store(r), Advance,
             UNCHANGED <<muxVars, down, failed>>, disturbed' \in BOOLEAN
      PROVE  TypeOK' /\ Counting'
  <2>1. MuxTypeOK'
    BY <1>4 DEF muxVars, MuxTypeOK
  <2>2. /\ mux' \in Mux
        /\ channel' \in 0..(Channels[mux'] - 1)
        /\ key_index \in KeyIndices
        /\ key_index' \in 0..KeyCount
        /\ \/ /\ phase' = "select"
              /\ result' = result
              /\ key_index' = KeyIndex(Here)'
           \/ phase' = "idle" /\ result' = "ok"
    BY <1>4, AdvanceCounts
  <2>3. bitmap' \subseteq KeyIndices
    BY <1>4, <2>2 DEF Store
  <2>4. values' \in [KeyIndices -> {0, 1}]
    BY <1>4, <2>2 DEF Store
  <2>. QED
    BY <1>4, <2>1, <2>2, <2>3, <2>4 DEF Counting
<1>5. CASE Sample
  <2>1. Reading \in {0, 1}
    BY DEF Reading
  <2>. QED
    BY <1>4, <1>5, <2>1 DEF Sample
<1>6. CASE SampleFails
  BY <1>4, <1>6 DEF SampleFails
<1>7. CASE \E k \in Key : KeyMoves(k)
  BY <1>7 DEF KeyMoves, muxVars, scanVars, MuxTypeOK, Counting, Here, KeyIndex,
              KeysBefore
<1>8. CASE UNCHANGED vars
  BY <1>8 DEF vars, muxVars, scanVars, MuxTypeOK, Counting, Here, KeyIndex,
              KeysBefore
<1>. QED
  BY <1>1, <1>2, <1>3, <1>5, <1>6, <1>7, <1>8 DEF Next

\* The mux that is read was just stepped, and its lines select the channel it
\* was stepped to, however the polls before this one ended.
LEMMA NextSelected ==
    ASSUME TypeOK, Selected, [Next]_vars
    PROVE  Selected'
<1>. USE MuxConstants DEF TypeOK
<1>1. CASE PollStart
  BY <1>1 DEF PollStart, Selected
<1>2. CASE Select
  <2>1. /\ current' = [current EXCEPT ![mux] = NextChannel(mux)]
        /\ sel_lines'[mux] = Pattern(NextChannel(mux))
    BY <1>2, SelectNextReaches DEF Select
  <2>2. NextChannel(mux) \in 0..(Channels[mux] - 1)
    BY NextChannelType
  <2>3. current'[mux] = NextChannel(mux) /\ current'[mux] >= 0
    BY <2>1, <2>2 DEF MuxTypeOK
  <2>. QED
    BY <1>2, <2>1, <2>3 DEF Select, Selected
<1>3. CASE SelectFails
  BY <1>3 DEF SelectFails, Selected
<1>4. ASSUME phase = "read", Advance, UNCHANGED muxVars
      PROVE  Selected'
  <2>1. CASE mux' = mux
    BY <1>4, <2>1 DEF Advance, muxVars, Selected
  <2>2. CASE mux' # mux
    BY <1>4, <2>2 DEF Advance, muxVars, Selected
  <2>. QED
    BY <2>1, <2>2
<1>5. CASE Sample
  BY <1>4, <1>5 DEF Sample
<1>6. CASE SampleFails
  BY <1>4, <1>6 DEF SampleFails
<1>7. CASE \E k \in Key : KeyMoves(k)
  BY <1>7 DEF KeyMoves, muxVars, scanVars, Selected
<1>8. CASE UNCHANGED vars
  BY <1>8 DEF vars, muxVars, scanVars, Selected
<1>. QED
  BY <1>1, <1>2, <1>3, <1>5, <1>6, <1>7, <1>8 DEF Next

\* Every step keeps the muxes where the poll needs them.
LEMMA NextPositions ==
    ASSUME TypeOK, ~ failed => Positions, [Next]_vars
    PROVE  ~ failed' => Positions'
<1>. USE MuxConstants DEF TypeOK, MuxTypeOK
<1>1. CASE PollStart
  BY <1>1 DEF PollStart, muxVars, Positions, Parked, Mux
<1>2. CASE Select
  <2>1. /\ current' = [current EXCEPT ![mux] = NextChannel(mux)]
        /\ sel_lines'[mux] = Pattern(NextChannel(mux))
    BY <1>2, SelectNextReaches DEF Select
  <2>2. ASSUME ~ failed
        PROVE  NextChannel(mux) = channel
    BY <1>2, <2>2, StepReaches DEF Select, Positions, Parked, NextChannel
  <2>. QED
    BY <1>2, <2>1, <2>2 DEF Select, Positions, Parked
<1>3. CASE SelectFails
  BY <1>3 DEF SelectFails
<1>4. ASSUME phase = "read", Advance, UNCHANGED <<muxVars, failed>>
      PROVE  ~ failed' => Positions'
  <2>1. SUFFICES ASSUME ~ failed
                 PROVE  Positions'
    BY <1>4
  <2>2. current' = current
    BY <1>4 DEF muxVars
  <2>3. current[mux] = channel /\ \A m \in Mux \ {mux} : Parked(m)
    BY <1>4, <2>1 DEF Positions
  <2>4. CASE channel < Channels[mux] - 1
    <3>1. channel' = channel + 1 /\ mux' = mux /\ phase' = "select"
      BY <1>4, <2>4 DEF Advance
    <3>. QED
      BY <2>2, <2>3, <3>1 DEF Positions, Parked
  <2>5. CASE channel = Channels[mux] - 1
    <3>1. \A m \in Mux : Parked(m)
      BY <2>3, <2>5 DEF Parked
    <3>2. mux' \in Mux /\ phase' \in {"select", "idle"}
      BY SMTT(20), <1>4, <2>5 DEF Advance, Mux
    <3>3. phase' = "select" => channel' = 0
      BY <1>4, <2>5 DEF Advance
    <3>. QED
      BY <2>2, <3>1, <3>2, <3>3 DEF Positions, Parked
  <2>6. channel < Channels[mux] - 1 \/ channel = Channels[mux] - 1
    <3>1. channel \in 0..(Channels[mux] - 1) /\ Channels[mux] \in Nat
      OBVIOUS
    <3>. HIDE MuxConstants DEF TypeOK, MuxTypeOK
    <3>. QED
      BY <3>1
  <2>. QED
    BY <2>4, <2>5, <2>6
<1>5. CASE Sample
  BY <1>4, <1>5 DEF Sample
<1>6. CASE SampleFails
  BY <1>4, <1>6 DEF SampleFails
<1>7. CASE \E k \in Key : KeyMoves(k)
  BY <1>7 DEF KeyMoves, muxVars, scanVars, Positions, Parked
<1>8. CASE UNCHANGED vars
  BY <1>8 DEF vars, muxVars, scanVars, Positions, Parked
<1>. QED
  BY <1>1, <1>2, <1>3, <1>5, <1>6, <1>7, <1>8 DEF Next

-----------------------------------------------------------------------------
\* A step of its mux, and leaving it, change nothing about where the poll
\* entered it.
LEMMA StartArithmetic ==
    ASSUME NEW n \in Nat \ {0}, NEW cur \in -1..(n - 1), NEW c \in 0..(n - 1),
           c > 0 => cur >= 0
    PROVE  /\ (((cur + 1) % n) + 1 - (c + 1) + n) % n = (cur + 1 - c + n) % n
           /\ cur >= 0 => (cur + 1 - (c + 1) + n) % n \in 0..(n - 1)
           /\ cur >= 0 => (((cur + 1 - (c + 1) + n) % n) + c) % n = cur
<1>. DEFINE red(x) == IF x < n THEN x ELSE IF x < 2 * n THEN x - n ELSE x - 2 * n
<1>1. \A x \in 0..(3 * n - 1) : x % n = red(x)
  BY Wrap
<1>2. (cur + 1) % n = red(cur + 1) /\ red(cur + 1) \in 0..(n - 1)
  <2>1. cur + 1 \in 0..(3 * n - 1)
    OBVIOUS
  <2>. QED
    BY <1>1, <2>1
<1>3. (cur + 1 - c + n) % n = red(cur + 1 - c + n)
  <2>1. cur + 1 - c + n \in 0..(3 * n - 1)
    OBVIOUS
  <2>. QED
    BY <1>1, <2>1
<1>4. (((cur + 1) % n) + 1 - (c + 1) + n) % n = (cur + 1 - c + n) % n
  <2>. DEFINE y == red(cur + 1) + 1 - (c + 1) + n
  <2>1. y \in 0..(3 * n - 1)
    BY <1>2
  <2>2. y % n = red(y)
    BY <1>1, <2>1
  <2>. QED
    BY <1>2, <1>3, <2>2
<1>5. ASSUME cur >= 0
      PROVE  /\ (cur + 1 - (c + 1) + n) % n \in 0..(n - 1)
             /\ (((cur + 1 - (c + 1) + n) % n) + c) % n = cur
  <2>. DEFINE y == cur + 1 - (c + 1) + n
              z == red(y) + c
  <2>1. y \in 0..(3 * n - 1) /\ red(y) \in 0..(n - 1) /\ z \in 0..(3 * n - 1)
    BY <1>5
  <2>2. y % n = red(y) /\ z % n = red(z)
    BY <1>1, <2>1
  <2>3. red(z) = cur
    BY <1>5
  <2>. QED
    BY <2>1, <2>2, <2>3
<1>. QED
  BY <1>4, <1>5

LEMMA WholeRound ==
    ASSUME NEW n \in Nat \ {0}, NEW cur \in -1..(n - 1)
    PROVE  (cur + 1 - n + n) % n = (cur + 1 - 0 + n) % n
<1>. DEFINE x == cur + 1
            y == cur + 1 + n
<1>1. x \in 0..(3 * n - 1) /\ y \in 0..(3 * n - 1)
  OBVIOUS
<1>2. /\ x % n = IF x < n THEN x ELSE IF x < 2 * n THEN x - n ELSE x - 2 * n
      /\ y % n = IF y < n THEN y ELSE IF y < 2 * n THEN y - n ELSE y - 2 * n
  BY <1>1, Wrap
<1>3. x % n = y % n
  BY <1>2
<1>4. cur + 1 - n + n = x /\ cur + 1 - 0 + n = y
  OBVIOUS
<1>. QED
  BY <1>3, <1>4

\* What a mux has.
LEMMA MuxFacts ==
    ASSUME TypeOK, NEW m \in Mux
    PROVE  Channels[m] \in Nat \ {0} /\ current[m] \in -1..(Channels[m] - 1)
  BY MuxConstants DEF TypeOK, MuxTypeOK

\* Stepping a mux keeps what the poll samples for each key, ...
LEMMA SelectKeeps ==
    ASSUME TypeOK, Selected, Select
    PROVE  \A k \in Key : Sampled(k)' = Sampled(k)
<1>1. SUFFICES ASSUME NEW m \in Mux
               PROVE  Start(m)' = Start(m)
  BY KeyParts DEF Sampled
<1>2. phase = "select" /\ phase' = "read" /\ mux' = mux /\ channel' = channel
  BY DEF Select
<1>3. current' = [current EXCEPT ![mux] = (current[mux] + 1) % Channels[mux]]
      /\ current \in [Mux -> Int]
  BY DEF Select, SelectNext, NextChannel, TypeOK, MuxTypeOK
<1>4. CASE m = mux
  <2>1. Channels[m] \in Nat \ {0} /\ current[m] \in -1..(Channels[m] - 1)
    BY MuxFacts
  <2>2. channel \in 0..(Channels[m] - 1) /\ (channel > 0 => current[m] >= 0)
    BY <1>2, <1>4 DEF TypeOK, Selected
  <2>3. Steps(m) = channel /\ Steps(m)' = channel + 1
    BY <1>2, <1>4 DEF Steps
  <2>4. current'[m] = (current[m] + 1) % Channels[m]
    BY <1>3, <1>4
  <2>. QED
    BY <2>1, <2>2, <2>3, <2>4, StartArithmetic DEF Start
<1>5. CASE m # mux
  BY <1>2, <1>3, <1>5 DEF Start, Steps
<1>. QED
  BY <1>4, <1>5

\* ... and so does going on to the next key, or to the end of the poll.
LEMMA AdvanceKeeps ==
    ASSUME TypeOK, phase = "read", Advance, UNCHANGED muxVars
    PROVE  \A k \in Key : Sampled(k)' = Sampled(k)
<1>1. SUFFICES ASSUME NEW m \in Mux
               PROVE  Start(m)' = Start(m)
  BY KeyParts DEF Sampled
<1>2. Channels[m] \in Nat \ {0} /\ current[m] \in -1..(Channels[m] - 1)
      /\ channel \in 0..(Channels[mux] - 1) /\ mux \in Int
  BY MuxFacts, MuxConstants DEF TypeOK, Mux
<1>3. current' = current
  BY DEF muxVars
<1>4. CASE m # mux
  BY <1>2, <1>3, <1>4 DEF Advance, Start, Steps
<1>5. CASE m = mux /\ channel < Channels[mux] - 1
  <2>1. mux' = mux /\ channel' = channel + 1 /\ phase' = "select"
    BY <1>2, <1>5 DEF Advance
  <2>. QED
    BY <1>3, <1>5, <2>1 DEF Start, Steps
<1>6. CASE m = mux /\ channel = Channels[mux] - 1
  <2>1. Steps(m)' = 0
    BY <1>2, <1>6 DEF Advance, Steps
  <2>2. Steps(m) = Channels[m]
    BY <1>2, <1>6 DEF Steps
  <2>3. (current[m] + 1 - Channels[m] + Channels[m]) % Channels[m]
           = (current[m] + 1 - 0 + Channels[m]) % Channels[m]
    BY <1>2, WholeRound
  <2>. QED
    BY <1>3, <2>1, <2>2, <2>3 DEF Start
<1>. QED
  BY <1>2, <1>4, <1>5, <1>6

\* The reading is that of the key sampled for the key the loops are at.
LEMMA ReadingOfSampled ==
    ASSUME TypeOK, Selected, phase = "read"
    PROVE  /\ Sampled(Here) \in Key
           /\ Reading = IF Sampled(Here) \in down THEN 1 ELSE 0
<1>1. mux \in Mux /\ channel \in 0..(Channels[mux] - 1)
  BY DEF TypeOK
<1>2. /\ Channels[mux] \in Nat \ {0}
      /\ current[mux] \in -1..(Channels[mux] - 1)
      /\ current[mux] >= 0
      /\ sel_lines[mux] = Pattern(current[mux])
  BY <1>1, MuxFacts DEF Selected
<1>3. current[mux] \in 0..(Channels[mux] - 1)
  BY <1>2
<1>4. Sampled(Here) = <<mux, current[mux]>>
  <2>1. Steps(mux) = channel + 1
    BY DEF Steps
  <2>2. (Start(mux) + channel) % Channels[mux] = current[mux]
    BY <1>1, <1>2, <2>1, StartArithmetic DEF Start
  <2>. QED
    BY <2>2 DEF Sampled, Here
<1>5. \A c \in 0..(Channels[mux] - 1) : sel_lines[mux] = Pattern(c) <=> c = current[mux]
  BY <1>1, <1>2, <1>3, LinesSuffice
<1>. QED
  BY <1>1, <1>3, <1>4, <1>5, KeyIntro DEF Reading

\* The account of the poll so far.
LEMMA NextAccounted ==
    ASSUME TypeOK, Counting, Selected, Accounted, [Next]_vars
    PROVE  Accounted'
<1>1. CASE PollStart
  <2>1. KeysBefore(Here)' = {}
    BY <1>1, FirstKey DEF PollStart, Here, KeysBefore
  <2>2. phase' # "idle" /\ bitmap' = {}
    BY <1>1 DEF PollStart
  <2>. QED
    BY <2>1, <2>2 DEF Accounted, Account
<1>2. CASE Select
  <2>1. \A k \in Key : Sampled(k)' = Sampled(k)
    BY <1>2, SelectKeeps
  <2>2. KeysBefore(Here)' = KeysBefore(Here) /\ KeysBefore(Here) \subseteq Key
    BY <1>2 DEF Select, Here, KeysBefore
  <2>3. phase # "idle" /\ phase' # "idle" /\ UNCHANGED <<disturbed, bitmap, down>>
    BY <1>2 DEF Select
  <2>. QED
    BY <2>1, <2>2, <2>3 DEF Accounted, Account, KeyIndex, KeysBefore
<1>3. CASE SelectFails
  BY <1>3 DEF SelectFails, Accounted
<1>4. CASE Sample
  <2>1. /\ phase = "read" /\ Store(Reading) /\ Advance /\ UNCHANGED muxVars
        /\ UNCHANGED <<down, disturbed>>
    BY <1>4 DEF Sample
  <2>2. \A k \in Key : Sampled(k)' = Sampled(k)
    BY <2>1, AdvanceKeeps
  <2>3. Here \in Key /\ key_index = KeyIndex(Here) /\ KeysBefore(Here) \subseteq Key
    BY <2>1, HereIsKey DEF Counting, KeysBefore
  <2>4. bitmap' = IF Sampled(Here) \in down THEN bitmap \cup {KeyIndex(Here)} ELSE bitmap
    BY <2>1, <2>3, ReadingOfSampled DEF Store
  <2>. DEFINE Hit(K) == {j \in K : Sampled(j) \in down}
              next == KeysBefore(Here) \cup {Here}
  <2>5. SUFFICES ASSUME ~ disturbed
                 PROVE  /\ phase' # "idle" => Account(KeysBefore(Here))'
                        /\ phase' = "idle" => Account(Key)'
    BY <2>1 DEF Accounted
  <2>6. bitmap = {KeyIndex(k) : k \in Hit(KeysBefore(Here))}
    BY <2>1, <2>5 DEF Accounted, Account
  <2>7. Hit(next) = IF Sampled(Here) \in down THEN Hit(KeysBefore(Here)) \cup {Here}
                    ELSE Hit(KeysBefore(Here))
    OBVIOUS
  <2>8. bitmap' = {KeyIndex(k) : k \in Hit(next)}
    BY <2>4, <2>6, <2>7
  <2>9. next \subseteq Key
    BY <2>3
  <2>10. Hit(next) = {j \in next : Sampled(j)' \in down'}
    BY <2>1, <2>2, <2>9
  <2>11. bitmap' = {KeyIndex(k) : k \in {j \in next : Sampled(j)' \in down'}}
    BY <2>8, <2>10
  <2>12. \/ phase' = "select" /\ KeysBefore(Here)' = next
         \/ phase' = "idle" /\ Key = next
    BY <2>1, AdvanceCounts
  <2>. QED
    BY <2>11, <2>12 DEF Account, KeyIndex, KeysBefore
<1>5. CASE SampleFails
  BY <1>5 DEF SampleFails, Accounted
<1>6. CASE \E k \in Key : KeyMoves(k)
  BY <1>6 DEF KeyMoves, Accounted
<1>7. CASE UNCHANGED vars
  BY <1>7 DEF vars, muxVars, scanVars, Accounted, Account, Sampled, Start, Steps,
              KeyIndex, KeysBefore, Here
<1>. QED
  BY <1>1, <1>2, <1>3, <1>4, <1>5, <1>6, <1>7 DEF Next

-----------------------------------------------------------------------------
\* Between polls, the keys of a mux are sampled for each other in turn.
LEMMA SampledRound ==
    ASSUME TypeOK, phase = "idle", NEW m \in Mux
    PROVE  LET K == {k \in Key : k[1] = m}
           IN  /\ \A k \in K : Sampled(k) \in K
               /\ \A j, k \in K : Sampled(j) = Sampled(k) => j = k
               /\ \A d \in K : \E k \in K : Sampled(k) = d
<1>. DEFINE K == {k \in Key : k[1] = m}
            n == Channels[m]
<1>1. n \in Nat \ {0} /\ current[m] \in -1..(n - 1)
  BY MuxFacts
<1>2. Start(m) \in 0..(n - 1)
  BY <1>1 DEF Start, Steps
<1>3. \A k \in K : k[2] \in 0..(n - 1) /\ k = <<m, k[2]>>
  BY KeyParts
<1>4. \A c \in 0..(n - 1) : <<m, c>> \in K
  BY KeyIntro
<1>5. \A k \in K : Sampled(k) = <<m, (Start(m) + k[2]) % n>>
  BY DEF Sampled
<1>. HIDE DEF K, n
<1>6. /\ \A i \in 0..(n - 1) : (Start(m) + i) % n \in 0..(n - 1)
      /\ \A i, j \in 0..(n - 1) : (Start(m) + i) % n = (Start(m) + j) % n => i = j
      /\ \A c \in 0..(n - 1) : \E i \in 0..(n - 1) : (Start(m) + i) % n = c
  BY <1>1, <1>2, Round
<1>7. \A k \in K : Sampled(k) \in K
  BY <1>3, <1>4, <1>5, <1>6
<1>8. \A j, k \in K : Sampled(j) = Sampled(k) => j = k
  BY <1>3, <1>5, <1>6
<1>9. ASSUME NEW d \in K
      PROVE  \E k \in K : Sampled(k) = d
  <2>1. PICK i \in 0..(n - 1) : (Start(m) + i) % n = d[2]
    BY <1>3, <1>6
  <2>2. <<m, i>> \in K /\ Sampled(<<m, i>>) = d
    BY <1>3, <1>4, <1>5, <2>1
  <2>. QED
    BY <2>2
<1>. QED
  BY <1>7, <1>8, <1>9 DEF K

\* Muxes that are parked are sampled channel by channel.
LEMMA IInvExact == IInv => BitmapExact
<1>1. SUFFICES ASSUME IInv, Undisturbed, ~ failed
               PROVE  bitmap = {KeyIndex(k) : k \in down}
  BY DEF BitmapExact
<1>2. TypeOK /\ phase = "idle" /\ Account(Key) /\ Positions
  BY <1>1 DEF IInv, Accounted, Undisturbed
<1>3. ASSUME NEW k \in Key
      PROVE  Sampled(k) = k
  <2>1. k[1] \in Mux /\ k[2] \in 0..(Channels[k[1]] - 1) /\ k = <<k[1], k[2]>>
    BY KeyParts
  <2>2. Channels[k[1]] \in Nat \ {0} /\ current[k[1]] \in {-1, Channels[k[1]] - 1}
    BY <1>2, <2>1, MuxFacts DEF Positions, Parked
  <2>3. Start(k[1]) = 0
    <3>. DEFINE n == Channels[k[1]]
    <3>1. Start(k[1]) = (current[k[1]] + 1 - 0 + n) % n
      BY <1>2 DEF Start, Steps
    <3>2. n % n = 0 /\ (n + n) % n = 0
      BY <2>2
    <3>3. current[k[1]] + 1 - 0 + n = n \/ current[k[1]] + 1 - 0 + n = n + n
      BY <2>2
    <3>. QED
      BY <3>1, <3>2, <3>3
  <2>4. (0 + k[2]) % Channels[k[1]] = k[2]
    BY <2>1, <2>2
  <2>. QED
    BY <2>1, <2>3, <2>4 DEF Sampled
<1>4. down \subseteq Key
  BY <1>2 DEF TypeOK
<1>5. {j \in Key : Sampled(j) \in down} = down
  BY <1>3, <1>4
<1>. QED
  BY <1>2, <1>5 DEF Account

\* A mux that is not parked is sampled all the same, in a rotated order.
LEMMA IInvCounts == IInv => CountExact
<1>1. SUFFICES ASSUME IInv, Undisturbed, NEW m \in Mux
               PROVE  Cardinality({k \in Key : k[1] = m /\ KeyIndex(k) \in bitmap})
                          = Cardinality({k \in down : k[1] = m})
  BY DEF CountExact
<1>2. TypeOK /\ phase = "idle" /\ Account(Key) /\ down \subseteq Key
  BY <1>1 DEF IInv, Accounted, Undisturbed, TypeOK
<1>. DEFINE K == {k \in Key : k[1] = m}
            found == {k \in Key : k[1] = m /\ KeyIndex(k) \in bitmap}
            pushed == {k \in down : k[1] = m}
            f == [k \in found |-> Sampled(k)]
<1>3. \A k \in Key : KeyIndex(k) \in bitmap <=> Sampled(k) \in down
  BY <1>2, KeyIndexInjective DEF Account
<1>4. /\ \A k \in K : Sampled(k) \in K
      /\ \A j, k \in K : Sampled(j) = Sampled(k) => j = k
      /\ \A d \in K : \E k \in K : Sampled(k) = d
  BY <1>2, SampledRound
<1>5. found = {k \in K : Sampled(k) \in down} /\ pushed = {k \in K : k \in down}
  BY <1>2, <1>3
<1>6. f \in [found -> pushed]
  BY <1>4, <1>5
<1>7. \A j, k \in found : f[j] = f[k] => j = k
  BY <1>4, <1>5
<1>8. \A d \in pushed : \E k \in found : f[k] = d
  BY <1>4, <1>5
<1>9. ExistsBijection(found, pushed)
  <2>1. f \in Bijection(found, pushed)
    BY <1>6, <1>7, <1>8, Fun_IsBij
  <2>. QED
    BY <2>1 DEF ExistsBijection
<1>10. IsFiniteSet(found)
  BY KeysFinite, FS_Subset
<1>. QED
  BY <1>9, <1>10, FS_Bijection

\* The initial state has the muxes parked.
LEMMA InitIInv ==
    ASSUME Init
    PROVE  IInv
<1>1. MuxTypeOK
  BY MuxConstants DEF Init, MuxInit, MuxTypeOK
<1>2. mux \in Mux /\ channel \in 0..(Channels[mux] - 1)
  BY MuxConstants DEF Init, Mux
<1>3. key_index \in 0..KeyCount
  BY KeysFinite, FS_CardinalityType DEF Init, KeyCount
<1>4. TypeOK
  BY <1>1, <1>2, <1>3 DEF Init, TypeOK
<1>5. Positions
  BY DEF Init, MuxInit, Positions, Parked
<1>. QED
  BY <1>4, <1>5 DEF Init, IInv, Counting, Selected, Accounted

\* Every step keeps the invariant.
LEMMA NextIInv ==
    ASSUME IInv, [Next]_vars
    PROVE  IInv'
  BY NextType, NextSelected, NextAccounted, NextPositions DEF IInv

\* The variables of the scan keep their types; above all, the key index stays
\* within the arrays it indexes.
THEOREM ScanTypeCorrect == Spec => []TypeOK
<1>1. Init => IInv
  BY InitIInv
<1>2. IInv /\ [Next]_vars => IInv'
  BY NextIInv
<1>3. IInv => TypeOK
  BY DEF IInv
<1>. QED
  BY <1>1, <1>2, <1>3, PTL DEF Spec

\* Every sample is taken from the key it is stored for until a select fails.
THEOREM ScanAligned == Spec => []ReadsOwnKey
<1>1. Init => IInv
  BY InitIInv
<1>2. IInv /\ [Next]_vars => IInv'
  BY NextIInv
<1>3. IInv => ReadsOwnKey
  BY DEF IInv, Positions, Selected, ReadsOwnKey
<1>. QED
  BY <1>1, <1>2, <1>3, PTL DEF Spec

\* Until a select fails, a poll that nothing disturbs finds exactly the keys
\* that are down.
THEOREM ScanExact == Spec => []BitmapExact
<1>1. Init => IInv
  BY InitIInv
<1>2. IInv /\ [Next]_vars => IInv'
  BY NextIInv
<1>3. IInv => BitmapExact
  BY IInvExact
<1>. QED
  BY <1>1, <1>2, <1>3, PTL DEF Spec

\* Whatever selects have failed, such a poll finds as many keys of each mux
\* as are down.
THEOREM ScanCounts == Spec => []CountExact
<1>1. Init => IInv
  BY InitIInv
<1>2. IInv /\ [Next]_vars => IInv'
  BY NextIInv
<1>3. IInv => CountExact
  BY IInvCounts
<1>. QED
  BY <1>1, <1>2, <1>3, PTL DEF Spec
=============================================================================
