--------------------------- MODULE UdpControlProofs ---------------------------
(***************************************************************************)
(* For every range of the mixer of which a percentage is an int, every set *)
(* of numbers and every length of an int: turning the volume up never      *)
(* makes it softer, turning it down never louder, but for a reading that   *)
(* failed and a sum that wraps.                                            *)
(*                                                                         *)
(* The property is about steps from states whose level lies in the         *)
(* control's range; LevelOK, which is inductive, says that all do.         *)
(* Timers, the quick starts and the settings have parts of their own       *)
(* below; those of the settings are about SettingsSpec, and say for every  *)
(* set of ports a user may type and every length of the trial that the     *)
(* remote control remembers the port it was started with and starts again  *)
(* with it, and that a registration stays.                                 *)
(***************************************************************************)
EXTENDS QuickStarts, UdpSettings, TLAPS

LevelOK == endpoint \in BOOLEAN /\ level \in 0 .. Scale(endpoint)

\* The quotient and what multiplication says of it.
LEMMA Quotient ==
    ASSUME NEW a \in Nat, NEW b \in Nat \ {0}
    PROVE  /\ a \div b \in Nat
           /\ b * (a \div b) <= a
           /\ a < b * (a \div b) + b
BY SMT

LEMMA ProductMonotone ==
    ASSUME NEW a \in Nat, NEW b \in Nat, NEW c \in Nat, a <= b
    PROVE  a * c <= b * c
<1>1. PICK d \in Nat : b = a + d
  BY b - a \in Nat, SMT
<1>2. b * c = a * c + d * c
  BY <1>1, SMT
<1>3. d * c \in Nat /\ a * c \in Nat
  BY SMT
<1> QED BY <1>2, <1>3

\* A control that is not read counts as 100 percent or more.
LEMMA UnreadableHigh == Unreadable \in Nat /\ Unreadable >= 100 /\ Unreadable <= IntMax
<1>1. /\ MixerMax \in Nat /\ MixerMax >= 2 /\ Wide \in Nat
      /\ 100 * MixerMax < Wide \div 2
  BY VolumeAssumption
<1>2. PICK h \in Nat : h = Wide \div 2 /\ 2 * h <= Wide /\ Wide <= 2 * h + 1
  BY <1>1
<1>3. PICK n \in Nat : n = Wide - 100
  BY <1>1, <1>2
<1>4. /\ n \div MixerMax \in Nat
      /\ MixerMax * (n \div MixerMax) <= n
      /\ n < MixerMax * (n \div MixerMax) + MixerMax
  BY <1>1, Quotient
<1>5. PICK q \in Nat : q = n \div MixerMax
  BY <1>4
<1>6. Unreadable = q /\ MixerMax * q <= n /\ n < MixerMax * q + MixerMax
  BY <1>3, <1>4, <1>5 DEF Unreadable
<1>7. q >= 100
  <2> SUFFICES ASSUME q <= 99 PROVE FALSE
    OBVIOUS
  <2>1. q * MixerMax <= 99 * MixerMax
    BY <1>1, 99 \in Nat, ProductMonotone
  <2>2. q * MixerMax = MixerMax * q
    BY <1>1
  <2>3. PICK p \in Nat : p = MixerMax * q
    BY <1>1
  <2> QED BY <1>1, <1>2, <1>3, <1>6, <2>1, <2>2, <2>3
<1>8. 2 * q <= n
  <2>1. 2 * q <= MixerMax * q
    BY <1>1, ProductMonotone
  <2>2. MixerMax * q \in Nat
    BY <1>1
  <2> QED BY <1>6, <2>1, <2>2
<1> QED BY <1>1, <1>2, <1>3, <1>6, <1>7, <1>8 DEF IntMax

LEMMA ClampedRange == \A v \in Int : Clamped(v) \in 0 .. 100
BY DEF Clamped

LEMMA ScaleNat == Scale(endpoint) \in Nat \ {0} /\ Scale(TRUE) = 100 /\ Scale(FALSE) = MixerMax
BY VolumeAssumption DEF Scale

LEMMA MixerLevel == \A v : LevelOf(FALSE, v) = (Clamped(v) * MixerMax) \div 100
BY DEF LevelOf, Scale

\* A percentage above that of a level is set to that level at least, and one not above it
\* to that level at most.
LEMMA MixerUp ==
    ASSUME NEW l \in 0 .. MixerMax, NEW v \in Int, v > (l * 100) \div MixerMax
    PROVE  LevelOf(FALSE, v) >= l
<1> DEFINE r == (l * 100) \div MixerMax
<1>1. MixerMax \in Nat \ {0} /\ l \in Nat
  BY VolumeAssumption
<1>2. r \in Nat /\ l * 100 < MixerMax * r + MixerMax
  BY <1>1, Quotient
<1>3. v \in Nat /\ r + 1 <= v /\ (v > 100 \/ v <= 100)
  BY <1>2
<1> HIDE DEF r
<1>4. CASE v > 100
  <2>1. Clamped(v) = 100
    BY <1>3, <1>4 DEF Clamped
  <2>2. LevelOf(FALSE, v) = (100 * MixerMax) \div 100
    BY <2>1, MixerLevel, Zenon
  <2>3. (100 * MixerMax) \div 100 = MixerMax
    BY <1>1
  <2>4. MixerMax >= l
    BY <1>1
  <2> QED BY <2>2, <2>3, <2>4, Zenon
<1>5. CASE v <= 100
  <2>1. LevelOf(FALSE, v) = (v * MixerMax) \div 100
    <3>1. Clamped(v) = v
      BY <1>3, <1>5 DEF Clamped
    <3> QED BY <3>1, MixerLevel
  <2>2. (r + 1) * MixerMax <= v * MixerMax
    BY <1>1, <1>2, <1>3, ProductMonotone
  <2>3. (r + 1) * MixerMax = MixerMax * r + MixerMax
    BY <1>1, <1>2, SMT
  <2>4. v * MixerMax \in Nat
    BY <1>1, <1>3, SMT
  <2>5. l * 100 < v * MixerMax
    BY <1>1, <1>2, <2>2, <2>3, <2>4, MixerMax * r \in Int, SMT
  <2> DEFINE w == v * MixerMax
  <2>6. w \in Nat /\ l * 100 < w
    BY <2>4, <2>5
  <2> HIDE DEF w
  <2>7. w \div 100 >= l
    BY <1>1, <2>6
  <2>8. (v * MixerMax) \div 100 >= l
    BY <2>7 DEF w
  <2> QED BY <2>1, <2>8, Zenon
<1> QED BY <1>3, <1>4, <1>5, Zenon

LEMMA MixerDown ==
    ASSUME NEW l \in 0 .. MixerMax, NEW v \in Int, v <= (l * 100) \div MixerMax
    PROVE  LevelOf(FALSE, v) <= l
<1> DEFINE r == (l * 100) \div MixerMax
           c == Clamped(v)
<1>1. MixerMax \in Nat \ {0} /\ l \in Nat
  BY VolumeAssumption
<1>2. r \in Nat /\ MixerMax * r <= l * 100
  BY <1>1, Quotient
<1>3. c \in Nat /\ c <= r
  BY <1>2 DEF Clamped
<1>4. LevelOf(FALSE, v) = (c * MixerMax) \div 100
  BY MixerLevel
<1> HIDE DEF r, c
<1>5. c * MixerMax <= r * MixerMax
  BY <1>1, <1>2, <1>3, ProductMonotone
<1>6. r * MixerMax = MixerMax * r /\ r * MixerMax \in Nat /\ c * MixerMax \in Nat
  BY <1>1, <1>2, <1>3, SMT
<1>7. c * MixerMax <= l * 100
  BY <1>1, <1>2, <1>5, <1>6
<1> DEFINE w == c * MixerMax
<1>8. w \in Nat /\ w <= l * 100
  BY <1>6, <1>7
<1> HIDE DEF w
<1>9. w \div 100 <= l
  BY <1>1, <1>8
<1> QED BY <1>4, <1>9 DEF w

\* With an endpoint the level is the percentage.
LEMMA EndpointLevel == \A v \in Int : LevelOf(TRUE, v) = Clamped(v)
<1> TAKE v \in Int
<1> DEFINE c == Clamped(v)
<1>1. c \in 0 .. 100
  BY ClampedRange
<1>2. LevelOf(TRUE, v) = (c * 100) \div 100
  BY DEF LevelOf, Scale
<1> HIDE DEF c
<1>3. (c * 100) \div 100 = c
  BY <1>1
<1> QED BY <1>2, <1>3 DEF c

LEMMA LevelRange ==
    ASSUME LevelOK, NEW v \in Int
    PROVE  LevelOf(endpoint, v) \in 0 .. Scale(endpoint)
<1>1. CASE endpoint = TRUE
  BY <1>1, EndpointLevel, ClampedRange, ScaleNat
<1>2. CASE endpoint = FALSE
  <2>1. MixerMax \in 0 .. MixerMax /\ MixerMax \in Nat \ {0}
    BY VolumeAssumption
  <2> DEFINE c == Clamped(v)
  <2>2. c \in 0 .. 100
    BY ClampedRange
  <2>3. LevelOf(FALSE, v) = (c * MixerMax) \div 100
    BY MixerLevel
  <2> HIDE DEF c
  <2>4. c * MixerMax <= 100 * MixerMax
    BY <2>1, <2>2, ProductMonotone
  <2>5. c * MixerMax \in Nat
    BY <2>1, <2>2, SMT
  <2> DEFINE w == c * MixerMax
  <2>6. w \in Nat /\ w <= 100 * MixerMax
    BY <2>4, <2>5
  <2> HIDE DEF w
  <2>7. w \div 100 \in 0 .. MixerMax
    BY <2>1, <2>6
  <2> QED BY <1>2, <2>3, <2>7, ScaleNat DEF w
<1> QED BY <1>1, <1>2 DEF LevelOK

-----------------------------------------------------------------------------
LEMMA DeltaPositive == \A m : Delta(m) \in Nat /\ Delta(m) >= 1
<1> TAKE m
<1>1. CASE HasNumber(m)
  <2>1. m.tail \in 1 .. Word \div 2 - 1
    BY <1>1, CommandsAssumption DEF HasNumber
  <2>2. Word \div 2 - 1 \in Int
    BY CommandsAssumption
  <2> QED BY <1>1, <2>1, <2>2 DEF Delta
<1>2. CASE ~HasNumber(m)
  BY <1>2 DEF Delta
<1> QED BY <1>1, <1>2

\* Numbers are ints, so the sum of a percentage and a number is one as long as the number
\* is not within 100 of the greatest, and a difference always is.
LEMMA DeltaInt == \A m : Delta(m) <= IntMax
<1> TAKE m
<1>1. /\ Wide \in Nat /\ Word \in Nat /\ Word <= Wide
      /\ IntMax \in Int /\ IntMax >= 1 /\ Word \div 2 - 1 <= IntMax
  BY VolumeAssumption, CommandsAssumption DEF IntMax
<1>2. CASE HasNumber(m)
  <2>1. m.tail \in 1 .. Word \div 2 - 1
    BY <1>2, CommandsAssumption DEF HasNumber
  <2> QED BY <1>1, <1>2, <2>1 DEF Delta
<1>3. CASE ~HasNumber(m)
  BY <1>1, <1>3 DEF Delta
<1> QED BY <1>2, <1>3

LEMMA WrappedInt == \A n \in Int : Wrapped(n) \in Int /\ (n <= IntMax => Wrapped(n) = n)
BY VolumeAssumption DEF Wrapped, IntMax

\* A sum that wraps is below 0, and takes a number within 100 of the greatest int.
LEMMA SumWraps ==
    ASSUME NEW r \in Nat, NEW d \in Nat, r < 100, d <= IntMax, r + d > IntMax
    PROVE  Wrapped(r + d) < 0 /\ d > IntMax - 100
<1>1. Wide \in Nat /\ IntMax \in Int /\ IntMax >= 100 /\ 2 * IntMax + 2 <= Wide
  BY VolumeAssumption DEF IntMax
<1>2. Wrapped(r + d) = r + d - Wide
  BY <1>1 DEF Wrapped
<1> QED BY <1>1, <1>2

LEMMA SilentLevel == \A v \in Int : v < 0 => LevelOf(endpoint, v) = 0
<1> TAKE v \in Int
<1> HAVE v < 0
<1>1. Clamped(v) = 0
  BY DEF Clamped
<1>2. LevelOf(endpoint, v) = (0 * Scale(endpoint)) \div 100
  BY <1>1 DEF LevelOf
<1>3. PICK sc \in Nat : sc = Scale(endpoint)
  BY ScaleNat
<1>4. (0 * sc) \div 100 = 0
  OBVIOUS
<1> QED BY <1>2, <1>3, <1>4

LEMMA ReadingNat ==
    ASSUME LevelOK
    PROVE  GetVolume(endpoint, level) \subseteq Nat
<1>1. CASE endpoint = TRUE
  BY <1>1 DEF GetVolume, Readings, Failures
<1>2. CASE endpoint = FALSE
  <2>1. level \in Nat /\ level * 100 \in Nat /\ MixerMax \in Nat \ {0}
    BY <1>2, VolumeAssumption DEF LevelOK, Scale
  <2>2. (level * 100) \div MixerMax \in Nat
    BY <2>1, Quotient
  <2> QED BY <1>2, <2>2, UnreadableHigh DEF GetVolume, Readings, Failures
<1> QED BY <1>1, <1>2 DEF LevelOK

LEMMA ReadingInt ==
    ASSUME LevelOK, NEW r \in GetVolume(endpoint, level)
    PROVE  r <= IntMax
<1>1. IntMax \in Int /\ IntMax >= 100
  BY VolumeAssumption DEF IntMax
<1>2. CASE r \in Failures(endpoint)
  BY <1>1, <1>2, UnreadableHigh DEF Failures
<1>3. CASE r \in Readings(endpoint, level) /\ endpoint = TRUE
  BY <1>1, <1>3 DEF Readings, LevelOK, Scale
<1>4. CASE r \in Readings(endpoint, level) /\ endpoint = FALSE
  <2>1. level \in Nat /\ level <= MixerMax /\ MixerMax \in Nat \ {0}
    BY <1>4, VolumeAssumption DEF LevelOK, Scale
  <2>2. PICK q \in Nat : q = (level * 100) \div MixerMax /\ MixerMax * q <= level * 100
    BY <2>1, Quotient
  <2>3. q <= 100
    <3> SUFFICES ASSUME 101 <= q PROVE FALSE
      BY <2>2
    <3>1. 101 * MixerMax <= q * MixerMax
      BY <2>1, <2>2, ProductMonotone
    <3>2. q * MixerMax = MixerMax * q /\ MixerMax * q \in Nat
      BY <2>1, <2>2
    <3> QED BY <2>1, <2>2, <3>1, <3>2
  <2> QED BY <1>1, <1>4, <2>2, <2>3 DEF Readings
<1> QED BY <1>2, <1>3, <1>4 DEF GetVolume, LevelOK

\* The step up from a reading.
LEMMA TurnedUp ==
    ASSUME LevelOK, NEW m, TurnVolume(m, 1), level' < level
    PROVE  \/ level' = LevelOf(endpoint, Delta(m))
           \/ level' = 0 /\ Delta(m) > IntMax - 100
<1>1. PICK read \in GetVolume(endpoint, level) :
         IF read >= 100 THEN UNCHANGED level
         ELSE level' \in SetVolume(endpoint, level, Wrapped(read + 1 * Delta(m)))
  BY DEF TurnVolume
<1> DEFINE d == Delta(m)
<1>2. d \in Nat /\ d >= 1 /\ read \in Nat
  BY DeltaPositive, ReadingNat
<1>3. ~(level' = level) /\ level \in Nat
  BY ScaleNat DEF LevelOK
<1>4. read < 100 /\ level' = LevelOf(endpoint, Wrapped(read + d))
  <2>1. ~(read >= 100) /\ level' \in SetVolume(endpoint, level, Wrapped(read + 1 * d))
    BY <1>1, <1>3
  <2>2. read + 1 * d = read + d
    BY <1>2
  <2> QED BY <1>2, <1>3, <2>1, <2>2 DEF SetVolume
<1>5. d <= IntMax /\ IntMax \in Int
  BY DeltaInt, VolumeAssumption DEF IntMax
<1> HIDE DEF d
<1>6. CASE read + d > IntMax
  <2>1. Wrapped(read + d) < 0 /\ d > IntMax - 100 /\ Wrapped(read + d) \in Int
    <3>1. read + d \in Int /\ read < 100 /\ read \in Nat /\ d \in Nat
      BY <1>2, <1>4
    <3>2. Wrapped(read + d) \in Int
      BY <3>1, WrappedInt
    <3> QED BY <1>5, <1>6, <3>1, <3>2, SumWraps
  <2> QED BY <1>4, <2>1, SilentLevel DEF d
<1>7. CASE ~(read + d > IntMax)
  <2>4. read < 100 /\ level' = LevelOf(endpoint, read + d)
    BY <1>2, <1>4, <1>5, <1>7, WrappedInt
  <2>5. read \notin Readings(endpoint, level)
    <3> SUFFICES ASSUME read \in Readings(endpoint, level) PROVE FALSE
      OBVIOUS
    <3>1. CASE endpoint = TRUE
      <4>1. read >= level - 1 /\ level <= 100
        BY <1>3, <3>1 DEF Readings, LevelOK, Scale
      <4>2. read + d \in Int
        BY <1>2
      <4>3. LevelOf(TRUE, read + d) = Clamped(read + d)
        BY <4>2, EndpointLevel
      <4>4. level' = Clamped(read + d)
        BY <2>4, <3>1, <4>3
      <4> QED BY <1>2, <1>3, <4>1, <4>4 DEF Clamped
    <3>2. CASE endpoint = FALSE
      <4>1. read = (level * 100) \div MixerMax /\ level \in 0 .. MixerMax
        BY <3>2 DEF Readings, LevelOK, Scale
      <4>2. read + d \in Int /\ read + d > (level * 100) \div MixerMax
        BY <1>2, <4>1
      <4>3. LevelOf(FALSE, read + d) >= level
        BY <4>1, <4>2, MixerUp
      <4>4. level' \in Nat
        BY <2>4, <4>2, LevelRange, ScaleNat
      <4>5. level' >= level
        BY <2>4, <3>2, <4>3, Zenon
      <4> QED BY <1>3, <4>4, <4>5
    <3> QED BY <3>1, <3>2 DEF LevelOK
  <2>6. read = 0
    BY <2>4, <2>5, UnreadableHigh DEF GetVolume, Failures
  <2> QED BY <1>2, <2>4, <2>6 DEF d
<1> QED BY <1>6, <1>7

\* The step down from a reading.
LEMMA TurnedDown ==
    ASSUME LevelOK, NEW m, TurnVolume(m, -1), level' > level
    PROVE  ~endpoint /\ level' = LevelOf(endpoint, Unreadable - Delta(m))
<1>1. PICK read \in GetVolume(endpoint, level) :
         IF read <= 0 THEN UNCHANGED level
         ELSE level' \in SetVolume(endpoint, level, Wrapped(read + (-1) * Delta(m)))
  BY DEF TurnVolume
<1> DEFINE d == Delta(m)
<1>2. d \in Nat /\ d >= 1 /\ read \in Nat
  BY DeltaPositive, ReadingNat
<1>3. ~(level' = level) /\ level \in Nat
  BY ScaleNat DEF LevelOK
<1>4. read > 0 /\ level' = LevelOf(endpoint, read - d)
  <2>1. ~(read <= 0) /\ level' \in SetVolume(endpoint, level, Wrapped(read + (-1) * d))
    BY <1>1, <1>3
  <2>2. Wrapped(read + (-1) * d) = read - d
    <3>1. read + (-1) * d = read - d /\ read - d \in Int /\ read - d < read
      BY <1>2
    <3>2. read <= IntMax /\ IntMax \in Int
      BY ReadingInt, VolumeAssumption DEF IntMax
    <3> QED BY <1>2, <3>1, <3>2, WrappedInt
  <2> QED BY <1>2, <1>3, <2>1, <2>2 DEF SetVolume
<1> HIDE DEF d
<1>5. read \notin Readings(endpoint, level)
  <2> SUFFICES ASSUME read \in Readings(endpoint, level) PROVE FALSE
    OBVIOUS
  <2>1. CASE endpoint = TRUE
    <3>1. read <= level
      BY <1>3, <2>1 DEF Readings
    <3>2. read - d \in Int
      BY <1>2
    <3>3. LevelOf(TRUE, read - d) = Clamped(read - d)
      BY <3>2, EndpointLevel
    <3>4. level' = Clamped(read - d)
      BY <1>4, <2>1, <3>3
    <3> QED BY <1>2, <1>3, <3>1, <3>4 DEF Clamped
  <2>2. CASE endpoint = FALSE
    <3>1. read = (level * 100) \div MixerMax /\ level \in 0 .. MixerMax
      BY <2>2 DEF Readings, LevelOK, Scale
    <3>2. read - d \in Int /\ read - d <= (level * 100) \div MixerMax
      BY <1>2, <3>1
    <3>3. LevelOf(FALSE, read - d) <= level
      BY <3>1, <3>2, MixerDown
    <3>4. level' \in Nat
      BY <1>4, <3>2, LevelRange, ScaleNat
    <3>5. level' <= level
      BY <1>4, <2>2, <3>3, Zenon
    <3> QED BY <1>3, <3>4, <3>5
  <2> QED BY <2>1, <2>2 DEF LevelOK
<1>6. read \in Failures(endpoint) /\ read # 0
  BY <1>4, <1>5 DEF GetVolume
<1>7. ~endpoint /\ read = Unreadable
  BY <1>6 DEF Failures, LevelOK
<1> QED BY <1>4, <1>7 DEF d

-----------------------------------------------------------------------------
\* A word that is in the table once is looked up, and nothing else is.
LEMMA FindsWord ==
    ASSUME NEW m \in Texts, NEW i \in DOMAIN cmds, m.word = cmds[i],
           \A j \in DOMAIN cmds : cmds[j] = cmds[i] => j = i,
           FindCmd[m] # None
    PROVE  FindCmd[m] = m.word
<1> DEFINE found == {j \in DOMAIN cmds : Matches(m, j)}
<1>1. FindCmd[m] = IF found = {} THEN None ELSE cmds[Min(found)]
  BY DEF FindCmd
<1>2. found # {} /\ FindCmd[m] = cmds[Min(found)]
  BY <1>1
<1>3. found = {i}
  BY <1>2 DEF Matches
<1>4. Min({i}) = i
  BY DEF Min
<1> QED BY <1>2, <1>3, <1>4, Zenon

\* The table, entry by entry.
LEMMA CmdsTable ==
    /\ DOMAIN cmds = 1 .. 16
    /\ cmds[1] = "poweroff:" /\ cmds[2] = "reboot:" /\ cmds[3] = "cmd:"
    /\ cmds[4] = "cmdname:" /\ cmds[5] = "ppt:" /\ cmds[6] = "src"
    /\ cmds[7] = "volume+" /\ cmds[8] = "volume-" /\ cmds[9] = "ctrl+"
    /\ cmds[10] = "shift+" /\ cmds[11] = "alt+" /\ cmds[12] = "win+"
    /\ cmds[13] = "test" /\ cmds[14] = "cancel poweroff" /\ cmds[15] = "cancel reboot"
    /\ cmds[16] = "key"
BY DEF cmds

LEMMA VolumeEntries ==
    /\ \A j \in DOMAIN cmds : cmds[j] = "volume+" => j = 7
    /\ \A j \in DOMAIN cmds : cmds[j] = "volume-" => j = 8
<1> SUFFICES ASSUME NEW j \in 1 .. 16
             PROVE  (cmds[j] = "volume+" => j = 7) /\ (cmds[j] = "volume-" => j = 8)
  BY CmdsTable
<1>1. \/ j = 1 \/ j = 2 \/ j = 3 \/ j = 4 \/ j = 5 \/ j = 6 \/ j = 7 \/ j = 8
      \/ j = 9 \/ j = 10 \/ j = 11 \/ j = 12 \/ j = 13 \/ j = 14 \/ j = 15 \/ j = 16
  OBVIOUS
<1>2. CASE j = 1 \/ j = 2 \/ j = 3 \/ j = 4 \/ j = 5 \/ j = 6 \/ j = 7 \/ j = 8
  BY <1>2, CmdsTable
<1>3. CASE j = 9 \/ j = 10 \/ j = 11 \/ j = 12 \/ j = 13 \/ j = 14 \/ j = 15 \/ j = 16
  BY <1>3, CmdsTable
<1> QED BY <1>1, <1>2, <1>3

LEMMA NoneIsNoEntry ==
    /\ None # "poweroff:" /\ None # "reboot:" /\ None # "cmd:" /\ None # "cmdname:"
    /\ None # "ppt:" /\ None # "src" /\ None # "volume+" /\ None # "volume-"
    /\ None # "ctrl+" /\ None # "shift+" /\ None # "alt+" /\ None # "win+"
    /\ None # "test" /\ None # "cancel poweroff" /\ None # "cancel reboot" /\ None # "key"
<1>1. \A n \in 1 .. 16 : cmds[n] # None
  BY CmdsTable, NoEntryIsNone
<1>2. /\ 1 \in 1 .. 16 /\ 2 \in 1 .. 16 /\ 3 \in 1 .. 16 /\ 4 \in 1 .. 16 /\ 5 \in 1 .. 16
      /\ 6 \in 1 .. 16 /\ 7 \in 1 .. 16 /\ 8 \in 1 .. 16 /\ 9 \in 1 .. 16 /\ 10 \in 1 .. 16
      /\ 11 \in 1 .. 16 /\ 12 \in 1 .. 16 /\ 13 \in 1 .. 16 /\ 14 \in 1 .. 16
      /\ 15 \in 1 .. 16 /\ 16 \in 1 .. 16
  OBVIOUS
<1> QED BY <1>1, <1>2, CmdsTable, ZenonT(30)

LEMMA VolumeTexts ==
    /\ \A m \in TextsOf({"volume+"}) : Execute(m) =>
            TurnVolume(m, 1) \/ UNCHANGED level
    /\ \A m \in TextsOf({"volume-"}) : Execute(m) =>
            TurnVolume(m, -1) \/ UNCHANGED level
<1>1. ASSUME NEW m \in TextsOf({"volume+"}), Execute(m)
      PROVE  TurnVolume(m, 1) \/ UNCHANGED level
  <2>1. m \in Texts /\ m.word = "volume+"
    BY DEF TextsOf, Texts
  <2>2. 7 \in DOMAIN cmds /\ cmds[7] = "volume+"
        /\ \A j \in DOMAIN cmds : cmds[j] = "volume+" => j = 7
    <3>1. 7 \in 1 .. 16
      OBVIOUS
    <3> QED BY <3>1, VolumeEntries, CmdsTable, Zenon
  <2>3. FindCmd[m] \in {None, "volume+"}
    BY <2>1, <2>2, FindsWord
  <2>4. CASE FindCmd[m] = None
    BY <1>1, <2>4, NoneIsNoEntry, Zenon DEF Execute, Refuse, effects
  <2>5. CASE FindCmd[m] = "volume+"
    BY <1>1, <2>5, NoneIsNoEntry, Zenon DEF Execute
  <2> QED BY <2>3, <2>4, <2>5
<1>2. ASSUME NEW m \in TextsOf({"volume-"}), Execute(m)
      PROVE  TurnVolume(m, -1) \/ UNCHANGED level
  <2>1. m \in Texts /\ m.word = "volume-"
    BY DEF TextsOf, Texts
  <2>2. 8 \in DOMAIN cmds /\ cmds[8] = "volume-"
        /\ \A j \in DOMAIN cmds : cmds[j] = "volume-" => j = 8
    <3>1. 8 \in 1 .. 16
      OBVIOUS
    <3> QED BY <3>1, VolumeEntries, CmdsTable, Zenon
  <2>3. FindCmd[m] \in {None, "volume-"}
    BY <2>1, <2>2, FindsWord
  <2>4. CASE FindCmd[m] = None
    BY <1>2, <2>4, NoneIsNoEntry, Zenon DEF Execute, Refuse, effects
  <2>5. CASE FindCmd[m] = "volume-"
    BY <1>2, <2>5, NoneIsNoEntry, Zenon DEF Execute
  <2> QED BY <2>3, <2>4, <2>5
<1> QED BY <1>1, <1>2

LEMMA TurnedKeeps ==
    ASSUME LevelOK, NEW m, NEW sign \in {1, -1}, TurnVolume(m, sign)
    PROVE  level' \in 0 .. Scale(endpoint)
<1>1. PICK read \in GetVolume(endpoint, level) :
         \/ UNCHANGED level
         \/ level' \in SetVolume(endpoint, level, Wrapped(read + sign * Delta(m)))
  BY DEF TurnVolume
<1>2. Wrapped(read + sign * Delta(m)) \in Int
  <2>1. read \in Nat /\ Delta(m) \in Nat
    BY DeltaPositive, ReadingNat
  <2>2. read + sign * Delta(m) \in Int
    BY <2>1
  <2> QED BY <2>2, WrappedInt
<1> QED BY <1>1, <1>2, LevelRange DEF SetVolume, LevelOK

LEMMA ExecuteLevel ==
    ASSUME NEW m, Execute(m)
    PROVE  UNCHANGED endpoint /\ (UNCHANGED level \/ TurnVolume(m, 1) \/ TurnVolume(m, -1))
BY DEF Execute, config, Refuse, effects, history, SetShutdown, CancelShutdown, Launch, CmdName,
       JumpPPT, ScreenSaver, Test, Shortcut

LEMMA InitLevel == Init => LevelOK
<1> SUFFICES ASSUME Init PROVE LevelOK
  OBVIOUS
<1>1. Scale(endpoint) \in Nat \ {0}
  BY ScaleNat
<1> QED BY <1>1 DEF Init, LevelOK

LEMMA NextLevel == LevelOK /\ [Next]_vars => LevelOK'
<1> SUFFICES ASSUME LevelOK, [Next]_vars PROVE LevelOK'
  OBVIOUS
<1>1. ASSUME UNCHANGED endpoint, level' \in 0 .. Scale(endpoint)
      PROVE  LevelOK'
  BY <1>1 DEF LevelOK, Scale
<1>2. ASSUME NEW m \in Texts, Execute(m)
      PROVE  LevelOK'
  BY <1>1, <1>2, ExecuteLevel, TurnedKeeps DEF LevelOK
<1>3. ASSUME NEW k \in Shutdown, OnTimer(k)
      PROVE  LevelOK'
  BY <1>1, <1>3 DEF OnTimer, config, LevelOK
<1>4. CASE Tick
  BY <1>1, <1>4 DEF Tick, config, LevelOK
<1>5. CASE WindowEnds
  BY <1>1, <1>5 DEF WindowEnds, config, LevelOK
<1>6. CASE UNCHANGED vars
  BY <1>1, <1>6 DEF vars, config, effects, LevelOK
<1> QED BY <1>2, <1>3, <1>4, <1>5, <1>6 DEF Next, Commands

\* "volume+" never makes it softer and "volume-" never louder, for any range of the mixer
\* of which a percentage is an int and any number that follows the word, but for a reading
\* that failed and a sum that wraps.
THEOREM VolumeTurnsRight == Spec => VolumeDirection
<1>1. LevelOK /\ [Next]_vars =>
        [/\ level' < level => \A m \in TextsOf({"volume+"}) :
                Execute(m) => \/ level' = LevelOf(endpoint, Delta(m))
                              \/ level' = 0 /\ Delta(m) > IntMax - 100
         /\ level' > level => \A m \in TextsOf({"volume-"}) :
                Execute(m) => ~endpoint /\ level' = LevelOf(endpoint, Unreadable - Delta(m))]_vars
  <2> SUFFICES ASSUME LevelOK
               PROVE  /\ level' < level => \A m \in TextsOf({"volume+"}) :
                            Execute(m) => \/ level' = LevelOf(endpoint, Delta(m))
                                          \/ level' = 0 /\ Delta(m) > IntMax - 100
                      /\ level' > level => \A m \in TextsOf({"volume-"}) :
                            Execute(m) => ~endpoint /\ level' = LevelOf(endpoint, Unreadable - Delta(m))
    OBVIOUS
  <2>1. level \in Int
    BY ScaleNat DEF LevelOK
  <2>2. ASSUME level' < level, NEW m \in TextsOf({"volume+"}), Execute(m)
        PROVE  \/ level' = LevelOf(endpoint, Delta(m))
               \/ level' = 0 /\ Delta(m) > IntMax - 100
    <3>1. level' # level
      BY <2>1, <2>2
    <3> QED BY <2>2, <3>1, VolumeTexts, TurnedUp
  <2>3. ASSUME level' > level, NEW m \in TextsOf({"volume-"}), Execute(m)
        PROVE  ~endpoint /\ level' = LevelOf(endpoint, Unreadable - Delta(m))
    <3>1. level' # level
      BY <2>1, <2>3
    <3> QED BY <2>3, <3>1, VolumeTexts, TurnedDown
  <2> QED BY <2>2, <2>3
<1> QED BY <1>1, InitLevel, NextLevel, PTL DEF Spec, VolumeDirection

-----------------------------------------------------------------------------
\* While the machine is up, a timer that is set leaves the sender at least what was
\* granted; once it is down, what was granted is over.
TimersOK ==
    /\ timer \in [Shutdown -> Nat \union {None}]
    /\ asked \in [Shutdown -> Nat \union {None}]
    /\ \A k \in Shutdown : timer[k] # None => asked[k] # None /\ asked[k] <= timer[k]

\* The interval is never shorter than what was granted.
LEMMA ElapseGrants ==
    ASSUME NEW n \in Number
    PROVE  Elapse(n) \in Nat /\ Granted(n) \in Nat /\ Granted(n) <= Elapse(n)
<1> DEFINE p == n * Second
           half == Word \div 2
<1>1. n \in Nat /\ n >= 1 /\ Second \in Nat \ {0} /\ Word \in Nat \ {0}
  BY CommandsAssumption
<1>2. p \in Nat
  BY <1>1, SMT
<1>3. half \in Nat /\ half <= Word /\ (Word >= 2 => half >= 1)
  BY <1>1
<1>4. Granted(n) = (IF p < half THEN p ELSE 0)
  BY DEF Granted
<1>5. Elapse(n) = IF p % Word < 1 THEN 1 ELSE IF p % Word > half - 1 THEN half - 1 ELSE p % Word
  BY DEF Elapse
<1> HIDE DEF p, half
<1>6. p % Word \in Nat /\ p % Word < Word
  BY <1>1, <1>2
<1>7. CASE p < half
  <2>1. p % Word = p
    BY <1>1, <1>2, <1>3, <1>7
  <2> QED BY <1>2, <1>3, <1>4, <1>5, <1>7, <2>1
<1>8. CASE ~(p < half)
  BY <1>1, <1>3, <1>4, <1>5, <1>6, <1>8
<1> QED BY <1>7, <1>8

LEMMA InitTimers == Init => TimersOK /\ NotBeforeTime
BY DEF Init, TimersOK, NotBeforeTime

LEMMA SetKeepsTimers ==
    ASSUME TimersOK, NEW m, NEW k \in Shutdown, SetShutdown(m, k)
    PROVE  TimersOK' /\ UNCHANGED machine
<1>1. CASE Refuse
  BY <1>1 DEF Refuse, effects, history, TimersOK
<1>2. CASE HasNumber(m) /\ SetShutdown(m, k) /\ ~Refuse
  <2>1. m.tail \in Number
    BY <1>2 DEF HasNumber
  <2>2. /\ timer' = [timer EXCEPT ![k] = Elapse(m.tail)]
        /\ asked' = [asked EXCEPT ![k] = Granted(m.tail)]
        /\ UNCHANGED machine
    BY <1>2 DEF SetShutdown
  <2> DEFINE e == Elapse(m.tail)
             g == Granted(m.tail)
  <2>3. e \in Nat /\ g \in Nat /\ g <= e
    BY <2>1, ElapseGrants
  <2> HIDE DEF e, g
  <2>4. timer' = [timer EXCEPT ![k] = e] /\ asked' = [asked EXCEPT ![k] = g]
    BY <2>2 DEF e, g
  <2>5. g # None
    BY <2>3, CommandsAssumption
  <2> QED BY <2>2, <2>3, <2>4, <2>5 DEF TimersOK
<1> QED BY <1>1, <1>2 DEF SetShutdown

LEMMA CancelKeepsTimers ==
    ASSUME TimersOK, NEW k \in Shutdown, CancelShutdown(k)
    PROVE  TimersOK' /\ UNCHANGED machine
BY DEF CancelShutdown, TimersOK

LEMMA ExecuteTimers ==
    ASSUME TimersOK, NEW m, Execute(m)
    PROVE  TimersOK' /\ UNCHANGED machine
<1>1. CASE UNCHANGED <<timer, asked, machine>>
  BY <1>1 DEF TimersOK
<1>2. ASSUME NEW k \in Shutdown, SetShutdown(m, k) \/ CancelShutdown(k)
      PROVE  TimersOK' /\ UNCHANGED machine
  BY <1>2, SetKeepsTimers, CancelKeepsTimers
<1>3. "poweroff" \in Shutdown /\ "reboot" \in Shutdown
  BY DEF Shutdown
<1>4. \/ \E k \in Shutdown : SetShutdown(m, k) \/ CancelShutdown(k)
      \/ UNCHANGED <<timer, asked, machine>>
  BY <1>3, Zenon DEF Execute, Refuse, effects, history, Launch, CmdName, JumpPPT, ScreenSaver, Test,
     Shortcut, TurnVolume
<1> QED BY <1>1, <1>2, <1>4

LEMMA TickTimers ==
    ASSUME TimersOK, Tick
    PROVE  TimersOK' /\ UNCHANGED machine
<1> DEFINE Down(t) == IF t \in {None, 0} THEN t ELSE t - 1
<1>1. /\ timer' = [k \in Shutdown |-> Down(timer[k])]
      /\ asked' = [k \in Shutdown |-> Down(asked[k])]
      /\ UNCHANGED machine
  BY DEF Tick
<1>2. \A t \in Nat \union {None} :
          /\ Down(t) \in Nat \union {None}
          /\ t # None => Down(t) # None
          /\ Down(t) # None => t # None
  BY CommandsAssumption
<1>3. \A t, a \in Nat : a <= t => Down(a) <= Down(t)
  BY CommandsAssumption
<1>4. \A k \in Shutdown : timer[k] \in Nat \union {None} /\ asked[k] \in Nat \union {None}
  BY DEF TimersOK
<1> HIDE DEF Down
<1>5. timer' \in [Shutdown -> Nat \union {None}] /\ asked' \in [Shutdown -> Nat \union {None}]
  BY <1>1, <1>2, <1>4
<1>6. ASSUME NEW k \in Shutdown, timer'[k] # None
      PROVE  asked'[k] # None /\ asked'[k] <= timer'[k]
  <2>1. timer'[k] = Down(timer[k]) /\ asked'[k] = Down(asked[k])
    BY <1>1
  <2>2. timer[k] # None
    BY <1>2, <1>4, <1>6, <2>1
  <2>3. asked[k] # None /\ asked[k] <= timer[k]
    BY <2>2 DEF TimersOK
  <2>4. asked[k] \in Nat /\ timer[k] \in Nat
    BY <1>4, <2>2, <2>3
  <2> QED BY <1>2, <1>3, <1>4, <2>1, <2>3, <2>4
<1> QED BY <1>1, <1>5, <1>6 DEF TimersOK

LEMMA OnTimerTimers ==
    ASSUME TimersOK, NotBeforeTime, NEW k \in Shutdown, OnTimer(k)
    PROVE  TimersOK' /\ NotBeforeTime'
<1>1. /\ machine = "up" /\ timer[k] = 0
      /\ timer' = [timer EXCEPT ![k] = None]
      /\ machine' \in {"up", IF k = "poweroff" THEN "off" ELSE "restarted"}
      /\ asked' = asked
  BY DEF OnTimer, SysExit, Up
<1>2. TimersOK'
  BY <1>1 DEF TimersOK
<1>3. asked[k] = 0
  <2>1. timer[k] # None /\ asked[k] \in Nat \union {None}
    BY <1>1, CommandsAssumption DEF TimersOK
  <2> QED BY <1>1, <2>1 DEF TimersOK
<1>4. NotBeforeTime'
  BY <1>1, <1>3 DEF NotBeforeTime, Shutdown
<1> QED BY <1>2, <1>4

LEMMA NextTimers == TimersOK /\ NotBeforeTime /\ [Next]_vars => TimersOK' /\ NotBeforeTime'
<1> SUFFICES ASSUME TimersOK, NotBeforeTime, [Next]_vars PROVE TimersOK' /\ NotBeforeTime'
  OBVIOUS
<1>1. ASSUME NEW m \in Texts, Execute(m)
      PROVE  TimersOK' /\ NotBeforeTime'
  <2>1. machine = "up"
    BY <1>1 DEF Execute, Up
  <2> QED BY <1>1, <2>1, ExecuteTimers DEF NotBeforeTime
<1>2. ASSUME NEW k \in Shutdown, OnTimer(k)
      PROVE  TimersOK' /\ NotBeforeTime'
  BY <1>2, OnTimerTimers
<1>3. CASE Tick
  <2>1. machine = "up"
    BY <1>3 DEF Tick, Up
  <2> QED BY <1>3, <2>1, TickTimers DEF NotBeforeTime
<1>4. CASE WindowEnds
  BY <1>4 DEF WindowEnds, history, TimersOK, NotBeforeTime
<1>5. CASE UNCHANGED vars
  BY <1>5 DEF vars, effects, history, TimersOK, NotBeforeTime
<1> QED BY <1>1, <1>2, <1>3, <1>4, <1>5 DEF Next, Commands

\* The machine does not go down before the seconds a sender may count on are over, whatever
\* the lengths of a second and of an unsigned int, and after any requests and cancellations.
THEOREM ShutdownInTime == Spec => []NotBeforeTime
<1> QED BY InitTimers, NextTimers, PTL DEF Spec

\* A text that is refused changes nothing.
THEOREM RefusalIsClean == Spec => ErrorChangesNothing
<1>1. ASSUME reply' = "error", effects' # effects, NEW m \in Texts, Execute(m)
      PROVE  FALSE
  BY <1>1, Zenon DEF Execute, Refuse, Answer, SetShutdown, CancelShutdown, Launch, CmdName, JumpPPT,
     ScreenSaver, Test, Shortcut, TurnVolume
<1>2. [Next]_vars => [reply' = "error" /\ effects' # effects => \A m \in Texts : ~Execute(m)]_vars
  BY <1>1
<1> QED BY <1>2, PTL DEF Spec, ErrorChangesNothing

-----------------------------------------------------------------------------
(* The quick starts: for any slots and command lines, what the boxes show  *)
(* is what OK saves, and "cmd:" starts what was accepted last.             *)
(*                                                                         *)
(* Three things keep the commands, the file and what the user accepted     *)
(* together: only OK writes m_xml, it writes all of it, and it saves it at *)
(* once.  So whatever ends the program, the file it finds is the same.     *)
Agree == cmdline = accepted /\ file = accepted

BoxesOK ==
    /\ m_strCmd \in [Slots -> Line] /\ box \in [Slots -> Line] /\ entered \in [Slots -> Line]
    /\ cmdline \in [Slots -> Line]
    /\ overwritten \subseteq Slots
    /\ \A s \in Slots \ overwritten : box[s] = entered[s]

LEMMA NoLinesType == NoLines \in [Slots -> Line] /\ Line = Lines \union {None}
BY DEF NoLines, Line

LEMMA InitQuick == QuickInit => Agree /\ BoxesOK
BY NoLinesType DEF QuickInit, Agree, BoxesOK

LEMMA ExecuteConfig == \A m : Execute(m) => UNCHANGED cmdline
BY DEF Execute, config

LEMMA CommandStep ==
    ASSUME Agree, BoxesOK, Commands, UNCHANGED dialogVars
    PROVE  Agree' /\ BoxesOK'
<1>1. UNCHANGED cmdline
  BY ExecuteConfig DEF Commands, OnTimer, Tick, config
<1> QED BY <1>1 DEF dialogVars, edits, Agree, BoxesOK

LEMMA ClosedKeeps ==
    ASSUME Closed, cmdline' \in [Slots -> Line]
    PROVE  BoxesOK'
BY NoLinesType DEF Closed, BoxesOK

LEMMA DialogStep ==
    ASSUME Agree, BoxesOK, DialogNext
    PROVE  Agree' /\ BoxesOK'
<1> USE DEF config, edits
<1>1. CASE OpenDialog
  BY <1>1 DEF OpenDialog, Agree, BoxesOK
<1>2. CASE Ok
  BY <1>2, ClosedKeeps DEF Ok, Agree, BoxesOK
<1>3. CASE Cancel
  BY <1>3, ClosedKeeps DEF Cancel, Agree, BoxesOK
<1>4. CASE Ends
  BY <1>4, ClosedKeeps DEF Ends, WindowEnds, Agree, BoxesOK
<1>8. CASE Starts
  BY <1>8 DEF Starts, dialogVars, Agree, BoxesOK
<1>5. ASSUME NEW s \in Slots, Browse(s) \/ SelectNone(s)
      PROVE  Agree' /\ BoxesOK'
  BY <1>5 DEF Browse, SelectNone, Agree, BoxesOK
<1>6. ASSUME NEW s \in Slots, NEW line \in Line, Type(s, line)
      PROVE  Agree' /\ BoxesOK'
  BY <1>6 DEF Type, Agree, BoxesOK
<1>7. ASSUME NEW s \in Slots, NEW line \in Lines, SelectFile(s, line)
      PROVE  Agree' /\ BoxesOK'
  <2>1. /\ m_strCmd' = [m_strCmd EXCEPT ![s] = line] /\ box' = m_strCmd'
        /\ entered' = [entered EXCEPT ![s] = line]
        /\ overwritten' = (overwritten \union {o \in Slots : box[o] # m_strCmd[o]}) \ {s}
        /\ UNCHANGED <<cmdline, file, accepted>>
    BY <1>7 DEF SelectFile
  <2>2. line \in Line
    BY NoLinesType
  <2>3. \A o \in Slots \ overwritten' : box'[o] = entered'[o]
    <3> SUFFICES ASSUME NEW o \in Slots, o \notin overwritten' PROVE box'[o] = entered'[o]
      OBVIOUS
    <3>1. CASE o = s
      BY <2>1, <3>1 DEF BoxesOK
    <3>2. CASE o # s
      BY <2>1, <3>2 DEF BoxesOK
    <3> QED BY <3>1, <3>2
  <2> QED BY <2>1, <2>2, <2>3 DEF Agree, BoxesOK
<1> QED BY <1>1, <1>2, <1>3, <1>4, <1>5, <1>6, <1>7, <1>8 DEF DialogNext

LEMMA NextQuick ==
    Agree /\ BoxesOK /\ [QuickNext]_<<vars, dialogVars>> => Agree' /\ BoxesOK'
<1> SUFFICES ASSUME Agree, BoxesOK, [QuickNext]_<<vars, dialogVars>> PROVE Agree' /\ BoxesOK'
  OBVIOUS
<1>1. CASE UNCHANGED <<vars, dialogVars>>
  BY <1>1 DEF vars, config, dialogVars, edits, Agree, BoxesOK
<1> QED BY <1>1, DialogStep, CommandStep DEF QuickNext

\* The text of "cmd:" is looked up.
LEMMA LaunchTexts ==
    ASSUME NEW m \in TextsOf({"cmd:"}), Execute(m), reply' = "ack"
    PROVE  Launch(m)
<1>1. m \in Texts /\ m.word = "cmd:"
  BY DEF TextsOf, Texts
<1>2. 3 \in DOMAIN cmds /\ cmds[3] = "cmd:"
  <2>1. 3 \in 1 .. 16
    OBVIOUS
  <2> QED BY <2>1, CmdsTable, Zenon
<1>3. \A j \in DOMAIN cmds : cmds[j] = "cmd:" => j = 3
  <2> SUFFICES ASSUME NEW j \in 1 .. 16 PROVE cmds[j] = "cmd:" => j = 3
    BY CmdsTable
  <2>1. \/ j = 1 \/ j = 2 \/ j = 3 \/ j = 4 \/ j = 5 \/ j = 6 \/ j = 7 \/ j = 8
        \/ j = 9 \/ j = 10 \/ j = 11 \/ j = 12 \/ j = 13 \/ j = 14 \/ j = 15 \/ j = 16
    OBVIOUS
  <2>2. CASE j = 1 \/ j = 2 \/ j = 3 \/ j = 4 \/ j = 5 \/ j = 6 \/ j = 7 \/ j = 8
    BY <2>2, CmdsTable
  <2>3. CASE j = 9 \/ j = 10 \/ j = 11 \/ j = 12 \/ j = 13 \/ j = 14 \/ j = 15 \/ j = 16
    BY <2>3, CmdsTable
  <2> QED BY <2>1, <2>2, <2>3
<1>4. FindCmd[m] \in {None, "cmd:"}
  BY <1>1, <1>2, <1>3, FindsWord
<1>5. CASE FindCmd[m] = None
  BY <1>5, NoneIsNoEntry, Zenon DEF Execute, Refuse, Answer
<1>6. CASE FindCmd[m] = "cmd:"
  BY <1>6, NoneIsNoEntry, Zenon DEF Execute
<1> QED BY <1>4, <1>5, <1>6

\* "cmd:" starts the line that was in the slot when OK was last pressed, for any slots and
\* lines, whatever is being typed and browsed, and however often the program was ended.
THEOREM StartsAccepted == QuickSpec => StartsWhatWasAccepted
<1>1. Agree /\ [QuickNext]_<<vars, dialogVars>> =>
        [reply' = "ack" => \A m \in TextsOf({"cmd:"}) : Execute(m) =>
            m.tail \in Slots /\ launched' = accepted[m.tail]]_<<vars, dialogVars>>
  <2> SUFFICES ASSUME Agree, reply' = "ack", NEW m \in TextsOf({"cmd:"}), Execute(m)
               PROVE  m.tail \in Slots /\ launched' = accepted[m.tail]
    OBVIOUS
  <2>1. Launch(m)
    BY LaunchTexts
  <2> QED BY <2>1 DEF Launch, HasLine, Refuse, Answer, Agree
<1> QED BY <1>1, InitQuick, NextQuick, PTL DEF QuickSpec, StartsWhatWasAccepted

\* What was last put into a box is what OK saves, but for boxes a browse has set back.
THEOREM BoxesAreSaved == QuickSpec => EnteredIsSaved
<1>1. BoxesOK /\ [QuickNext]_<<vars, dialogVars>> =>
        [Ok => \A s \in Slots \ overwritten : file'[s] = entered[s]]_<<vars, dialogVars>>
  BY DEF BoxesOK, Ok
<1> QED BY <1>1, InitQuick, NextQuick, PTL DEF QuickSpec, EnteredIsSaved

------------------------------------------------------------------------------

\* What the file remembers is what the dialog holds: while the program runs and nothing
\* was refused, m_nLocalPort is the accepted port, and the box shows it while the
\* service is on, because it is disabled then.
Remembered ==
    /\ started # 0 => InRange(started)
    /\ started # 0 /\ ~refused => xml.port = started
    /\ running /\ started # 0 /\ ~refused => m_nLocalPort = started
    /\ m_start => /\ started # 0 /\ ~refused
                  /\ edit = started

SettingsIInv == SettingsType /\ Remembered

LEMMA SavedType ==
    ASSUME NEW port \in Port, NEW save \in BOOLEAN, NEW license \in BOOLEAN,
           SaveSetting(port, save, license)
    PROVE  m_xml' \in Config /\ xml' \in Config /\ xml'.port = port
BY DEF SaveSetting, Config

LEMMA StartKeeps ==
    ASSUME SettingsIInv, NEW port \in Port, NEW save \in BOOLEAN, NEW license \in BOOLEAN,
           StartWith(port, save, license)
    PROVE  /\ m_nLocalPort' = port /\ m_bSaveLog' = save
           /\ xml' \in Config /\ (InRange(port) => m_xml' \in Config)
           /\ m_start' \in BOOLEAN /\ served' \in BOOLEAN
           /\ started' \in Port /\ refused' \in BOOLEAN
           /\ started' # 0 => InRange(started')
           /\ started' # 0 /\ ~refused' => xml'.port = started' /\ port = started'
           /\ m_start' => started' # 0 /\ ~refused' /\ port = started'
<1>1. CASE InRange(port)
  <2>1. SaveSetting(port, save, license) /\ started' = port /\ refused' = FALSE
        /\ m_start' = TRUE /\ served' = TRUE
    BY <1>1 DEF StartWith
  <2>2. port # 0
    BY <1>1, SettingsAssumption DEF InRange
  <2> QED BY <1>1, <2>1, <2>2, SavedType DEF StartWith
<1>2. CASE ~InRange(port)
  BY <1>2 DEF StartWith, SettingsIInv, SettingsType, Remembered
<1> QED BY <1>1, <1>2

LEMMA FileFields == ASSUME SettingsType PROVE /\ xml.port \in Port /\ xml.save \in BOOLEAN
                                        /\ xml.license \in BOOLEAN
                                        /\ m_xml.license \in BOOLEAN
BY DEF SettingsType, Config

\* Port is a set of naturals.
LEMMA PortNat == /\ Port \subseteq Nat /\ 0 \in Port /\ DefaultPort \in Port
                 /\ Trial - 1 \in 0 .. Trial /\ 0 \in 0 .. Trial
BY SettingsAssumption DEF Port, DefaultPort

LEMMA InitRemembers == SettingsInit => SettingsIInv
<1>1. NoConfig \in Config
  BY PortNat DEF NoConfig, Config
<1> QED BY <1>1, PortNat DEF SettingsInit, SettingsIInv, SettingsType, Remembered, Off

LEMMA LaunchRemembers == SettingsIInv /\ OnInitDialog => SettingsIInv'
<1> SUFFICES ASSUME SettingsIInv, OnInitDialog PROVE SettingsIInv'
  OBVIOUS
<1>1. CASE LaunchReady /\ xml.port > 0 /\ StartWith(xml.port, xml.save, xml.license)
                       /\ edit' = xml.port /\ (~InRange(xml.port) => m_xml' = xml)
  <2>1. m_nTrialTimes' \in 0 .. Trial
    BY <1>1, PortNat DEF LaunchReady, Off
  <2> QED BY <1>1, <2>1, FileFields, StartKeeps DEF LaunchReady, OnInitDialog, SettingsIInv, SettingsType, Remembered
<1>2. CASE LaunchReady /\ xml.port <= 0 /\ edit' = DefaultPort /\ m_nLocalPort' = DefaultPort
           /\ m_bSaveLog' = xml.save /\ m_xml' = xml /\ m_start' = FALSE /\ served' = FALSE
           /\ UNCHANGED <<xml, starts>>
  <2>1. m_nTrialTimes' \in 0 .. Trial
    BY <1>2, PortNat DEF LaunchReady, Off
  <2>2. started = 0 \/ refused
    BY <1>2, PortNat DEF SettingsIInv, SettingsType, Remembered, InRange
  <2> QED
    BY <1>2, <2>1, <2>2, FileFields, PortNat
    DEF LaunchReady, OnInitDialog, SettingsIInv, SettingsType, Remembered, starts
<1>3. CASE LaunchBlind
  BY <1>3, PortNat DEF LaunchBlind, OnInitDialog, SettingsIInv, SettingsType, Remembered, Off
<1> QED BY <1>1, <1>2, <1>3 DEF OnInitDialog, LaunchReady

LEMMA StepRemembers == SettingsIInv /\ [SettingsNext]_settings => SettingsIInv'
<1> SUFFICES ASSUME SettingsIInv, [SettingsNext]_settings PROVE SettingsIInv'
  OBVIOUS
<1> USE DEF SettingsIInv, SettingsType, Remembered, controls, starts
<1>1. CASE OnInitDialog
  BY <1>1, LaunchRemembers
<1>2. CASE ClickTick
  BY <1>2 DEF ClickTick
<1>3. CASE ClickStart
  BY <1>3, StartKeeps, FileFields DEF ClickStart
<1>4. CASE ClickStop
  BY <1>4 DEF ClickStop
<1>5. CASE Refresh
  BY <1>5 DEF Refresh
<1>6. CASE DialogOk
  BY <1>6, SavedType, FileFields DEF DialogOk
<1>7. CASE Register
  BY <1>7, SavedType, PortNat DEF Register, Off
<1>8. CASE Quit /\ running
  BY <1>8, SavedType, FileFields, PortNat DEF Quit, Off
<1>9. CASE Exit
  BY <1>8, <1>9 DEF Exit
<1>10. CASE TrialSecond
  <2>1. CASE m_nTrialTimes > 1 /\ m_nTrialTimes' = m_nTrialTimes - 1
    <3>1. m_nTrialTimes' \in 0 .. Trial
      BY <2>1, SettingsAssumption
    <3>2. UNCHANGED <<xml, m_xml, running, ip, m_nLocalPort, m_bSaveLog, m_start, served,
                      controls, starts>>
      <4>1. m_nTrialTimes # 1
        BY <2>1, SettingsAssumption
      <4> QED BY <1>10, <4>1 DEF TrialSecond
    <3> QED BY <3>1, <3>2
  <2> QED BY <1>8, <1>10, <2>1 DEF TrialSecond
<1>11. CASE Kill
  BY <1>11, PortNat DEF Kill, Off
<1>12. ASSUME NEW p \in Typed, TypePort(p) PROVE SettingsIInv'
  BY <1>12 DEF TypePort, Port
<1>13. CASE UNCHANGED settings
  BY <1>13 DEF settings
<1> QED
  BY <1>1, <1>2, <1>3, <1>4, <1>5, <1>6, <1>7, <1>9, <1>10, <1>11, <1>12, <1>13 DEF SettingsNext

\* The settings keep their types.
THEOREM SettingsTyped == SettingsSpec => []SettingsType
<1>1. SettingsIInv => SettingsType BY DEF SettingsIInv
<1> QED BY <1>1, InitRemembers, StepRemembers, PTL DEF SettingsSpec

\* The port the service was last started with is the one in config.xml, however the
\* program ended, unless a port was refused or the own ip was not found.
THEOREM PortIsRemembered == SettingsSpec => []PortRemembered
<1>1. SettingsIInv => PortRemembered BY DEF SettingsIInv, Remembered, PortRemembered
<1> QED BY <1>1, InitRemembers, StepRemembers, PTL DEF SettingsSpec

\* And with it the next launch starts the service.
THEOREM ServiceStartsAgain == SettingsSpec => StartsAgain
<1>1. SettingsIInv /\ [SettingsNext]_settings =>
        [OnInitDialog /\ ip' /\ ~refused /\ started # 0 =>
             m_start' /\ m_nLocalPort' = started]_settings
  <2> SUFFICES ASSUME SettingsIInv, OnInitDialog, ip', ~refused, started # 0
               PROVE  m_start' /\ m_nLocalPort' = started
    OBVIOUS
  <2>1. xml.port = started /\ InRange(started)
    BY DEF SettingsIInv, Remembered
  <2>2. started > 0
    BY <2>1, PortNat DEF SettingsIInv, SettingsType, InRange
  <2>3. LaunchReady
    BY DEF OnInitDialog, LaunchBlind
  <2>4. ~(xml.port <= 0)
    BY <2>1, <2>2, PortNat DEF SettingsIInv, SettingsType
  <2>5. StartWith(xml.port, xml.save, xml.license)
    BY <2>3, <2>4 DEF LaunchReady
  <2>6. m_start' = TRUE /\ m_nLocalPort' = xml.port
    BY <2>1, <2>5 DEF StartWith
  <2> QED BY <2>1, <2>6
<1> QED BY <1>1, InitRemembers, StepRemembers, PTL DEF SettingsSpec, StartsAgain

\* The copy of the license in memory is that of the file while the program runs, and the
\* timer of the trial is set for an unlicensed program only.
Licensed ==
    running => /\ m_xml.license = xml.license
               /\ m_nTrialTimes # Off => ~xml.license

LEMMA SavedLicense ==
    ASSUME NEW port \in Port, NEW save \in BOOLEAN, NEW license \in BOOLEAN,
           SaveSetting(port, save, license)
    PROVE  m_xml'.license = license /\ xml'.license = license
BY DEF SaveSetting

LEMMA StartLicense ==
    ASSUME NEW port \in Port, NEW save \in BOOLEAN, NEW license \in BOOLEAN,
           StartWith(port, save, license)
    PROVE  \/ InRange(port) /\ m_xml'.license = license /\ xml'.license = license
           \/ ~InRange(port) /\ xml' = xml
BY SavedLicense DEF StartWith

LEMMA LicenseKeeps ==
    ASSUME SettingsIInv, Licensed, [SettingsNext]_settings
    PROVE  /\ Licensed'
           /\ xml.license => xml'.license
           /\ TrialSecond => ~xml.license
<1> USE DEF Licensed, controls, starts
<1>0. TrialSecond => ~xml.license
  BY DEF TrialSecond
<1> SUFFICES Licensed' /\ (xml.license => xml'.license)
  BY <1>0
<1>1. /\ xml.license \in BOOLEAN /\ m_xml.license \in BOOLEAN /\ xml.port \in Port
      /\ xml.save \in BOOLEAN /\ m_nLocalPort \in Port /\ edit \in Port
      /\ m_bSaveLog \in BOOLEAN /\ tick \in BOOLEAN
  BY FileFields DEF SettingsIInv, SettingsType
<1>2. CASE OnInitDialog
  <2>1. m_xml'.license = xml.license /\ xml'.license = xml.license
    BY <1>1, <1>2, StartLicense DEF OnInitDialog, LaunchReady, LaunchBlind
  <2>2. m_nTrialTimes' # Off => ~xml.license
    BY <1>2 DEF OnInitDialog, LaunchReady, LaunchBlind
  <2> QED BY <1>2, <2>1, <2>2 DEF OnInitDialog
<1>3. CASE ClickStart
  BY <1>1, <1>3, StartLicense DEF ClickStart
<1>4. CASE DialogOk
  BY <1>1, <1>4, SavedLicense DEF DialogOk
<1>5. CASE Register
  BY <1>1, <1>5, SavedLicense DEF Register
<1>6. CASE Quit /\ running
  BY <1>1, <1>6, SavedLicense DEF Quit
<1>7. CASE Exit
  BY <1>6, <1>7 DEF Exit
<1>8. CASE TrialSecond
  BY <1>6, <1>8 DEF TrialSecond
<1>9. CASE ClickTick \/ ClickStop \/ Refresh
  BY <1>9 DEF ClickTick, ClickStop, Refresh
<1>10. CASE Kill
  BY <1>10 DEF Kill
<1>11. ASSUME NEW p \in Typed, TypePort(p)
       PROVE  Licensed' /\ xml' = xml
  BY <1>11 DEF TypePort
<1>12. CASE UNCHANGED settings
  BY <1>12 DEF settings
<1> QED
  BY <1>2, <1>3, <1>4, <1>5, <1>7, <1>8, <1>9, <1>10, <1>11, <1>12 DEF SettingsNext

\* A registration outlives every save, refresh, crash and launch, and the trial never ends
\* a registered program, whatever the length of the trial.
THEOREM RegistrationStays == SettingsSpec => StaysRegistered
<1>1. SettingsInit => Licensed BY DEF SettingsInit, Licensed
<1>2. SettingsIInv /\ Licensed /\ [SettingsNext]_settings => Licensed'
  BY LicenseKeeps
<1>3. SettingsIInv /\ Licensed /\ [SettingsNext]_settings =>
        [(xml.license => xml'.license) /\ (TrialSecond => ~xml.license)]_settings
  BY LicenseKeeps
<1> QED BY <1>1, <1>2, <1>3, InitRemembers, StepRemembers, PTL DEF SettingsSpec, StaysRegistered
==============================================================================
