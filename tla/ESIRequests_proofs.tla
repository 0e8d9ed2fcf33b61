------------------------- MODULE ESIRequests_proofs -------------------------
(***************************************************************************)
(* Proofs about the configuration and about requests and their             *)
(* subrequests, for any number of blocks, any directives, any pages and    *)
(* any number of requests: that a block that was merged has the settings   *)
(* and the types of the innermost block that gives them, that serving      *)
(* requests leaves that alone, that what is sent of a page is the text and *)
(* the includes it stands for, and that the Content-Length a client gets   *)
(* is true.                                                                *)
(***************************************************************************)
EXTENDS ESIRequests, ESITags_proofs

-----------------------------------------------------------------------------
(* The configuration.                                                      *)

\* A block that is not merged yet has what its own directives say (set_slot).
AsRead(b) ==
  \A s \in Settings :
    \/ WrittenIn(b, s) = {} /\ conf[b][s] = UNSET
    \/ \E d \in WrittenIn(b, s) : WrittenIn(b, s) = {d} /\ conf[b][s] = d.value

ConfInv ==
  /\ merged \in 0..Blocks
  /\ conf \in [1..Blocks -> [Settings -> Int]]
  /\ written \subseteq Directives
  /\ refused => merged = 0
  /\ ~ refused => \A b \in 1..Blocks : b > merged \/ b = 1 => AsRead(b)
  /\ \A b \in 2..merged, s \in Settings : conf[b][s] # UNSET
  /\ SettingsInherited

-----------------------------------------------------------------------------
(* What the file says of one block, and of the next.                       *)

\* Every setting has a default.
LEMMA SettingsAre ==
  /\ Settings = {"esi", "esi_silent_errors", "esi_min_file_chunk", "esi_max_depth"}
  /\ \A s \in Settings : Default[s] \in Nat
BY DEF Settings, Default

(***************************************************************************)
(* A directive of the block itself gives the setting.                      *)
(***************************************************************************)
LEMMA SettingOwn ==
  ASSUME NEW b \in Nat \ {0}, NEW s, NEW d, WrittenIn(b, s) = {d}
  PROVE  Setting(b, s) = d.value
<1>1. b \in Giving(b, s) /\ Giving(b, s) \subseteq 0..b
  BY DEF Giving
<1>2. Max(Giving(b, s)) \in Giving(b, s) /\ \A y \in Giving(b, s) : Max(Giving(b, s)) >= y
  BY <1>1, MaxOf
<1>3. Max(Giving(b, s)) = b
  BY <1>1, <1>2
<1>4. Giving(b, s) # {}
  BY <1>1
<1> QED BY <1>3, <1>4 DEF Setting

(***************************************************************************)
(* Without one the setting is that of the block around it.                 *)
(***************************************************************************)
LEMMA SettingOuter ==
  ASSUME NEW b \in Nat \ {0, 1}, NEW s, WrittenIn(b, s) = {}
  PROVE  Setting(b, s) = Setting(b - 1, s)
<1>1. Giving(b, s) = Giving(b - 1, s)
  BY DEF Giving
<1> QED BY <1>1 DEF Setting

(***************************************************************************)
(* The outermost block has the default in its stead.                       *)
(***************************************************************************)
LEMMA SettingDefault ==
  ASSUME NEW s, WrittenIn(1, s) = {}
  PROVE  Setting(1, s) = Default[s]
<1>1. Giving(1, s) = {}
  BY DEF Giving
<1> QED BY <1>1 DEF Setting

\* A value that was written is not UNSET.
LEMMA ValueSet ==
  ASSUME written \subseteq Directives, NEW b, NEW s \in Settings, NEW d \in WrittenIn(b, s)
  PROVE  d.value \in Nat /\ d.value # UNSET
<1>1. d \in Directives /\ d.name = s
  BY DEF WrittenIn
<1>2. d.name # "esi_types"
  BY <1>1, SettingsAre
<1>3. d.value \in Nat
  BY <1>1, <1>2, DirectivesAssumption
<1> QED BY <1>3 DEF UNSET

-----------------------------------------------------------------------------
(* The steps.                                                              *)

\* Nothing is read yet.
LEMMA ConfInitInv == ConfInit => ConfInv
<1> SUFFICES ASSUME ConfInit PROVE ConfInv
  OBVIOUS
<1>1. merged = 0 /\ written = {} /\ ~ refused
  BY DEF ConfInit
<1>2. /\ \A b \in 1..Blocks, s \in Settings : conf[b][s] = UNSET
      /\ conf \in [1..Blocks -> [Settings -> Int]]
  BY DEF ConfInit, UNSET
<1>3. \A b, s : WrittenIn(b, s) = {}
  BY <1>1 DEF WrittenIn
<1>4. \A b \in 1..Blocks : AsRead(b)
  BY <1>2, <1>3 DEF AsRead
<1>5. SettingsInherited
  BY <1>1 DEF SettingsInherited
<1> QED BY <1>1, <1>2, <1>4, <1>5, BlocksAssumption DEF ConfInv

(***************************************************************************)
(* A flag or a number is read; a second one is refused.                    *)
(***************************************************************************)
LEMMA SetSlotInv ==
  ASSUME ConfInv, NEW d \in Directives, SetSlot(d)
  PROVE  ConfInv'
<1>1. /\ merged = 0 /\ merged' = 0 /\ ~ refused /\ d.name \in Settings
      /\ written' = written \cup {d}
  BY DEF SetSlot, Write
<1>2. d.block \in 1..Blocks /\ d.value \in Nat
  <2>1. d.name # "esi_types"
    BY <1>1, SettingsAre
  <2> QED BY <1>1, <2>1, DirectivesAssumption
<1>3. \A b \in 1..Blocks : AsRead(b)
  BY <1>1 DEF ConfInv
<1>4. CASE conf[d.block][d.name] # UNSET
  <2>1. refused' = TRUE /\ conf' = conf
    BY <1>4 DEF SetSlot
  <2>2. SettingsInherited'
    BY <1>1 DEF SettingsInherited
  <2> QED BY <1>1, <2>1, <2>2 DEF ConfInv
<1>5. CASE conf[d.block][d.name] = UNSET
  <2>1. /\ conf' = [conf EXCEPT ![d.block][d.name] = d.value]
        /\ refused' = refused
    BY <1>5 DEF SetSlot
  <2>2. /\ conf' \in [1..Blocks -> [Settings -> Int]]
        /\ \A b \in 1..Blocks, s \in Settings : conf'[b][s] =
             IF b = d.block /\ s = d.name THEN d.value ELSE conf[b][s]
    BY <1>1, <1>2, <2>1 DEF ConfInv
  <2>3. WrittenIn(d.block, d.name) = {}
    <3>1. \A e \in WrittenIn(d.block, d.name) : e.value # UNSET
      BY <1>1, ValueSet DEF ConfInv
    <3> QED BY <1>1, <1>2, <1>3, <1>5, <3>1 DEF AsRead
  <2>4. \A b, s : WrittenIn(b, s)' =
          IF b = d.block /\ s = d.name THEN WrittenIn(b, s) \cup {d} ELSE WrittenIn(b, s)
    BY <1>1 DEF WrittenIn
  <2>5. ASSUME NEW b \in 1..Blocks PROVE AsRead(b)'
    <3> SUFFICES ASSUME NEW s \in Settings
                 PROVE  \/ WrittenIn(b, s)' = {} /\ conf'[b][s] = UNSET
                        \/ \E e \in WrittenIn(b, s)' :
                             WrittenIn(b, s)' = {e} /\ conf'[b][s] = e.value
      BY DEF AsRead
    <3>1. CASE b = d.block /\ s = d.name
      <4>1. WrittenIn(b, s)' = {d} /\ conf'[b][s] = d.value
        BY <2>2, <2>3, <2>4, <3>1
      <4> QED BY <4>1
    <3>2. CASE ~ (b = d.block /\ s = d.name)
      <4>1. WrittenIn(b, s)' = WrittenIn(b, s) /\ conf'[b][s] = conf[b][s]
        BY <2>2, <2>4, <3>2
      <4> QED BY <1>3, <4>1 DEF AsRead
    <3> QED BY <3>1, <3>2
  <2>6. SettingsInherited'
    BY <1>1 DEF SettingsInherited
  <2> QED BY <1>1, <2>1, <2>2, <2>5, <2>6 DEF ConfInv
<1> QED BY <1>4, <1>5

(***************************************************************************)
(* A list of types is read: no setting is written.                         *)
(***************************************************************************)
LEMMA EsiTypesInv ==
  ASSUME ConfInv, NEW d \in Directives, EsiTypes(d)
  PROVE  ConfInv'
<1>1. /\ merged = 0 /\ merged' = 0 /\ d.name = "esi_types"
      /\ written' = written \cup {d} /\ conf' = conf /\ refused' = refused
  BY DEF EsiTypes, Write
<1>2. \A b, s : s \in Settings => WrittenIn(b, s)' = WrittenIn(b, s)
  BY <1>1, SettingsAre DEF WrittenIn
<1>3. \A b : AsRead(b) => AsRead(b)'
  BY <1>1, <1>2 DEF AsRead
<1>4. SettingsInherited'
  BY <1>1 DEF SettingsInherited
<1> QED BY <1>1, <1>3, <1>4 DEF ConfInv

(***************************************************************************)
(* All is read.                                                            *)
(***************************************************************************)
LEMMA EndReadingInv ==
  ASSUME ConfInv, EndReading
  PROVE  ConfInv'
<1>1. /\ merged = 0 /\ merged' = 1 /\ ~ refused
      /\ written' = written /\ conf' = conf /\ refused' = refused
  BY DEF EndReading
<1>2. \A b \in 1..Blocks : AsRead(b)'
  BY <1>1 DEF ConfInv, AsRead, WrittenIn
<1>3. SettingsInherited'
  BY <1>1 DEF SettingsInherited
<1>4. merged' \in 0..Blocks
  BY <1>1, BlocksAssumption
<1> QED BY <1>1, <1>2, <1>3, <1>4 DEF ConfInv

(***************************************************************************)
(* A block is merged with the one around it, which has what the file says  *)
(* of it, or is the outermost and has what it was given.                   *)
(***************************************************************************)
LEMMA MergeInv ==
  ASSUME ConfInv, Merge
  PROVE  ConfInv'
<1> DEFINE b == merged + 1
<1>1. /\ merged \in 1..(Blocks - 1) /\ merged' = b
      /\ conf' = [conf EXCEPT ![b] =
           [s \in Settings |-> MergedSlot(conf[merged][s], conf[b][s], Default[s])]]
      /\ written' = written /\ refused' = refused
  BY DEF Merge
<1>2. b \in 2..Blocks /\ merged \in 1..Blocks /\ b - 1 = merged /\ b # merged
  BY <1>1, BlocksAssumption
<1>3. /\ conf \in [1..Blocks -> [Settings -> Int]] /\ written \subseteq Directives
      /\ ~ refused
  BY <1>1 DEF ConfInv
<1>4. AsRead(b) /\ (merged = 1 => AsRead(1))
  BY <1>1, <1>2, <1>3 DEF ConfInv
<1> HIDE DEF b
<1>5. /\ conf' \in [1..Blocks -> [Settings -> Int]]
      /\ \A s \in Settings :
           conf'[b][s] = MergedSlot(conf[merged][s], conf[b][s], Default[s])
      /\ \A c \in 1..Blocks : c # b => conf'[c] = conf[c]
  <2>1. [s \in Settings |-> MergedSlot(conf[merged][s], conf[b][s], Default[s])]
          \in [Settings -> Int]
    <3>1. b \in 1..Blocks
      BY <1>2
    <3>2. ASSUME NEW s \in Settings
          PROVE  MergedSlot(conf[merged][s], conf[b][s], Default[s]) \in Int
      <4>1. conf[merged] \in [Settings -> Int] /\ conf[b] \in [Settings -> Int]
        BY <1>2, <1>3, <3>1
      <4>2. conf[merged][s] \in Int /\ conf[b][s] \in Int /\ Default[s] \in Int
        BY <4>1, SettingsAre
      <4> QED BY <4>2 DEF MergedSlot
    <3> QED BY <3>2
  <2>2. b \in 1..Blocks
    BY <1>2
  <2> QED BY <1>1, <1>3, <2>1, <2>2
<1>6. \A c, s : Setting(c, s)' = Setting(c, s)
  BY <1>1 DEF Setting, Giving, WrittenIn
<1>7. ASSUME NEW s \in Settings
      PROVE  conf'[b][s] = Setting(b, s) /\ conf'[b][s] # UNSET
  <2>1. b \in Nat \ {0, 1} /\ b \in Nat \ {0}
    BY <1>2
  <2>2. CASE WrittenIn(b, s) # {}
    <3>1. PICK d \in WrittenIn(b, s) : WrittenIn(b, s) = {d} /\ conf[b][s] = d.value
      BY <1>4, <2>2 DEF AsRead
    <3>2. d.value # UNSET
      BY <1>3, ValueSet
    <3>3. conf'[b][s] = d.value
      BY <1>5, <3>1, <3>2 DEF MergedSlot
    <3> QED BY <2>1, <3>1, <3>2, <3>3, SettingOwn
  <2>3. CASE WrittenIn(b, s) = {}
    <3>1. conf[b][s] = UNSET
      BY <1>4, <2>3 DEF AsRead
    <3>2. Setting(b, s) = Setting(merged, s)
      BY <1>2, <2>1, <2>3, SettingOuter
    <3>3. conf'[b][s] = IF conf[merged][s] # UNSET THEN conf[merged][s] ELSE Default[s]
      BY <1>5, <3>1 DEF MergedSlot
    <3>4. CASE merged = 1 /\ WrittenIn(1, s) # {}
      <4>1. PICK d \in WrittenIn(1, s) : WrittenIn(1, s) = {d} /\ conf[1][s] = d.value
        BY <1>4, <3>4 DEF AsRead
      <4>2. d.value # UNSET
        BY <1>3, ValueSet
      <4>3. Setting(1, s) = d.value
        BY <4>1, SettingOwn
      <4> QED BY <3>2, <3>3, <3>4, <4>1, <4>2, <4>3
    <3>5. CASE merged = 1 /\ WrittenIn(1, s) = {}
      <4>1. conf[1][s] = UNSET
        BY <1>4, <3>5 DEF AsRead
      <4>2. Setting(1, s) = Default[s] /\ Default[s] # UNSET
        BY <3>5, SettingDefault, SettingsAre DEF UNSET
      <4> QED BY <3>2, <3>3, <3>5, <4>1, <4>2
    <3>6. CASE merged # 1
      <4>1. merged \in 2..merged
        BY <1>1, <3>6
      <4>2. conf[merged][s] = Setting(merged, s) /\ conf[merged][s] # UNSET
        BY <4>1 DEF ConfInv, SettingsInherited
      <4> QED BY <3>2, <3>3, <4>2
    <3> QED BY <3>4, <3>5, <3>6
  <2> QED BY <2>2, <2>3
<1>8. \A c \in 2..merged' : c \in 1..Blocks /\ (c = b \/ (c # b /\ c \in 2..merged))
  <2>1. merged' = b /\ merged \in Nat /\ b \in Nat /\ b - 1 = merged /\ b <= Blocks
    BY <1>1, <1>2, BlocksAssumption
  <2>2. \A c \in 2..b : c = b \/ (c # b /\ c \in 2..(b - 1))
    BY <2>1
  <2>3. \A c \in 2..b : c \in 1..Blocks
    BY <2>1, BlocksAssumption
  <2> QED BY <2>1, <2>2, <2>3
<1>9. SettingsInherited' /\ \A c \in 2..merged', s \in Settings : conf'[c][s] # UNSET
  <2> SUFFICES ASSUME NEW c \in 2..merged', NEW s \in Settings
               PROVE  conf'[c][s] = Setting(c, s) /\ conf'[c][s] # UNSET
    BY <1>6 DEF SettingsInherited
  <2>1. CASE c = b
    BY <1>7, <2>1
  <2>2. CASE c # b /\ c \in 2..merged
    <3>1. conf'[c] = conf[c]
      BY <1>5, <1>8, <2>2
    <3> QED BY <2>2, <3>1 DEF ConfInv, SettingsInherited
  <2> QED BY <1>8, <2>1, <2>2
<1>10. \A c \in 1..Blocks : c > merged' \/ c = 1 => AsRead(c)'
  <2> SUFFICES ASSUME NEW c \in 1..Blocks, c > merged' \/ c = 1
               PROVE  AsRead(c)'
    OBVIOUS
  <2>1. c # b /\ (c > merged \/ c = 1)
    BY <1>1, <1>2 DEF b
  <2>2. AsRead(c) /\ conf'[c] = conf[c]
    BY <1>3, <1>5, <2>1 DEF ConfInv
  <2> QED BY <1>1, <2>2 DEF AsRead, WrittenIn
<1>11. merged' \in 0..Blocks /\ ~ refused' /\ written' \subseteq Directives
  BY <1>1, <1>2, <1>3
<1> QED BY <1>5, <1>9, <1>10, <1>11 DEF ConfInv

-----------------------------------------------------------------------------

\* Every step of reading and merging keeps the invariant.
LEMMA ConfNextInv == ConfInv /\ [ConfNext]_confVars => ConfInv'
<1> SUFFICES ASSUME ConfInv, [ConfNext]_confVars PROVE ConfInv'
  OBVIOUS
<1>1. CASE \E d \in Directives : SetSlot(d) \/ EsiTypes(d)
  BY <1>1, SetSlotInv, EsiTypesInv
<1>2. CASE EndReading
  BY <1>2, EndReadingInv
<1>3. CASE Merge
  BY <1>3, MergeInv
<1>4. CASE UNCHANGED confVars
  <2>1. UNCHANGED <<written, conf, merged, refused>>
    BY <1>4 DEF confVars
  <2>2. \A b, s : WrittenIn(b, s)' = WrittenIn(b, s) /\ Setting(b, s)' = Setting(b, s)
    BY <2>1 DEF WrittenIn, Giving, Setting
  <2>3. \A b : AsRead(b) => AsRead(b)'
    BY <2>1, <2>2 DEF AsRead
  <2>4. SettingsInherited'
    BY <2>1, <2>2 DEF ConfInv, SettingsInherited
  <2> QED BY <2>1, <2>3, <2>4 DEF ConfInv
<1> QED BY <1>1, <1>2, <1>3, <1>4 DEF ConfNext

(***************************************************************************)
(* A merged block has the settings of the innermost block that gives them, *)
(* and the defaults if none does (ngx_http_esi_merge_loc_conf).            *)
(***************************************************************************)
THEOREM Inherited == ConfSpec => []SettingsInherited
<1>1. ConfInv => SettingsInherited
  BY DEF ConfInv
<1> QED BY <1>1, ConfInitInv, ConfNextInv, PTL DEF ConfSpec

-----------------------------------------------------------------------------
(* The types.                                                              *)

\* The loop over the types of a directive is defined.
LEMMA PushedExists ==
  ASSUME NEW T, NEW list \in Seq(T)
  PROVE  \E pushed \in [0..Len(list) -> Seq(T)] :
           /\ Others(list) = pushed[Len(list)]
           /\ pushed[0] = <<>>
           /\ \A n \in 1..Len(list) :
                pushed[n] = IF list[n] = Html THEN pushed[n - 1]
                                              ELSE Append(pushed[n - 1], list[n])
<1> DEFINE L == Len(list)
           S == Seq(T)
           Adds(n, s) == IF list[n] = Html THEN s ELSE Append(s, list[n])
           Pushed(f, n) == IF n = 0 THEN <<>> ELSE Adds(n, f[n - 1])
           g == [n \in 1..L |-> [s \in S |-> Adds(n, s)]]
           pushed == CHOOSE f : f = [n \in 0..L |-> Pushed(f, n)]
           none == <<>>
<1>1. L \in Nat /\ \A n \in 1..L : list[n] \in T
  OBVIOUS
<1>2. none \in S /\ \A n \in 1..L : \A s \in S : Adds(n, s) \in S
  BY <1>1
<1> HIDE DEF Adds, S, L
<1>3. g \in [1..L -> [S -> S]]
  BY <1>2
<1>4. PICK f : Recursion(f, L, S, none, g)
  <2> HIDE DEF g, none
  <2> QED BY <1>1, <1>2, <1>3, RecursionExists
<1>5. \A n \in 1..L : f[n] = Adds(n, f[n - 1])
  <2> TAKE n \in 1..L
  <2>1. f[n - 1] \in S
    BY <1>1, <1>4 DEF Recursion
  <2> QED BY <1>4, <2>1 DEF Recursion
<1>6. \A n \in 0..L : f[n] = Pushed(f, n)
  BY <1>1, <1>4, <1>5 DEF Recursion
<1>7. f = [n \in 0..L |-> Pushed(f, n)]
  <2> HIDE DEF Pushed
  <2> QED BY <1>4, <1>6 DEF Recursion
<1>8. pushed = [n \in 0..L |-> Pushed(pushed, n)]
  <2> HIDE DEF Pushed
  <2> QED BY <1>7
<1>9. Others(list) = pushed[L]
  BY DEF Others, Adds, L
<1> HIDE DEF pushed
<1>10. pushed[0] = <<>> /\ \A n \in 1..L : pushed[n] = Adds(n, pushed[n - 1])
  BY <1>1, <1>8
<1>11. pushed \in [0..L -> S]
  <2>1. pushed = [n \in 0..L |-> pushed[n]]
    BY <1>8
  <2>2. \A n \in 1..L : pushed[n - 1] \in S => pushed[n] \in S
    BY <1>2, <1>10
  <2>3. pushed[0] \in S
    BY <1>2, <1>10
  <2> QED BY <1>1, <2>1, <2>2, <2>3, RecursionType
<1>12. \A n \in 1..L :
         pushed[n] = IF list[n] = Html THEN pushed[n - 1] ELSE Append(pushed[n - 1], list[n])
  BY <1>10 DEF Adds
<1> QED BY <1>9, <1>10, <1>11, <1>12 DEF L, S

\* What is appended is in the sequence then.
LEMMA ToSetAppend ==
  ASSUME NEW T, NEW s \in Seq(T), NEW e \in T
  PROVE  ToSet(Append(s, e)) = ToSet(s) \cup {e}
<1> DEFINE longer == Append(s, e)
<1>1. /\ Len(s) \in Nat /\ DOMAIN s = 1..Len(s) /\ DOMAIN longer = 1..(Len(s) + 1)
      /\ \A i \in 1..Len(s) : longer[i] = s[i]
      /\ longer[Len(s) + 1] = e
  <2>1. Len(longer) = Len(s) + 1 /\ longer \in Seq(T)
    BY AppendProperties
  <2>2. DOMAIN longer = 1..Len(longer)
    BY <2>1
  <2> QED BY <2>1, <2>2, AppendProperties
<1> HIDE DEF longer
<1>2. DOMAIN longer = DOMAIN s \cup {Len(s) + 1}
  BY <1>1
<1> QED BY <1>1, <1>2 DEF ToSet, longer

(***************************************************************************)
(* It pushes all of them but text/html (ngx_http_esi_types).               *)
(***************************************************************************)
LEMMA OthersAre ==
  ASSUME NEW T, NEW list \in Seq(T)
  PROVE  Others(list) \in Seq(T) /\ ToSet(Others(list)) = ToSet(list) \ {Html}
<1> DEFINE L == Len(list)
<1>1. PICK pushed \in [0..L -> Seq(T)] :
        /\ Others(list) = pushed[L]
        /\ pushed[0] = <<>>
        /\ \A n \in 1..L :
             pushed[n] = IF list[n] = Html THEN pushed[n - 1] ELSE Append(pushed[n - 1], list[n])
  BY PushedExists
<1>2. L \in Nat /\ DOMAIN list = 1..L /\ \A n \in 1..L : list[n] \in T
  OBVIOUS
<1> HIDE DEF L
<1> DEFINE Upto(n) == {list[i] : i \in 1..n} \ {Html}
           good == {n \in 0..L : ToSet(pushed[n]) = Upto(n)}
<1>3. 0 \in good
  <2>1. ToSet(pushed[0]) = {} /\ Upto(0) = {}
    BY <1>1 DEF ToSet
  <2> QED BY <1>2, <2>1
<1>4. ASSUME NEW n \in 1..L, n - 1 \in good PROVE n \in good
  <2> DEFINE s == pushed[n - 1]
             e == list[n]
  <2>1. s \in Seq(T) /\ e \in T /\ ToSet(s) = Upto(n - 1)
    BY <1>1, <1>2, <1>4
  <2>2. Upto(n) = IF e = Html THEN Upto(n - 1) ELSE Upto(n - 1) \cup {e}
    <3>1. {list[i] : i \in 1..n} = {list[i] : i \in 1..(n - 1)} \cup {e}
      BY <1>2
    <3> QED BY <3>1
  <2>3. pushed[n] = IF e = Html THEN s ELSE Append(s, e)
    BY <1>1
  <2>4. ToSet(Append(s, e)) = ToSet(s) \cup {e}
    <3> HIDE DEF s, e
    <3> QED BY <2>1, ToSetAppend
  <2>5. ToSet(pushed[n]) = Upto(n)
    <3> HIDE DEF s, e, Upto
    <3> QED BY <2>1, <2>2, <2>3, <2>4
  <2>6. n \in 0..L
    BY <1>2
  <2> HIDE DEF Upto
  <2> QED BY <2>5, <2>6
<1>5. L \in good
  <2> HIDE DEF good
  <2>1. \A n \in 1..L : n - 1 \in good => n \in good
    BY <1>4
  <2>2. \A n \in 0..L : n \in good
    BY <1>2, <1>3, <2>1, InductionUpTo
  <2> QED BY <1>2, <2>2
<1>6. Upto(L) = ToSet(list) \ {Html}
  BY <1>2 DEF ToSet
<1> QED BY <1>1, <1>2, <1>5, <1>6

\* What is put behind is in the sequence then.
LEMMA ToSetConcat ==
  ASSUME NEW T, NEW s \in Seq(T), NEW t \in Seq(T)
  PROVE  s \o t \in Seq(T) /\ ToSet(s \o t) = ToSet(s) \cup ToSet(t)
<1>1. ASSUME NEW x \in ToSet(t) PROVE x \in ToSet(s \o t)
  <2>1. PICK i \in 1..Len(t) : x = t[i]
    BY DEF ToSet
  <2>2. Len(s) + i \in DOMAIN (s \o t) /\ (s \o t)[Len(s) + i] = x
    BY <2>1
  <2> QED BY <2>2 DEF ToSet
<1>2. ASSUME NEW x \in ToSet(s) PROVE x \in ToSet(s \o t)
  <2>1. PICK i \in 1..Len(s) : x = s[i]
    BY DEF ToSet
  <2>2. i \in DOMAIN (s \o t) /\ (s \o t)[i] = x
    BY <2>1
  <2> QED BY <2>2 DEF ToSet
<1>3. ASSUME NEW x \in ToSet(s \o t) PROVE x \in ToSet(s) \cup ToSet(t)
  BY <1>3 DEF ToSet
<1> QED BY <1>1, <1>2, <1>3

\* So an array that has text/html has all of a directive's types then.
LEMMA TypesAdded ==
  ASSUME NEW T, NEW array \in Seq(T), NEW list \in Seq(T), Html \in ToSet(array)
  PROVE  /\ array \o Others(list) \in Seq(T)
         /\ ToSet(array \o Others(list)) = ToSet(array) \cup ToSet(list)
<1>1. Others(list) \in Seq(T) /\ ToSet(Others(list)) = ToSet(list) \ {Html}
  BY OthersAre
<1>2. /\ array \o Others(list) \in Seq(T)
      /\ ToSet(array \o Others(list)) = ToSet(array) \cup (ToSet(list) \ {Html})
  BY <1>1, ToSetConcat
<1> QED BY <1>2

\* What a block has of its own before it is merged, and the outermost always:
\* an array of all that its directives list, if it has any.
OwnTypes(b) ==
  LET own == WrittenIn(b, "esi_types")
  IN  IF own = {}
        THEN types[b] = 0
        ELSE types[b] # 0 /\ ToSet(arrays[types[b]]) = {Html} \cup UNION {ToSet(d.types) : d \in own}

\* What an array may have in it.
Listable == STRING \cup {Html}

\* While directives are read no block shares an array that another one adds to.
TypesInv ==
  /\ arrays \in Seq(Seq(Listable))
  /\ types \in [1..Blocks -> 0..Len(arrays)]
  /\ merged = 0 => \A b, c \in 1..Blocks : types[b] = types[c] /\ types[b] # 0 => b = c
  /\ \A b \in 1..Blocks : b > merged \/ b = 1 => OwnTypes(b)
  /\ \A b \in 2..merged : types[b] # 0
  /\ TypesInherited

\* A directive of the block itself is the innermost one for it.
LEMMA GivingOwn ==
  ASSUME NEW b \in Nat \ {0}, NEW s, WrittenIn(b, s) # {}
  PROVE  Giving(b, s) # {} /\ Max(Giving(b, s)) = b
<1>1. b \in Giving(b, s) /\ Giving(b, s) \subseteq 0..b
  BY DEF Giving
<1>2. Max(Giving(b, s)) \in Giving(b, s) /\ \A y \in Giving(b, s) : Max(Giving(b, s)) >= y
  BY <1>1, MaxOf
<1> QED BY <1>1, <1>2

\* The types of a block that lists some, of one that lists none, and without any.
LEMMA ListedOwn ==
  ASSUME NEW b \in Nat \ {0}, WrittenIn(b, "esi_types") # {}
  PROVE  Listed(b) = {Html} \cup UNION {ToSet(d.types) : d \in WrittenIn(b, "esi_types")}
BY GivingOwn DEF Listed

\* A block that lists no types has those of the block around it.
LEMMA ListedOuter ==
  ASSUME NEW b \in Nat \ {0, 1}, WrittenIn(b, "esi_types") = {}
  PROVE  Listed(b) = Listed(b - 1)
<1>1. Giving(b, "esi_types") = Giving(b - 1, "esi_types")
  BY DEF Giving
<1> QED BY <1>1 DEF Listed

\* Where no block lists any, text/html is the only type.
LEMMA ListedDefault ==
  ASSUME WrittenIn(1, "esi_types") = {}
  PROVE  Listed(1) = {Html}
<1>1. Giving(1, "esi_types") = {}
  BY DEF Giving
<1> QED BY <1>1 DEF Listed

\* text/html alone is an array, and what a directive lists may be in one.
LEMMA HtmlArray ==
  /\ <<Html>> \in Seq(Listable) /\ ToSet(<<Html>>) = {Html}
  /\ \A list \in Seq(STRING) : list \in Seq(Listable)
<1>1. STRING \subseteq Listable /\ Html \in Listable
  BY DEF Listable
<1>2. \A h : ToSet(<<h>>) = {h}
  BY DEF ToSet
<1>3. \A T : \A h \in T : <<h>> \in Seq(T)
  OBVIOUS
<1>4. \A S, T : S \subseteq T => Seq(S) \subseteq Seq(T)
  <2> TAKE S, T
  <2>1. ASSUME S \subseteq T, NEW list \in Seq(S) PROVE list \in Seq(T)
    <3>1. Len(list) \in Nat /\ list \in [1..Len(list) -> T]
      BY <2>1
    <3> QED BY <3>1
  <2> QED BY <2>1
<1> QED BY <1>1, <1>2, <1>3, <1>4

\* What a directive lists.
LEMMA DirectiveTypes ==
  ASSUME NEW d \in Directives, d.name = "esi_types"
  PROVE  d.block \in 1..Blocks /\ d.types \in Seq(Listable)
<1>1. d.name \notin Settings
  BY SettingsAre
<1> QED BY <1>1, HtmlArray, DirectivesAssumption

\* Nothing is read yet.
LEMMA TypesInitInv == ConfInit => TypesInv
<1> SUFFICES ASSUME ConfInit PROVE TypesInv
  OBVIOUS
<1>1. /\ arrays = <<>> /\ merged = 0 /\ written = {}
      /\ types = [b \in 1..Blocks |-> 0]
  BY DEF ConfInit
<1>2. arrays \in Seq(Seq(Listable)) /\ Len(arrays) = 0
  <2>1. \A T : <<>> \in Seq(T) /\ Len(<<>>) = 0
    OBVIOUS
  <2> QED BY <1>1, <2>1
<1>3. types \in [1..Blocks -> 0..Len(arrays)]
  BY <1>1, <1>2
<1>4. \A b \in 1..Blocks : OwnTypes(b)
  BY <1>1 DEF OwnTypes, WrittenIn
<1> QED BY <1>1, <1>2, <1>3, <1>4 DEF TypesInv, TypesInherited

(***************************************************************************)
(* A flag or a number lists no types, and reading ends with them as they   *)
(* are.                                                                    *)
(***************************************************************************)
LEMMA TypesAlone ==
  ASSUME ConfInv, TypesInv,
         \/ \E d \in Directives : SetSlot(d)
         \/ EndReading
         \/ UNCHANGED confVars
  PROVE  TypesInv'
<1>1. types' = types /\ arrays' = arrays
  BY DEF SetSlot, EndReading, confVars
<1>2. \A b : WrittenIn(b, "esi_types")' = WrittenIn(b, "esi_types")
  <2>1. CASE \E d \in Directives : SetSlot(d)
    <3>1. PICK d \in Directives : SetSlot(d)
      BY <2>1
    <3>2. written' = written \cup {d} /\ d.name # "esi_types"
      BY <3>1, SettingsAre DEF SetSlot, Write
    <3> QED BY <3>2 DEF WrittenIn
  <2> QED BY <2>1 DEF EndReading, confVars, WrittenIn
<1>3. merged' = merged \/ (merged = 0 /\ merged' = 1)
  BY DEF SetSlot, Write, EndReading, confVars
<1>4. \A b : OwnTypes(b)' = OwnTypes(b) /\ Listed(b)' = Listed(b)
  BY <1>1, <1>2 DEF OwnTypes, Listed, Giving
<1>5. \A b \in 1..Blocks : b > merged' \/ b = 1 => b > merged \/ b = 1
  BY <1>3, BlocksAssumption DEF ConfInv
<1>6. 2..merged' = 2..merged
  BY <1>3
<1>7. merged' = 0 => merged = 0
  BY <1>3
<1> QED BY <1>1, <1>4, <1>5, <1>6, <1>7 DEF TypesInv, TypesInherited

(***************************************************************************)
(* A list of types makes the array of its block, which no other block has, *)
(* or adds to it (ngx_http_esi_types).                                     *)
(***************************************************************************)
LEMMA EsiTypesTypes ==
  ASSUME ConfInv, TypesInv, NEW d \in Directives, EsiTypes(d)
  PROVE  TypesInv'
<1> DEFINE own(b) == WrittenIn(b, "esi_types")
           all(b) == UNION {ToSet(e.types) : e \in own(b)}
<1>1. /\ merged = 0 /\ merged' = 0 /\ written' = written \cup {d} /\ d.name = "esi_types"
      /\ d.block \in 1..Blocks /\ d.types \in Seq(Listable)
  BY DirectiveTypes DEF EsiTypes, Write
<1>2. \A b : own(b)' = IF b = d.block THEN own(b) \cup {d} ELSE own(b)
  BY <1>1 DEF WrittenIn
<1>3. /\ \A b \in 1..Blocks : OwnTypes(b)
      /\ arrays \in Seq(Seq(Listable)) /\ Len(arrays) \in Nat
      /\ types \in [1..Blocks -> 0..Len(arrays)]
      /\ \A b, c \in 1..Blocks : types[b] = types[c] /\ types[b] # 0 => b = c
  BY <1>1 DEF TypesInv
<1>4. \A b : all(b)' = IF b = d.block THEN all(b) \cup ToSet(d.types) ELSE all(b)
  BY <1>2
<1>5. SUFFICES /\ arrays' \in Seq(Seq(Listable))
               /\ types' \in [1..Blocks -> 0..Len(arrays')]
               /\ \A b, c \in 1..Blocks : types'[b] = types'[c] /\ types'[b] # 0 => b = c
               /\ \A b \in 1..Blocks : OwnTypes(b)'
  BY <1>1 DEF TypesInv, TypesInherited
<1>6. \A b : OwnTypes(b)' <=> IF own(b)' = {}
                              THEN types'[b] = 0
                              ELSE types'[b] # 0 /\ ToSet(arrays'[types'[b]]) = {Html} \cup all(b)'
  BY DEF OwnTypes
<1>7. \A b : OwnTypes(b) <=> IF own(b) = {}
                             THEN types[b] = 0
                             ELSE types[b] # 0 /\ ToSet(arrays[types[b]]) = {Html} \cup all(b)
  BY DEF OwnTypes
<1>8. CASE types[d.block] = 0
  <2> DEFINE array == <<Html>> \o Others(d.types)
             n == Len(arrays) + 1
  <2>1. array \in Seq(Listable) /\ ToSet(array) = {Html} \cup ToSet(d.types)
    <3> DEFINE first == <<Html>>
    <3>1. first \in Seq(Listable) /\ ToSet(first) = {Html} /\ Html \in ToSet(first)
      BY HtmlArray
    <3> HIDE DEF first
    <3>2. /\ first \o Others(d.types) \in Seq(Listable)
          /\ ToSet(first \o Others(d.types)) = ToSet(first) \cup ToSet(d.types)
      BY <1>1, <3>1, TypesAdded
    <3> QED BY <3>1, <3>2 DEF first
  <2>2. arrays' = Append(arrays, array)
    BY <1>8 DEF EsiTypes
  <2> HIDE DEF array
  <2>3. /\ arrays' \in Seq(Seq(Listable)) /\ Len(arrays') = n
        /\ arrays'[n] = array /\ \A m \in 1..Len(arrays) : arrays'[m] = arrays[m]
    BY <1>3, <2>1, <2>2, AppendProperties
  <2>4. types' = [types EXCEPT ![d.block] = n]
    BY <1>8, <2>3 DEF EsiTypes
  <2>5. /\ types' \in [1..Blocks -> 0..n]
        /\ \A b \in 1..Blocks : types'[b] = IF b = d.block THEN n ELSE types[b]
    BY <1>1, <1>3, <2>4
  <2>6. \A b, c \in 1..Blocks : types'[b] = types'[c] /\ types'[b] # 0 => b = c
    BY <1>3, <2>5
  <2>7. ASSUME NEW b \in 1..Blocks PROVE OwnTypes(b)'
    <3>1. CASE b = d.block
      <4>1. own(b) = {}
        BY <1>3, <1>7, <1>8, <3>1
      <4>2. own(b)' = {d} /\ all(b)' = ToSet(d.types)
        BY <1>2, <3>1, <4>1
      <4>3. types'[b] = n /\ n # 0 /\ arrays'[types'[b]] = array
        BY <1>3, <2>3, <2>5, <3>1
      <4>4. own(b)' # {} /\ ToSet(array) = {Html} \cup all(b)'
        BY <2>1, <4>2
      <4> HIDE DEF own, all, n
      <4> QED BY <1>6, <4>3, <4>4
    <3>2. CASE b # d.block
      <4>1. own(b)' = own(b) /\ all(b)' = all(b) /\ types'[b] = types[b] /\ OwnTypes(b)
        BY <1>2, <1>3, <1>4, <2>5, <3>2
      <4>2. types[b] # 0 => arrays'[types[b]] = arrays[types[b]]
        BY <1>3, <2>3
      <4> HIDE DEF own, all
      <4> QED BY <1>6, <1>7, <4>1, <4>2
    <3> QED BY <3>1, <3>2
  <2> QED BY <2>3, <2>5, <2>6, <2>7
<1>9. CASE types[d.block] # 0
  <2> DEFINE n == types[d.block]
             array == arrays[n] \o Others(d.types)
  <2>1. n \in 1..Len(arrays) /\ arrays[n] \in Seq(Listable)
    BY <1>1, <1>3, <1>9
  <2>2. own(d.block) # {} /\ ToSet(arrays[n]) = {Html} \cup all(d.block)
    BY <1>1, <1>3, <1>7, <1>9
  <2>3. array \in Seq(Listable) /\ ToSet(array) = ToSet(arrays[n]) \cup ToSet(d.types)
    <3>1. Html \in ToSet(arrays[n])
      BY <2>2
    <3> HIDE DEF n
    <3> QED BY <1>1, <2>1, <3>1, TypesAdded
  <2>4. arrays' = [arrays EXCEPT ![n] = array] /\ types' = types
    BY <1>9 DEF EsiTypes
  <2> HIDE DEF n, array
  <2>5. /\ arrays' \in Seq(Seq(Listable)) /\ Len(arrays') = Len(arrays)
        /\ \A m \in 1..Len(arrays) : arrays'[m] = IF m = n THEN array ELSE arrays[m]
    BY <1>3, <2>1, <2>3, <2>4
  <2>6. ASSUME NEW b \in 1..Blocks PROVE OwnTypes(b)'
    <3>1. CASE b = d.block
      <4>1. own(b)' # {} /\ all(b)' = all(b) \cup ToSet(d.types) /\ types'[b] = n
        BY <1>2, <1>4, <2>2, <2>4, <3>1 DEF n
      <4>2. arrays'[n] = array /\ n # 0
        BY <2>1, <2>5
      <4>3. ToSet(array) = {Html} \cup all(b)'
        <5>1. ToSet(array) = ({Html} \cup all(b)) \cup ToSet(d.types)
          BY <2>2, <2>3, <3>1
        <5> HIDE DEF all
        <5> QED BY <4>1, <5>1
      <4> QED BY <1>6, <4>1, <4>2, <4>3
    <3>2. CASE b # d.block
      <4>1. own(b)' = own(b) /\ all(b)' = all(b) /\ types'[b] = types[b] /\ OwnTypes(b)
        BY <1>2, <1>3, <1>4, <2>4, <3>2
      <4>2. types[b] # 0 => arrays'[types[b]] = arrays[types[b]]
        <5>1. types[b] # 0 => types[b] # n
          BY <1>1, <1>3, <3>2 DEF n
        <5> QED BY <1>3, <2>5, <5>1
      <4> HIDE DEF own, all
      <4> QED BY <1>6, <1>7, <4>1, <4>2
    <3> QED BY <3>1, <3>2
  <2> QED BY <1>3, <2>4, <2>5, <2>6
<1> QED BY <1>8, <1>9

(***************************************************************************)
(* A block that lists none takes the array of the block around it, which   *)
(* is not added to any more, or one with text/html alone                   *)
(* (ngx_http_merge_types).                                                 *)
(***************************************************************************)
LEMMA MergeTypes ==
  ASSUME ConfInv, TypesInv, Merge
  PROVE  TypesInv'
<1> DEFINE b == merged + 1
           own(c) == WrittenIn(c, "esi_types")
<1>1. /\ merged \in 1..(Blocks - 1) /\ merged' = b /\ written' = written
      /\ IF types[b] = 0 /\ types[merged] = 0
           THEN /\ arrays' = Append(arrays, <<Html>>)
                /\ types' = [types EXCEPT ![b] = Len(arrays')]
           ELSE /\ types' = [types EXCEPT ![b] = IF @ = 0 THEN types[merged] ELSE @]
                /\ UNCHANGED arrays
  BY DEF Merge
<1>2. b \in 2..Blocks /\ merged \in 1..Blocks /\ b - 1 = merged /\ b # merged /\ b > merged
  BY <1>1, BlocksAssumption
<1>3. /\ arrays \in Seq(Seq(Listable)) /\ Len(arrays) \in Nat
      /\ types \in [1..Blocks -> 0..Len(arrays)]
      /\ \A c \in 1..Blocks : c > merged \/ c = 1 => OwnTypes(c)
      /\ \A c \in 2..merged : types[c] # 0 /\ ToSet(arrays[types[c]]) = Listed(c)
  BY <1>1 DEF TypesInv, TypesInherited
<1>4. /\ \A c : own(c)' = own(c)
      /\ \A c : Listed(c)' = Listed(c)
  BY <1>1 DEF WrittenIn, Listed, Giving
<1>5. OwnTypes(b) /\ OwnTypes(1) /\ b \in 1..Blocks /\ 1 \in 1..Blocks
  <2>1. b \in 1..Blocks /\ 1 \in 1..Blocks
    BY <1>2, BlocksAssumption
  <2> HIDE DEF b
  <2> QED BY <1>2, <1>3, <2>1
<1> HIDE DEF b
\* What block b is left with is what it lists itself, or what the file lists around it.
<1>6. types[b] # 0 => ToSet(arrays[types[b]]) = Listed(b)
  BY <1>2, <1>5, ListedOwn DEF OwnTypes
<1>7. types[b] = 0 /\ types[merged] # 0 => ToSet(arrays[types[merged]]) = Listed(b)
  <2> SUFFICES ASSUME types[b] = 0, types[merged] # 0
               PROVE  ToSet(arrays[types[merged]]) = Listed(merged)
    <3>1. types[b] = 0 => Listed(b) = Listed(merged)
      BY <1>2, <1>5, ListedOuter DEF OwnTypes
    <3> QED BY <3>1
  <2>1. CASE merged = 1
    <3>1. /\ own(1) # {}
          /\ ToSet(arrays[types[1]]) = {Html} \cup UNION {ToSet(d.types) : d \in own(1)}
      BY <1>5, <2>1 DEF OwnTypes
    <3>2. Listed(1) = {Html} \cup UNION {ToSet(d.types) : d \in own(1)}
      BY <3>1, ListedOwn
    <3> QED BY <2>1, <3>1, <3>2
  <2>2. CASE merged # 1
    BY <1>1, <1>3, <2>2
  <2> QED BY <2>1, <2>2
<1>8. types[b] = 0 /\ types[merged] = 0 => Listed(b) = {Html}
  <2> SUFFICES ASSUME types[b] = 0, types[merged] = 0
               PROVE  Listed(b) = {Html}
    OBVIOUS
  <2>1. Listed(b) = Listed(merged)
    BY <1>2, <1>5, ListedOuter DEF OwnTypes
  <2>2. merged = 1
    BY <1>1, <1>3
  <2> QED BY <1>5, <2>1, <2>2, ListedDefault DEF OwnTypes
\* The arrays there are stay as they are.
<1>9. /\ arrays' \in Seq(Seq(Listable)) /\ Len(arrays') \in Nat /\ Len(arrays') >= Len(arrays)
      /\ \A n \in 1..Len(arrays) : arrays'[n] = arrays[n]
      /\ types' \in [1..Blocks -> 0..Len(arrays')]
      /\ \A c \in 1..Blocks : c # b => types'[c] = types[c]
      /\ types'[b] # 0 /\ ToSet(arrays'[types'[b]]) = Listed(b)
  <2>1. CASE types[b] = 0 /\ types[merged] = 0
    <3> DEFINE first == <<Html>>
               n == Len(arrays) + 1
    <3>1. first \in Seq(Listable) /\ ToSet(first) = Listed(b)
      BY <1>8, <2>1, HtmlArray
    <3>2. arrays' = Append(arrays, first)
      BY <1>1, <2>1
    <3> HIDE DEF first
    <3>3. /\ arrays' \in Seq(Seq(Listable)) /\ Len(arrays') = n
          /\ arrays'[n] = first /\ \A m \in 1..Len(arrays) : arrays'[m] = arrays[m]
      BY <1>3, <3>1, <3>2, AppendProperties
    <3>4. types' = [types EXCEPT ![b] = n]
      BY <1>1, <2>1, <3>3
    <3>5. /\ types' \in [1..Blocks -> 0..n]
          /\ \A c \in 1..Blocks : types'[c] = IF c = b THEN n ELSE types[c]
      BY <1>3, <1>5, <3>4
    <3> QED BY <1>3, <1>5, <3>1, <3>3, <3>5
  <2>2. CASE ~ (types[b] = 0 /\ types[merged] = 0)
    <3> DEFINE n == IF types[b] = 0 THEN types[merged] ELSE types[b]
    <3>1. arrays' = arrays /\ types' = [types EXCEPT ![b] = n]
      BY <1>1, <2>2
    <3>2. n \in 1..Len(arrays) /\ ToSet(arrays[n]) = Listed(b)
      BY <1>2, <1>3, <1>5, <1>6, <1>7, <2>2
    <3> HIDE DEF n
    <3>3. /\ types' \in [1..Blocks -> 0..Len(arrays)]
          /\ \A c \in 1..Blocks : types'[c] = IF c = b THEN n ELSE types[c]
      BY <1>3, <1>5, <3>1, <3>2
    <3> QED BY <1>3, <1>5, <3>1, <3>2, <3>3
  <2> QED BY <2>1, <2>2
<1>10. \A c \in 1..Blocks : c # b /\ types[c] # 0 => arrays'[types'[c]] = arrays[types[c]]
  BY <1>3, <1>9
<1>11. \A c \in 2..merged' : types'[c] # 0 /\ ToSet(arrays'[types'[c]]) = Listed(c)'
  <2> SUFFICES ASSUME NEW c \in 2..merged', c # b
               PROVE  types'[c] # 0 /\ ToSet(arrays'[types'[c]]) = Listed(c)
    BY <1>4, <1>9
  <2>1. c \in 2..merged /\ c \in 1..Blocks
    BY <1>1, <1>2, BlocksAssumption
  <2> QED BY <1>3, <1>9, <1>10, <2>1
<1>12. ASSUME NEW c \in 1..Blocks, c > merged' \/ c = 1 PROVE OwnTypes(c)'
  <2>1. c # b /\ OwnTypes(c)
    BY <1>1, <1>2, <1>3, <1>12
  <2>2. types'[c] = types[c] /\ (types[c] # 0 => arrays'[types'[c]] = arrays[types[c]])
    BY <1>9, <1>10, <2>1
  <2> QED BY <1>4, <2>1, <2>2 DEF OwnTypes
<1>13. merged' # 0
  BY <1>1, <1>2
<1> QED BY <1>9, <1>11, <1>12, <1>13 DEF TypesInv, TypesInherited

\* Every step of reading and merging keeps both invariants.
LEMMA TypesNextInv == ConfInv /\ TypesInv /\ [ConfNext]_confVars => TypesInv'
<1> SUFFICES ASSUME ConfInv, TypesInv, [ConfNext]_confVars PROVE TypesInv'
  OBVIOUS
<1>1. CASE \E d \in Directives : EsiTypes(d)
  BY <1>1, EsiTypesTypes
<1>2. CASE Merge
  BY <1>2, MergeTypes
<1>3. CASE (\E d \in Directives : SetSlot(d)) \/ EndReading \/ UNCHANGED confVars
  BY <1>3, TypesAlone
<1> QED BY <1>1, <1>2, <1>3 DEF ConfNext

(***************************************************************************)
(* A merged block has text/html and the types that the innermost block     *)
(* that lists any lists, in whatever order the file has the directives     *)
(* (ngx_http_esi_types, ngx_http_esi_merge_loc_conf).  Arrays are shared   *)
(* by merging only, when all directives are read.                          *)
(***************************************************************************)
THEOREM ListedTypes == ConfSpec => []TypesInherited
<1>1. TypesInv => TypesInherited
  BY DEF TypesInv
<1> QED BY <1>1, ConfInitInv, ConfNextInv, TypesInitInv, TypesNextInv, PTL DEF ConfSpec

-----------------------------------------------------------------------------
(* Sequences of places.                                                    *)

Rising(s) == \A j, k \in DOMAIN s : j < k => s[j] < s[k]

\* A later place may be appended to a rising sequence, and later ones put behind it.
LEMMA RisingAppend ==
  ASSUME NEW s \in Seq(Nat), Rising(s), NEW n \in Nat, \A x \in ToSet(s) : x < n
  PROVE  Rising(Append(s, n))
<1> DEFINE longer == Append(s, n)
<1>1. /\ Len(s) \in Nat /\ Len(longer) = Len(s) + 1 /\ longer \in Seq(Nat)
      /\ \A i \in 1..Len(s) : longer[i] = s[i] /\ longer[i] < n
      /\ longer[Len(s) + 1] = n
  <2>1. \A i \in 1..Len(s) : s[i] \in ToSet(s)
    BY DEF ToSet
  <2> QED BY <2>1, AppendProperties
<1> HIDE DEF longer
<1>2. DOMAIN longer = 1..(Len(s) + 1) /\ DOMAIN s = 1..Len(s)
  BY <1>1
<1>3. Rising(longer)
  <2> SUFFICES ASSUME NEW j \in DOMAIN longer, NEW k \in DOMAIN longer, j < k
               PROVE  longer[j] < longer[k]
    BY DEF Rising
  <2>1. j \in 1..Len(s) /\ (k \in 1..Len(s) \/ k = Len(s) + 1)
    BY <1>1, <1>2
  <2> QED BY <1>1, <1>2, <2>1 DEF Rising
<1> QED BY <1>3 DEF longer

\* Rising sequences, the one below the other, make a rising sequence.
LEMMA RisingConcat ==
  ASSUME NEW s \in Seq(Nat), NEW t \in Seq(Nat), Rising(s), Rising(t),
         \A x \in ToSet(s), y \in ToSet(t) : x < y
  PROVE  Rising(s \o t)
<1> DEFINE both == s \o t
<1>1. /\ Len(s) \in Nat /\ Len(t) \in Nat /\ DOMAIN both = 1..(Len(s) + Len(t))
      /\ \A i \in 1..Len(s) : both[i] = s[i]
      /\ \A i \in 1..Len(t) : both[Len(s) + i] = t[i]
      /\ DOMAIN s = 1..Len(s) /\ DOMAIN t = 1..Len(t)
  OBVIOUS
<1>2. \A i \in 1..Len(s), j \in 1..Len(t) : s[i] < t[j]
  BY DEF ToSet
<1> HIDE DEF both
<1>3. ASSUME NEW j \in DOMAIN both, NEW k \in DOMAIN both, j < k PROVE both[j] < both[k]
  <2>1. CASE k <= Len(s)
    <3>1. j \in 1..Len(s) /\ k \in 1..Len(s)
      BY <1>1, <1>3, <2>1
    <3> QED BY <1>1, <1>3, <3>1 DEF Rising
  <2>2. CASE j <= Len(s) /\ k > Len(s)
    <3>1. j \in 1..Len(s) /\ k - Len(s) \in 1..Len(t) /\ k = Len(s) + (k - Len(s))
      BY <1>1, <2>2
    <3>2. both[k] = t[k - Len(s)]
      BY <1>1, <3>1
    <3> QED BY <1>1, <1>2, <3>1, <3>2
  <2>3. CASE j > Len(s)
    <3> DEFINE a == j - Len(s)
               b == k - Len(s)
    <3>1. a \in 1..Len(t) /\ b \in 1..Len(t) /\ a < b /\ j = Len(s) + a /\ k = Len(s) + b
      <4>1. j \in 1..(Len(s) + Len(t)) /\ k \in 1..(Len(s) + Len(t))
        BY <1>1
      <4>2. Len(s) \in Nat /\ Len(t) \in Nat
        BY <1>1
      <4>3. \A p, q \in Nat : \A x, y \in 1..(p + q) : p < x /\ x < y =>
              x - p \in 1..q /\ y - p \in 1..q /\ x - p < y - p /\ x = p + (x - p) /\ y = p + (y - p)
        OBVIOUS
      <4>4. Len(s) < j
        BY <2>3, <4>1, <4>2
      <4> QED BY <1>3, <4>1, <4>2, <4>3, <4>4
    <3> HIDE DEF a, b
    <3> QED BY <1>1, <3>1 DEF Rising
  <2> QED BY <1>1, <2>1, <2>2, <2>3
<1>4. Rising(both)
  BY <1>3 DEF Rising
<1> QED BY <1>4 DEF both

-----------------------------------------------------------------------------
(* The tags around a place of a page.                                      *)

PageTokens == [kind : {"text", "start", "end", "inline"},
               type : Types \cup {"none"}, src : Pages \cup {NoSrc}]

\* What a token of a page is.
LEMMA TokenOf ==
  ASSUME NEW tokens \in Seq(PageTokens), NEW n \in 1..Len(tokens)
  PROVE  /\ tokens[n] \in PageTokens
         /\ tokens[n].kind \in {"text", "start", "end", "inline"}
         /\ tokens[n].type \in AnyType
         /\ tokens[n].src \in Pages \cup {NoSrc}
<1>1. tokens[n] \in PageTokens
  <2> HIDE DEF PageTokens
  <2> QED OBVIOUS
<1> QED BY <1>1 DEF PageTokens, AnyType

\* The types of the tags around the place after a token, from those around it.
After(token, list) ==
  IF token.kind = "start" /\ token.type # "none" THEN Append(list, token.type)
  ELSE IF token.kind = "end" /\ token.type # "none" THEN Front(list)
  ELSE list

\* A token leaves a list of types a list of types.
LEMMA AfterType ==
  ASSUME NEW token \in PageTokens, NEW list \in Seq(Types)
  PROVE  After(token, list) \in Seq(Types)
<1>1. Front(list) \in Seq(Types)
  <2>1. CASE Len(list) = 0
    <3>1. Front(list) = [i \in 1..0 |-> list[i]]
      BY <2>1 DEF Front, SubSeq
    <3>2. Front(list) = <<>>
      BY <3>1
    <3>3. <<>> \in Seq(Types)
      OBVIOUS
    <3> QED BY <3>2, <3>3
  <2>2. CASE Len(list) # 0
    <3>1. Len(list) - 1 \in 0..Len(list)
      BY <2>2
    <3> QED BY <3>1, SubSeqProperties DEF Front
  <2> QED BY <2>1, <2>2
<1>2. token.type # "none" => Append(list, token.type) \in Seq(Types)
  <2>1. token.type \in Types \cup {"none"}
    BY DEF PageTokens
  <2> QED BY <2>1
<1> QED BY <1>1, <1>2 DEF After

(***************************************************************************)
(* Around is defined at every place: by the token before it and what is    *)
(* around that one.                                                        *)
(***************************************************************************)
LEMMA AroundIs ==
  ASSUME NEW tokens \in Seq(PageTokens)
  PROVE  /\ Around(tokens, 1) = <<>>
         /\ \A n \in 1..Len(tokens) :
              Around(tokens, n + 1) = After(tokens[n], Around(tokens, n))
         /\ \A n \in 1..(Len(tokens) + 1) : Around(tokens, n) \in Seq(Types)
<1> DEFINE L == Len(tokens)
           S == Seq(Types)
           Opened(f, m) == CASE m = 0 -> <<>>
             [] m > 0 /\ tokens[m].kind = "start" /\ tokens[m].type # "none" ->
                  Append(f[m - 1], tokens[m].type)
             [] m > 0 /\ tokens[m].kind = "end" /\ tokens[m].type # "none" ->
                  Front(f[m - 1])
             [] OTHER -> f[m - 1]
           g == [n \in 1..L |-> [s \in S |-> After(tokens[n], s)]]
           open == CHOOSE f : f = [m \in 0..L |-> Opened(f, m)]
           none == <<>>
<1>1. L \in Nat /\ none \in S /\ \A n \in 1..L : \A s \in S : After(tokens[n], s) \in S
  BY TokenOf, AfterType
<1>2. \A n : Around(tokens, n) = open[n - 1]
  BY DEF Around
<1>3. \A f : Opened(f, 0) = none /\ \A m \in 1..L : Opened(f, m) = After(tokens[m], f[m - 1])
  <2> TAKE f
  <2>1. Opened(f, 0) = none
    OBVIOUS
  <2>2. ASSUME NEW m \in 1..L PROVE Opened(f, m) = After(tokens[m], f[m - 1])
    <3>1. m > 0 /\ m # 0
      OBVIOUS
    <3> QED BY <3>1 DEF After
  <2> QED BY <2>1, <2>2
<1> HIDE DEF S, L, none, Opened
<1>4. g \in [1..L -> [S -> S]]
  BY <1>1
<1>5. PICK f : Recursion(f, L, S, none, g)
  <2> HIDE DEF g
  <2> QED BY <1>1, <1>4, RecursionExists
<1>6. \A m \in 1..L : f[m] = After(tokens[m], f[m - 1])
  <2> TAKE m \in 1..L
  <2>1. f[m - 1] \in S
    BY <1>1, <1>5 DEF Recursion
  <2> QED BY <1>5, <2>1 DEF Recursion
<1>7. \A m \in 0..L : f[m] = Opened(f, m)
  <2>1. f[0] = Opened(f, 0)
    BY <1>3, <1>5 DEF Recursion
  <2>2. \A m \in 1..L : f[m] = Opened(f, m)
    BY <1>3, <1>6
  <2>3. \A m \in 0..L : m = 0 \/ m \in 1..L
    BY <1>1
  <2> QED BY <2>1, <2>2, <2>3
<1>8. f = [m \in 0..L |-> Opened(f, m)]
  BY <1>5, <1>7 DEF Recursion
<1>9. open = [m \in 0..L |-> Opened(open, m)]
  BY <1>8
<1> HIDE DEF open
<1>10. open[0] = none /\ \A m \in 1..L : open[m] = After(tokens[m], open[m - 1])
  BY <1>1, <1>3, <1>9
<1>11. open \in [0..L -> S]
  <2>1. open = [n \in 0..L |-> open[n]]
    BY <1>9
  <2>2. \A n \in 1..L : open[n - 1] \in S => open[n] \in S
    BY <1>1, <1>10
  <2> QED BY <1>1, <1>10, <2>1, <2>2, RecursionType
<1>12. \A n \in 1..L : (n + 1) - 1 = n
  BY <1>1
<1>13. \A n \in 1..(L + 1) : n - 1 \in 0..L
  BY <1>1
<1>14. 1 - 1 = 0
  OBVIOUS
<1>15. Around(tokens, 1) = <<>>
  BY <1>2, <1>10, <1>14 DEF none
<1>16. \A n \in 1..L : Around(tokens, n + 1) = After(tokens[n], Around(tokens, n))
  BY <1>2, <1>10, <1>12
<1>17. \A n \in 1..(L + 1) : Around(tokens, n) \in S
  BY <1>2, <1>11, <1>13
<1> QED BY <1>15, <1>16, <1>17 DEF L, S

\* While no tag is within one of its own type, the tags around are of different types,
\* and a page that nests closes the innermost.
LEMMA NestsAt ==
  ASSUME NEW tokens \in Seq(PageTokens), Nests(tokens), NEW n \in 1..Len(tokens)
  PROVE  /\ tokens[n].kind \in {"start", "inline"} =>
              \A i \in DOMAIN Around(tokens, n) : Around(tokens, n)[i] # tokens[n].type
         /\ tokens[n].kind = "end" /\ tokens[n].type # "none" =>
              LET list == Around(tokens, n) IN list # <<>> /\ list[Len(list)] = tokens[n].type
<1>1. n \in DOMAIN tokens
  OBVIOUS
<1> QED BY <1>1 DEF Nests, Within, ToSet, Last

(***************************************************************************)
(* The list of a request is the end of the stack of the tags around a      *)
(* place: the list is forgotten at the beginning of every call, so all but *)
(* the first tags are in it, and those that are not are of the types of    *)
(* tags that calls ended within, cut.  As their end tags then close        *)
(* nothing, tags are ignored as the page says if none of them is an        *)
(* except.                                                                 *)
(***************************************************************************)
Behind(c, list, cut) ==
  LET lost == Len(list) - Len(c.root_tag)
  IN  /\ Len(c.root_tag) <= Len(list) /\ c.open_tag = Len(c.root_tag)
      /\ \A i \in 1..Len(c.root_tag) : c.root_tag[i] = list[lost + i]
      /\ \A i \in 1..lost : list[i] \in cut
      /\ "except" \notin cut => (c.ignore_tag <=> \E i \in DOMAIN list : list[i] = "except")

\* More calls may end within tags.
LEMMA BehindMore ==
  ASSUME NEW c, NEW list, NEW cut, Behind(c, list, cut), NEW more, cut \subseteq more
  PROVE  Behind(c, list, more)
BY DEF Behind

(***************************************************************************)
(* A call that begins forgets the tags around, which the last one ended    *)
(* within.                                                                 *)
(***************************************************************************)
LEMMA BehindReset ==
  ASSUME NEW c \in Contexts, NEW list \in Seq(Types), NEW cut, Behind(c, list, cut),
         ToSet(list) \subseteq cut
  PROVE  Behind(Reset(c), list, cut)
<1> DEFINE none == <<>>
           after == Reset(c)
<1>1. none \in Seq(Types) /\ Len(none) = 0 /\ Len(list) \in Nat
  OBVIOUS
<1>2. after.root_tag = none /\ after.open_tag = 0 /\ after.ignore_tag = c.ignore_tag
  BY ResetType
<1>3. \A i \in 1..Len(list) : list[i] \in cut
  BY DEF ToSet
<1> HIDE DEF none, after
<1>4. Len(list) - Len(after.root_tag) = Len(list)
  BY <1>1, <1>2
<1>5. Behind(after, list, cut)
  BY <1>1, <1>2, <1>3, <1>4 DEF Behind
<1> QED BY <1>5 DEF after

(***************************************************************************)
(* Opening a tag of a type that is not around the place puts it behind     *)
(* both the list and the stack.                                            *)
(***************************************************************************)
LEMMA BehindPush ==
  ASSUME NEW c \in Contexts, NEW list \in Seq(Types), NEW type \in Types, NEW cut,
         ~ c.exception_raised, Behind(c, list, cut), Distinct(list),
         \A i \in DOMAIN list : list[i] # type
  PROVE  /\ Behind(StartTagCb(c, type), Append(list, type), cut)
         /\ Distinct(Append(list, type))
         /\ ~ StartTagCb(c, type).exception_raised
<1> DEFINE root == c.root_tag
           new == Append(list, type)
           longer == Append(root, type)
           after == StartTagCb(c, type)
           lost == Len(list) - Len(root)
<1>1. /\ root \in Seq(Types) /\ Len(root) \in Nat /\ Len(list) \in Nat
      /\ Len(root) <= Len(list) /\ lost \in Nat
      /\ \A i \in 1..Len(root) : root[i] = list[lost + i]
      /\ \A i \in 1..lost : list[i] \in cut
      /\ "except" \notin cut => (c.ignore_tag <=> \E i \in DOMAIN list : list[i] = "except")
  BY DEF Behind, Contexts
<1>2. /\ Len(new) = Len(list) + 1 /\ DOMAIN new = 1..(Len(list) + 1) /\ DOMAIN list = 1..Len(list)
      /\ \A i \in 1..Len(list) : new[i] = list[i]
      /\ new[Len(list) + 1] = type
      /\ Len(longer) = Len(root) + 1
      /\ \A i \in 1..Len(root) : longer[i] = root[i]
      /\ longer[Len(root) + 1] = type
  BY <1>1, AppendProperties
<1>3. /\ after.root_tag = longer /\ after.open_tag = Len(root) + 1 /\ ~ after.exception_raised
      /\ after.ignore_tag <=> c.ignore_tag \/ type = "except"
  BY StartTagCbTracks
<1> HIDE DEF new, longer, after, root
<1>4. Distinct(new)
  BY <1>1, <1>2 DEF Distinct
<1>5. (\E i \in DOMAIN new : new[i] = "except")
        <=> (\E i \in DOMAIN list : list[i] = "except") \/ type = "except"
  <2>1. /\ Len(list) + 1 \in DOMAIN new /\ DOMAIN list \subseteq DOMAIN new
        /\ \A i \in DOMAIN new : i = Len(list) + 1 \/ i \in DOMAIN list
        /\ \A i \in DOMAIN list : new[i] = list[i]
    BY <1>1, <1>2
  <2> QED BY <1>2, <2>1, Zenon
<1>6. Len(new) - Len(longer) = lost
  BY <1>1, <1>2
<1>7. \A i \in 1..Len(longer) : longer[i] = new[lost + i]
  <2> TAKE i \in 1..Len(longer)
  <2>1. CASE i = Len(root) + 1
    <3>1. lost + i = Len(list) + 1
      BY <1>1, <2>1
    <3> QED BY <1>2, <2>1, <3>1
  <2>2. CASE i # Len(root) + 1
    <3>1. i \in 1..Len(root) /\ lost + i \in 1..Len(list)
      BY <1>1, <1>2, <2>2
    <3> QED BY <1>1, <1>2, <3>1
  <2> QED BY <2>1, <2>2
<1>8. \A i \in 1..lost : new[i] \in cut
  <2>1. \A i \in 1..lost : i \in 1..Len(list)
    BY <1>1
  <2> QED BY <1>1, <1>2, <2>1
<1>9. Len(longer) <= Len(new)
  BY <1>1, <1>2
<1>10. Behind(after, new, cut)
  <2> HIDE DEF lost
  <2> QED BY <1>1, <1>2, <1>3, <1>5, <1>6, <1>7, <1>8, <1>9 DEF Behind
<1> QED BY <1>3, <1>4, <1>10 DEF after, new

(***************************************************************************)
(* Closing the innermost one takes it off both, or off the stack alone if  *)
(* the list is empty.                                                      *)
(***************************************************************************)
LEMMA BehindPop ==
  ASSUME NEW c \in Contexts, NEW list \in Seq(Types), NEW type \in Types, NEW cut,
         ~ c.exception_raised, Behind(c, list, cut), Distinct(list),
         list # <<>>, list[Len(list)] = type
  PROVE  /\ Behind(EndTagCb(c, type), SubSeq(list, 1, Len(list) - 1), cut)
         /\ Distinct(SubSeq(list, 1, Len(list) - 1))
         /\ ~ EndTagCb(c, type).exception_raised
<1> DEFINE root == c.root_tag
           n == Len(list)
           m == Len(root)
           new == SubSeq(list, 1, n - 1)
           after == EndTagCb(c, type)
           lost == n - m
<1>1. /\ root \in Seq(Types) /\ m \in Nat /\ n \in Nat \ {0} /\ m <= n /\ lost \in Nat
      /\ c.open_tag = m
      /\ \A i \in 1..m : root[i] = list[lost + i]
      /\ \A i \in 1..lost : list[i] \in cut
      /\ "except" \notin cut => (c.ignore_tag <=> \E i \in DOMAIN list : list[i] = "except")
  BY DEF Behind, Contexts
<1>2. /\ new \in Seq(Types) /\ Len(new) = n - 1 /\ DOMAIN new = 1..(n - 1)
      /\ \A i \in 1..(n - 1) : new[i] = list[i]
      /\ DOMAIN list = 1..n /\ n \in 1..n /\ list[n] = type
  <2>1. /\ new \in Seq(Types) /\ Len(new) = n - 1
        /\ \A i \in 1..(n - 1) : new[i] = list[i]
    <3>1. n - 1 \in Int /\ \A i \in 1..(n - 1) : list[i] \in Types
      BY <1>1
    <3>2. /\ Len(new) = IF 1 <= n - 1 THEN (n - 1) - 1 + 1 ELSE 0
          /\ \A i \in 1..((n - 1) - 1 + 1) : new[i] = list[1 + i - 1]
          /\ new \in Seq(Types)
      BY <3>1, SubSeqProperties
    <3> HIDE DEF new, n
    <3> QED BY <1>1, <3>2
  <2>2. DOMAIN new = 1..(n - 1)
    <3> HIDE DEF new, n
    <3> QED BY <2>1
  <2> QED BY <1>1, <2>1, <2>2
<1>3. (\E i \in DOMAIN new : new[i] = "except")
        <=> (\E i \in DOMAIN list : list[i] = "except") /\ type # "except"
  <2> HIDE DEF new, n
  <2>1. \A i \in DOMAIN list : list[i] = type => i = n
    BY <1>2 DEF Distinct
  <2>2. /\ \A i \in DOMAIN list : i = n \/ i \in DOMAIN new
        /\ \A i \in DOMAIN new : i \in DOMAIN list /\ i # n /\ new[i] = list[i]
    BY <1>1, <1>2
  <2>3. CASE type = "except"
    BY <2>1, <2>2, <2>3
  <2>4. CASE type # "except"
    <3>1. \A i \in DOMAIN list : list[i] = "except" => i \in DOMAIN new /\ new[i] = list[i]
      BY <1>2, <2>2, <2>4
    <3> QED BY <2>2, <2>4, <3>1
  <2> QED BY <2>3, <2>4
<1>4. Distinct(new)
  <2> HIDE DEF new, n
  <2> QED BY <1>1, <1>2 DEF Distinct
<1>5. CASE root = <<>>
  <2>1. after = c /\ m = 0 /\ lost = n
    BY <1>1, <1>5 DEF EndTagCb
  <2>2. type \in cut
    BY <1>1, <1>2, <2>1
  <2> HIDE DEF new, n, after, root
  <2>3. /\ Len(new) - m = n - 1 /\ 0 <= Len(new) /\ 1..m = {}
        /\ \A i \in 1..(n - 1) : new[i] \in cut
    BY <1>1, <1>2, <2>1
  <2>4. Behind(c, new, cut)
    <3> HIDE DEF m, lost
    <3>1. "except" \notin cut => (c.ignore_tag <=> \E i \in DOMAIN new : new[i] = "except")
      BY <1>1, <1>3, <2>2
    <3> QED BY <1>1, <2>1, <2>3, <3>1 DEF Behind, m, root
  <2> QED BY <1>4, <2>1, <2>4 DEF after, new, n
<1>6. CASE root # <<>>
  <2>1. m \in Nat \ {0} /\ root[m] = type
    <3>1. m \in Nat \ {0} /\ m \in 1..m /\ lost + m = n
      BY <1>1, <1>6
    <3> QED BY <1>1, <1>2, <3>1
  <2>2. Distinct(root)
    <3>1. \A i \in 1..m : lost + i \in 1..n
      BY <1>1
    <3>2. DOMAIN root = 1..m
      BY <1>1
    <3> HIDE DEF root, m, lost
    <3> SUFFICES ASSUME NEW i \in 1..m, NEW j \in 1..m, i # j
                 PROVE  root[i] # root[j]
      BY <3>2 DEF Distinct
    <3>3. lost + i # lost + j
      BY <1>1
    <3>4. list[lost + i] # list[lost + j]
      BY <1>2, <3>1, <3>3 DEF Distinct
    <3> QED BY <1>1, <3>4
  <2> DEFINE shorter == SubSeq(root, 1, m - 1)
  <2>3. /\ after.root_tag = shorter /\ after.open_tag = m - 1 /\ ~ after.exception_raised
        /\ after.ignore_tag <=> c.ignore_tag /\ type # "except"
    BY <1>6, <2>1, <2>2, EndTagCbTracks
  <2>4. Len(shorter) = m - 1 /\ \A i \in 1..(m - 1) : shorter[i] = root[i]
    BY <1>1, <2>1
  <2> HIDE DEF new, n, after, root, shorter
  <2>5. Len(new) - Len(shorter) = lost /\ Len(shorter) <= Len(new) /\ m - 1 \in Nat
    BY <1>1, <1>2, <2>1, <2>4
  <2>6. \A i \in 1..(m - 1) : shorter[i] = new[lost + i]
    <3>1. \A i \in 1..(m - 1) : lost + i \in 1..(n - 1) /\ i \in 1..m
      BY <1>1, <2>1
    <3> QED BY <1>1, <1>2, <2>4, <3>1
  <2>7. \A i \in 1..lost : new[i] \in cut
    <3>1. \A i \in 1..lost : i \in 1..(n - 1)
      BY <1>1, <2>1
    <3> QED BY <1>1, <1>2, <3>1
  <2>8. Behind(after, new, cut)
    <3> HIDE DEF m, lost
    <3> QED BY <1>1, <1>3, <2>3, <2>4, <2>5, <2>6, <2>7 DEF Behind
  <2> QED BY <1>4, <2>3, <2>8 DEF after, new, n
<1> QED BY <1>5, <1>6

(***************************************************************************)
(* An inline tag is put behind both and taken off both.                    *)
(***************************************************************************)
LEMMA BehindInline ==
  ASSUME NEW c \in Contexts, NEW list \in Seq(Types), NEW type \in Types, NEW cut,
         ~ c.exception_raised, Behind(c, list, cut), Distinct(list),
         \A i \in DOMAIN list : list[i] # type
  PROVE  /\ Behind(EndTagCb(StartTagCb(c, type), type), list, cut)
         /\ ~ EndTagCb(StartTagCb(c, type), type).exception_raised
<1> DEFINE c1   == StartTagCb(c, type)
           new == Append(list, type)
<1>1. Behind(c1, new, cut) /\ Distinct(new) /\ ~ c1.exception_raised
  BY BehindPush
<1>2. c1 \in Contexts
  BY StartTagCbType DEF AnyType
<1>3. /\ new \in Seq(Types) /\ new # <<>> /\ new[Len(new)] = type
      /\ SubSeq(new, 1, Len(new) - 1) = list
  BY AppendProperties, SubSeqFull
<1> HIDE DEF c1, new
<1>4. /\ Behind(EndTagCb(c1, type), SubSeq(new, 1, Len(new) - 1), cut)
      /\ ~ EndTagCb(c1, type).exception_raised
  BY <1>1, <1>2, <1>3, BehindPop
<1> QED BY <1>3, <1>4 DEF c1

\* Whether the innermost of these tags keeps its text.
Keeps(list) == list = <<>> \/ list[Len(list)] \in {"vars", "attempt"}

(***************************************************************************)
(* Text that the innermost tag keeps is kept (esi_tag_buffer), and no      *)
(* other if nothing is forgotten.                                          *)
(***************************************************************************)
LEMMA BehindKeeps ==
  ASSUME NEW c \in Contexts, NEW list \in Seq(Types), NEW cut,
         ~ c.exception_raised, Behind(c, list, cut)
  PROVE  /\ Keeps(list) => KeepsText(c)
         /\ cut = {} => (KeepsText(c) => Keeps(list))
<1> DEFINE root == c.root_tag
           lost == Len(list) - Len(root)
<1>1. /\ root \in Seq(Types) /\ Len(root) \in Nat /\ Len(list) \in Nat
      /\ Len(root) <= Len(list) /\ lost \in Nat /\ c.open_tag = Len(root)
      /\ \A i \in 1..Len(root) : root[i] = list[lost + i]
      /\ \A i \in 1..lost : list[i] \in cut
  BY DEF Behind, Contexts
<1>2. KeepsText(c) <=> root = <<>> \/ root[Len(root)] \in {"vars", "attempt"}
  <2>1. root = <<>> <=> c.open_tag = 0
    BY <1>1
  <2> QED BY <1>1, <2>1 DEF KeepsText, Buffers
<1>3. CASE root = <<>>
  <2>1. cut = {} => list = <<>>
    <3>1. lost = Len(list)
      BY <1>1, <1>3
    <3>2. cut = {} => ~ (1 \in 1..lost)
      BY <1>1
    <3> QED BY <1>1, <3>1, <3>2
  <2> QED BY <1>2, <1>3, <2>1 DEF Keeps
<1>4. CASE root # <<>>
  <2>1. Len(root) \in 1..Len(root) /\ lost + Len(root) = Len(list) /\ list # <<>>
    BY <1>1, <1>4
  <2>2. root[Len(root)] = list[Len(list)]
    BY <1>1, <2>1
  <2> QED BY <1>2, <1>4, <2>1, <2>2 DEF Keeps
<1> QED BY <1>3, <1>4

\* The types of the tags that calls ended within, at these places of a page.
CutTypes(tokens, ends) == UNION {ToSet(Around(tokens, n + 1)) : n \in ends}

\* The context of a request is that of the place it has reached, but for what it
\* forgot, if the page nests.
Tracks(tokens, at, tags, cut) ==
  Nests(tokens) =>
    LET list == Around(tokens, at + 1)
    IN  Behind(tags, list, cut) /\ Distinct(list) /\ ~ tags.exception_raised

\* At the beginning there is nothing around.
LEMMA TracksNothing ==
  ASSUME NEW tokens \in Seq(PageTokens), NEW cut
  PROVE  Tracks(tokens, 0, NoTags, cut) /\ NoTags \in Contexts
<1> DEFINE none == <<>>
<1>1. none \in Seq(Types) /\ Len(none) = 0 /\ DOMAIN none = {} /\ 1..0 = {}
  OBVIOUS
<1>2. Around(tokens, 0 + 1) = none
  BY AroundIs
<1>3. /\ NoTags.root_tag = none /\ NoTags.open_tag = 0
      /\ ~ NoTags.exception_raised /\ ~ NoTags.ignore_tag
  BY DEF NoTags
<1>4. Behind(NoTags, none, cut) /\ Distinct(none)
  <2> HIDE DEF none
  <2> QED BY <1>1, <1>3 DEF Behind, Distinct
<1>5. NoTags \in Contexts
  BY <1>1 DEF NoTags, Contexts
<1> HIDE DEF none
<1> QED BY <1>2, <1>3, <1>4, <1>5 DEF Tracks

\* More calls may end.
LEMMA TracksMore ==
  ASSUME NEW tokens, NEW at, NEW tags, NEW cut, Tracks(tokens, at, tags, cut),
         NEW more, cut \subseteq more
  PROVE  Tracks(tokens, at, tags, more)
BY BehindMore DEF Tracks

(***************************************************************************)
(* What the callbacks do with a token is what it does to the tags around   *)
(* the place (esi_parser_start_tag_cb, esi_parser_end_tag_cb).             *)
(***************************************************************************)
CallbackTags(token, tags) ==
  CASE token.kind = "start"  -> StartTagCb(tags, token.type)
    [] token.kind = "end"    -> EndTagCb(tags, token.type)
    [] token.kind = "inline" -> EndTagCb(StartTagCb(tags, token.type), token.type)
    [] token.kind = "text"   -> tags

\* The callbacks of a token lead from the tags open before it to those open after it.
LEMMA TokenTracks ==
  ASSUME NEW tokens \in Seq(PageTokens), NEW n \in 1..Len(tokens),
         NEW tags \in Contexts, NEW cut, Tracks(tokens, n - 1, tags, cut)
  PROVE  LET after == CallbackTags(tokens[n], tags)
         IN  Tracks(tokens, n, after, cut) /\ after \in Contexts
<1> DEFINE token == tokens[n]
           type == token.type
           list == Around(tokens, n)
           after == CallbackTags(token, tags)
<1>1. token.kind \in {"text", "start", "end", "inline"} /\ type \in AnyType
  BY TokenOf
<1>2. after \in Contexts
  BY <1>1, StartTagCbType, EndTagCbType DEF CallbackTags
<1>3. /\ n - 1 + 1 = n /\ n \in 1..(Len(tokens) + 1)
  OBVIOUS
<1>4. list \in Seq(Types) /\ Around(tokens, n + 1) = After(token, list)
  BY <1>3, AroundIs
<1>5. SUFFICES ASSUME Nests(tokens)
               PROVE  /\ Behind(after, After(token, list), cut) /\ Distinct(After(token, list))
                      /\ ~ after.exception_raised
  BY <1>2, <1>4 DEF Tracks
<1>6. Behind(tags, list, cut) /\ Distinct(list) /\ ~ tags.exception_raised
  BY <1>3, <1>5 DEF Tracks
<1>7. /\ token.kind \in {"start", "inline"} => \A i \in DOMAIN list : list[i] # type
      /\ token.kind = "end" /\ type # "none" => list # <<>> /\ list[Len(list)] = type
  BY <1>5, NestsAt
<1> HIDE DEF list, token
<1>8. type = "none" => after = tags /\ After(token, list) = list
  BY <1>1 DEF CallbackTags, After, StartTagCb, EndTagCb
<1>9. token.kind = "text" => after = tags /\ After(token, list) = list
  BY DEF CallbackTags, After
<1>10. CASE type # "none" /\ token.kind = "start"
  <2>1. type \in Types /\ after = StartTagCb(tags, type) /\ After(token, list) = Append(list, type)
    BY <1>1, <1>10 DEF CallbackTags, After, AnyType
  <2> HIDE DEF after, type
  <2> QED BY <1>4, <1>6, <1>7, <1>10, <2>1, BehindPush
<1>11. CASE type # "none" /\ token.kind = "inline"
  <2>1. /\ type \in Types /\ after = EndTagCb(StartTagCb(tags, type), type)
        /\ After(token, list) = list
    BY <1>1, <1>11 DEF CallbackTags, After, AnyType
  <2> HIDE DEF after, type
  <2> QED BY <1>4, <1>6, <1>7, <1>11, <2>1, BehindInline
<1>12. CASE type # "none" /\ token.kind = "end"
  <2>1. /\ type \in Types /\ after = EndTagCb(tags, type)
        /\ After(token, list) = SubSeq(list, 1, Len(list) - 1)
    BY <1>1, <1>12 DEF CallbackTags, After, AnyType, Front
  <2> HIDE DEF after, type
  <2> QED BY <1>4, <1>6, <1>7, <1>12, <2>1, BehindPop
<1> QED BY <1>1, <1>6, <1>8, <1>9, <1>10, <1>11, <1>12

-----------------------------------------------------------------------------
(* Text.                                                                   *)

\* Text that a call has read and that is not handed to output_cb yet is within the
\* tags that are around the place.
Waiting(tokens, at) ==
  {n \in 1..Len(tokens) : /\ n <= at /\ tokens[n].kind = "text"
                          /\ Around(tokens, n) = Around(tokens, at + 1)}

\* What the chain and output_buffer hold is in order, and all that the page keeps as
\* far as it was read; if no call ended within a tag the chain has nothing else, but
\* for text within excepts.
Held(tokens, at, chain, output_buffer, cut) ==
  /\ chain \in Seq(Nat) /\ output_buffer \in Seq(Nat)
  /\ Rising(chain) /\ Rising(output_buffer)
  /\ \A x \in ToSet(chain), y \in ToSet(output_buffer) : x < y
  /\ \A x \in ToSet(chain) \cup ToSet(output_buffer) : x <= at
  /\ ToSet(output_buffer) \subseteq Waiting(tokens, at)
  /\ Nests(tokens) =>
       /\ \A n \in KeptText(tokens) : n <= at => n \in ToSet(chain) \cup ToSet(output_buffer)
       /\ cut = {} => ToSet(chain) \subseteq KeptText(tokens) \cup ExceptText(tokens)

\* The empty sequence of places.
LEMMA NoPlaces ==
  LET none == <<>>
  IN  none \in Seq(Nat) /\ Rising(none) /\ ToSet(none) = {} /\ Len(none) = 0
BY DEF Rising, ToSet

\* The text that is kept, by the index of its token, and that of excepts.
LEMMA KeptTextIs ==
  ASSUME NEW tokens \in Seq(PageTokens)
  PROVE  /\ KeptText(tokens) \subseteq 1..Len(tokens)
         /\ \A n \in KeptText(tokens) : tokens[n].kind = "text" /\ Keeps(Around(tokens, n))
         /\ \A n \in 1..Len(tokens) :
              tokens[n].kind = "text" /\ Keeps(Around(tokens, n)) =>
                n \in KeptText(tokens) \cup ExceptText(tokens)
BY DEF KeptText, ExceptText, Keeps, Last

\* Before the first token nothing is held.
LEMMA HeldNothing ==
  ASSUME NEW tokens \in Seq(PageTokens), NEW cut
  PROVE  Held(tokens, 0, <<>>, <<>>, cut)
<1> DEFINE none == <<>>
<1>1. none \in Seq(Nat) /\ Rising(none) /\ ToSet(none) = {}
  BY NoPlaces
<1>2. \A n \in KeptText(tokens) : ~ (n <= 0)
  BY KeptTextIs
<1> HIDE DEF none
<1>3. Held(tokens, 0, none, none, cut)
  BY <1>1, <1>2 DEF Held
<1> QED BY <1>3 DEF none

\* More calls may end within tags.
LEMMA HeldMore ==
  ASSUME NEW tokens, NEW at, NEW chain, NEW output_buffer, NEW cut,
         Held(tokens, at, chain, output_buffer, cut), NEW more, cut \subseteq more
  PROVE  Held(tokens, at, chain, output_buffer, more)
<1>1. more = {} => cut = {}
  OBVIOUS
<1> QED BY <1>1 DEF Held

(***************************************************************************)
(* Text is put behind what output_buffer holds.                            *)
(***************************************************************************)
LEMMA HeldText ==
  ASSUME NEW tokens \in Seq(PageTokens), NEW n \in 1..Len(tokens), tokens[n].kind = "text",
         NEW chain, NEW output_buffer, NEW cut, Held(tokens, n - 1, chain, output_buffer, cut)
  PROVE  Held(tokens, n, chain, Append(output_buffer, n), cut)
<1> DEFINE longer == Append(output_buffer, n)
<1>1. n \in Nat /\ n - 1 + 1 = n /\ n \in 1..(Len(tokens) + 1)
  OBVIOUS
<1>2. /\ chain \in Seq(Nat) /\ output_buffer \in Seq(Nat) /\ Rising(chain) /\ Rising(output_buffer)
      /\ \A x \in ToSet(chain), y \in ToSet(output_buffer) : x < y
      /\ \A x \in ToSet(chain) \cup ToSet(output_buffer) : x <= n - 1
      /\ ToSet(output_buffer) \subseteq Waiting(tokens, n - 1)
      /\ Nests(tokens) =>
           /\ \A m \in KeptText(tokens) : m <= n - 1 => m \in ToSet(chain) \cup ToSet(output_buffer)
           /\ cut = {} => ToSet(chain) \subseteq KeptText(tokens) \cup ExceptText(tokens)
  BY DEF Held
<1>3. ToSet(chain) \subseteq Nat /\ ToSet(output_buffer) \subseteq Nat
  BY <1>2 DEF ToSet
<1>4. longer \in Seq(Nat) /\ ToSet(longer) = ToSet(output_buffer) \cup {n}
  BY <1>1, <1>2, ToSetAppend, AppendProperties
<1>5. \A x \in ToSet(chain) \cup ToSet(output_buffer) : x < n
  BY <1>1, <1>2, <1>3
<1>6. Rising(longer)
  BY <1>1, <1>2, <1>5, RisingAppend
<1> HIDE DEF longer
<1>7. ToSet(longer) \subseteq Waiting(tokens, n)
  <2>1. Around(tokens, n + 1) = Around(tokens, n)
    BY AroundIs DEF After
  <2>2. n \in Waiting(tokens, n)
    BY <1>1, <2>1 DEF Waiting
  <2>3. Waiting(tokens, n - 1) \subseteq Waiting(tokens, n)
    BY <1>1, <2>1 DEF Waiting
  <2> QED BY <1>2, <1>4, <2>2, <2>3
<1>8. /\ \A x \in ToSet(chain), y \in ToSet(longer) : x < y
      /\ \A x \in ToSet(chain) \cup ToSet(longer) : x <= n
  BY <1>1, <1>2, <1>3, <1>4, <1>5
<1>9. Nests(tokens) => \A m \in KeptText(tokens) : m <= n => m \in ToSet(chain) \cup ToSet(longer)
  <2>1. \A m \in KeptText(tokens) : m \in Nat
    BY KeptTextIs
  <2>2. \A m \in KeptText(tokens) : m <= n => m = n \/ m <= n - 1
    BY <1>1, <2>1
  <2> QED BY <1>2, <1>4, <2>2
<1>10. Held(tokens, n, chain, longer, cut)
  BY <1>2, <1>4, <1>6, <1>7, <1>8, <1>9 DEF Held
<1> QED BY <1>10 DEF longer

(***************************************************************************)
(* It goes to the chain if the open tag keeps it, and nowhere otherwise.   *)
(***************************************************************************)
LEMMA HeldFlushed ==
  ASSUME NEW tokens \in Seq(PageTokens), NEW at \in 0..Len(tokens),
         NEW chain, NEW output_buffer, NEW cut, Held(tokens, at, chain, output_buffer, cut),
         NEW keeps \in BOOLEAN,
         Nests(tokens) => /\ Keeps(Around(tokens, at + 1)) => keeps
                          /\ cut = {} => (keeps => Keeps(Around(tokens, at + 1)))
  PROVE  Held(tokens, at, IF keeps THEN chain \o output_buffer ELSE chain, <<>>, cut)
<1> DEFINE longer == IF keeps THEN chain \o output_buffer ELSE chain
           none == <<>>
<1>1. none \in Seq(Nat) /\ Rising(none) /\ ToSet(none) = {}
  BY NoPlaces
<1>2. /\ chain \in Seq(Nat) /\ output_buffer \in Seq(Nat) /\ Rising(chain) /\ Rising(output_buffer)
      /\ \A x \in ToSet(chain), y \in ToSet(output_buffer) : x < y
      /\ \A x \in ToSet(chain) \cup ToSet(output_buffer) : x <= at
      /\ ToSet(output_buffer) \subseteq Waiting(tokens, at)
      /\ Nests(tokens) =>
           /\ \A m \in KeptText(tokens) : m <= at => m \in ToSet(chain) \cup ToSet(output_buffer)
           /\ cut = {} => ToSet(chain) \subseteq KeptText(tokens) \cup ExceptText(tokens)
  BY DEF Held
<1>3. /\ longer \in Seq(Nat) /\ Rising(longer)
      /\ ToSet(longer) = ToSet(chain) \cup (IF keeps THEN ToSet(output_buffer) ELSE {})
  BY <1>2, RisingConcat, ToSetConcat
<1>4. \A m \in ToSet(output_buffer) :
        /\ m \in 1..Len(tokens) /\ tokens[m].kind = "text"
        /\ Around(tokens, m) = Around(tokens, at + 1)
  BY <1>2 DEF Waiting
<1> HIDE DEF longer, none
<1>5. Nests(tokens) => \A m \in KeptText(tokens) : m <= at => m \in ToSet(longer)
  <2> SUFFICES ASSUME Nests(tokens), NEW m \in KeptText(tokens), m <= at,
                      m \in ToSet(output_buffer)
               PROVE  keeps
    BY <1>2, <1>3
  <2> QED BY <1>4, KeptTextIs
<1>6. Nests(tokens) /\ cut = {} => ToSet(longer) \subseteq KeptText(tokens) \cup ExceptText(tokens)
  <2> SUFFICES ASSUME Nests(tokens), cut = {}, keeps, NEW m \in ToSet(output_buffer)
               PROVE  m \in KeptText(tokens) \cup ExceptText(tokens)
    BY <1>2, <1>3
  <2> QED BY <1>4, KeptTextIs
<1>7. \A x \in ToSet(longer) : x <= at
  BY <1>2, <1>3
<1>8. Held(tokens, at, longer, none, cut)
  BY <1>1, <1>3, <1>5, <1>6, <1>7 DEF Held
<1> QED BY <1>8 DEF longer, none

\* A tag is not text.
LEMMA HeldTag ==
  ASSUME NEW tokens \in Seq(PageTokens), NEW n \in 1..Len(tokens), tokens[n].kind # "text",
         NEW chain, NEW cut, Held(tokens, n - 1, chain, <<>>, cut)
  PROVE  Held(tokens, n, chain, <<>>, cut)
<1> DEFINE none == <<>>
<1>1. none \in Seq(Nat) /\ Rising(none) /\ ToSet(none) = {}
  BY NoPlaces
<1> HIDE DEF none
<1>2. Held(tokens, n - 1, chain, none, cut)
  BY DEF none
<1>3. chain \in Seq(Nat) /\ Rising(chain) /\ \A x \in ToSet(chain) : x \in Nat /\ x <= n - 1
  BY <1>2 DEF Held, ToSet
<1>4. Nests(tokens) =>
        /\ \A m \in KeptText(tokens) : m <= n - 1 => m \in ToSet(chain)
        /\ cut = {} => ToSet(chain) \subseteq KeptText(tokens) \cup ExceptText(tokens)
  BY <1>1, <1>2 DEF Held
<1>5. \A m \in KeptText(tokens) : m <= n => m <= n - 1
  <2>1. \A m \in KeptText(tokens) : m \in Nat /\ m # n
    BY KeptTextIs
  <2> QED BY <2>1
<1>6. Held(tokens, n, chain, none, cut)
  BY <1>1, <1>3, <1>4, <1>5 DEF Held
<1> QED BY <1>6 DEF none

-----------------------------------------------------------------------------
(* What was posted.                                                        *)

Posts == [at : Nat, sub : Nat]

\* The subrequests among what is posted are where they were.
SameSubs(posted, after) ==
  /\ Subs(after) = Subs(posted)
  /\ \A k \in Subs(posted) : after[k] = posted[k]

\* Where nothing is posted there is no subrequest.
LEMMA NothingPosted ==
  LET none == <<>>
  IN  none \in Seq(Posts) /\ Sent(none) = {} /\ Subs(none) = {}
BY DEF Sent, Subs

\* Pieces of text are put behind.
LEMMA PostedPieces ==
  ASSUME NEW posted \in Seq(Posts), NEW m \in Nat, NEW at \in [1..m -> Nat]
  PROVE  LET all == posted \o [k \in 1..m |-> Piece(at[k])]
         IN  /\ all \in Seq(Posts) /\ SameSubs(posted, all)
             /\ \A k \in Sent(posted) : k \in 1..Len(posted) /\ all[k] = posted[k]
             /\ \A k \in 1..m : all[Len(posted) + k].at = at[k]
             /\ Sent(all) = Sent(posted) \cup {Len(posted) + k : k \in 1..m}
<1> DEFINE new == [k \in 1..m |-> Piece(at[k])]
           all == posted \o new
           l == Len(posted)
<1>1. \A k \in 1..m : new[k] \in Posts /\ new[k].at = at[k] /\ new[k].sub = 0
  BY DEF Piece, Posts
<1>2. new \in Seq(Posts) /\ Len(new) = m
  BY <1>1
<1> HIDE DEF new
<1>3. /\ all \in Seq(Posts) /\ l \in Nat /\ DOMAIN all = 1..(l + m) /\ DOMAIN posted = 1..l
      /\ \A k \in 1..l : all[k] = posted[k]
      /\ \A k \in 1..m : all[l + k] = new[k]
  <2>1. l \in Nat /\ DOMAIN posted = 1..l /\ DOMAIN new = 1..m
    BY <1>2
  <2>2. all \in Seq(Posts) /\ Len(all) = l + m
    BY <1>2
  <2>3. DOMAIN all = 1..(l + m)
    BY <2>2
  <2>4. /\ \A k \in 1..l : all[k] = posted[k]
        /\ \A k \in 1..m : all[l + k] = new[k]
    BY <1>2, <2>1
  <2> QED BY <2>1, <2>2, <2>3, <2>4
<1> HIDE DEF all
<1>4. \A k \in DOMAIN all : k \in 1..l \/ \E j \in 1..m : k = l + j
  <2> TAKE k \in DOMAIN all
  <2>1. k \in 1..(l + m)
    BY <1>3
  <2>2. k \in 1..l \/ (k - l \in 1..m /\ k = l + (k - l))
    BY <1>3, <2>1
  <2> QED BY <2>2
<1>5. \A j \in 1..m : l + j \in DOMAIN all /\ l + j \notin 1..l
  BY <1>3
<1>6. 1..l \subseteq DOMAIN all
  BY <1>3
<1> HIDE DEF l
<1>7. \A k \in DOMAIN all : all[k].sub # 0 => k \in 1..l
  <2> SUFFICES ASSUME NEW j \in 1..m PROVE all[l + j].sub = 0
    BY <1>4
  <2> QED BY <1>1, <1>3
<1>8. SameSubs(posted, all)
  BY <1>3, <1>6, <1>7 DEF SameSubs, Subs
<1>9. Sent(all) = Sent(posted) \cup {l + k : k \in 1..m}
  <2>1. \A k \in Sent(all) : k \in Sent(posted) \/ \E j \in 1..m : k = l + j
    BY <1>3, <1>4 DEF Sent
  <2>2. \A k \in Sent(posted) : k \in Sent(all)
    BY <1>3, <1>6 DEF Sent
  <2>3. \A j \in 1..m : l + j \in Sent(all)
    BY <1>1, <1>3, <1>5 DEF Sent
  <2> QED BY <2>1, <2>2, <2>3
<1>10. \A k \in Sent(posted) : k \in 1..l
  BY <1>3 DEF Sent
<1> QED BY <1>1, <1>3, <1>8, <1>9, <1>10 DEF all, l, new

\* A subrequest is.
LEMMA PostedSub ==
  ASSUME NEW posted \in Seq(Posts), NEW at \in Nat, NEW sub \in Nat \ {0}
  PROVE  LET all == Append(posted, Sub(at, sub))
             n == Len(posted) + 1
         IN  /\ all \in Seq(Posts) /\ DOMAIN all = 1..n
             /\ \A k \in 1..Len(posted) : all[k] = posted[k]
             /\ all[n] = Sub(at, sub)
             /\ Sent(all) = Sent(posted)
             /\ Subs(all) = Subs(posted) \cup {n} /\ n \notin Subs(posted)
<1> DEFINE e == Sub(at, sub)
           all == Append(posted, e)
           n == Len(posted) + 1
<1>1. e \in Posts /\ e.sub # 0
  BY DEF Sub, Posts
<1> HIDE DEF e
<1>2. /\ all \in Seq(Posts) /\ Len(all) = n /\ Len(posted) \in Nat /\ all[n] = e
      /\ \A k \in 1..Len(posted) : all[k] = posted[k]
  BY <1>1, AppendProperties
<1>3. DOMAIN all = 1..n /\ DOMAIN posted = 1..Len(posted)
  BY <1>2
<1> HIDE DEF all
<1>4. 1..n = 1..Len(posted) \cup {n} /\ n \notin 1..Len(posted)
  BY <1>2
<1> HIDE DEF n
<1>5. Sent(all) = Sent(posted)
  BY <1>1, <1>2, <1>3, <1>4 DEF Sent
<1>6. Subs(all) = Subs(posted) \cup {n} /\ n \notin Subs(posted)
  BY <1>1, <1>2, <1>3, <1>4 DEF Subs
<1> QED BY <1>2, <1>3, <1>5, <1>6 DEF all, n, e

-----------------------------------------------------------------------------
(* Text that was handed over.                                              *)

\* The first of the chain were handed over, in order.
Handed(chain, handed, posted) ==
  /\ InOrder(posted, Sent(posted))
  /\ Ats(posted, Sent(posted)) = {chain[k] : k \in 1..handed}

\* Neither what is put behind the chain nor a subrequest changes that.
LEMMA HandedLonger ==
  ASSUME NEW chain \in Seq(Nat), NEW more \in Seq(Nat), NEW handed \in 0..Len(chain),
         NEW posted, Handed(chain, handed, posted)
  PROVE  Handed(chain \o more, handed, posted)
<1>1. \A k \in 1..handed : (chain \o more)[k] = chain[k]
  OBVIOUS
<1> QED BY <1>1 DEF Handed

\* A subrequest posted last is handed on behind the text in front of it.
LEMMA HandedSub ==
  ASSUME NEW chain, NEW handed, NEW posted \in Seq(Posts), NEW at \in Nat, NEW sub \in Nat \ {0},
         Handed(chain, handed, posted)
  PROVE  Handed(chain, handed, Append(posted, Sub(at, sub)))
<1> DEFINE all == Append(posted, Sub(at, sub))
<1>1. Sent(all) = Sent(posted) /\ \A k \in Sent(posted) : all[k] = posted[k]
  <2>1. \A k \in Sent(posted) : k \in 1..Len(posted)
    BY DEF Sent
  <2> QED BY <2>1, PostedSub
<1> HIDE DEF all
<1>2. InOrder(all, Sent(all))
  BY <1>1 DEF Handed, InOrder
<1>3. Ats(all, Sent(all)) = Ats(posted, Sent(posted))
  BY <1>1 DEF Ats
<1>4. Handed(chain, handed, all)
  BY <1>2, <1>3 DEF Handed
<1> QED BY <1>4 DEF all

(***************************************************************************)
(* Handing the chain over sends what is new in it, behind the rest         *)
(* (ngx_http_next_body_filter with buffers that were consumed before).     *)
(***************************************************************************)
LEMMA HandedAll ==
  ASSUME NEW chain \in Seq(Nat), Rising(chain), NEW handed \in 0..Len(chain),
         NEW posted \in Seq(Posts), Handed(chain, handed, posted)
  PROVE  LET all == posted \o [k \in 1..(Len(chain) - handed) |-> Piece(chain[handed + k])]
         IN  all \in Seq(Posts) /\ SameSubs(posted, all) /\ Handed(chain, Len(chain), all)
<1> DEFINE m == Len(chain) - handed
           l == Len(posted)
           at == [k \in 1..m |-> chain[handed + k]]
           all == posted \o [k \in 1..m |-> Piece(at[k])]
<1>1. /\ m \in Nat /\ l \in Nat /\ at \in [1..m -> Nat]
      /\ \A k \in 1..m : at[k] = chain[handed + k] /\ handed + k \in DOMAIN chain
  OBVIOUS
<1>2. [k \in 1..m |-> Piece(at[k])] = [k \in 1..m |-> Piece(chain[handed + k])]
  OBVIOUS
<1> HIDE DEF at
<1>3. /\ all \in Seq(Posts) /\ SameSubs(posted, all)
      /\ \A k \in Sent(posted) : k \in 1..l /\ all[k] = posted[k]
      /\ \A k \in 1..m : all[l + k].at = at[k]
      /\ Sent(all) = Sent(posted) \cup {l + k : k \in 1..m}
  BY <1>1, PostedPieces
<1> HIDE DEF all
<1>4. handed \in Nat /\ DOMAIN chain = 1..Len(chain)
  OBVIOUS
<1>5. \A k \in 1..m : all[l + k].at = chain[handed + k] /\ handed + k \in 1..Len(chain)
  <2> HIDE DEF l, m
  <2> QED BY <1>1, <1>3, <1>4
<1>6. \A k \in Sent(posted) : \E i \in 1..handed : posted[k].at = chain[i]
  BY DEF Handed, Ats
<1>7. \A i \in 1..handed : \E k \in Sent(posted) : posted[k].at = chain[i]
  BY DEF Handed, Ats
<1>8. ASSUME NEW j \in Sent(all), NEW k \in Sent(all), j < k PROVE all[j].at < all[k].at
  <2>1. CASE j \in Sent(posted) /\ k \in Sent(posted)
    BY <1>3, <1>8, <2>1 DEF Handed, InOrder
  <2>2. ASSUME j \in Sent(posted), NEW b \in 1..m, k = l + b PROVE all[j].at < all[k].at
    <3>1. PICK i \in 1..handed : posted[j].at = chain[i]
      BY <1>6, <2>2
    <3>2. all[j].at = chain[i] /\ all[k].at = chain[handed + b]
      BY <1>1, <1>3, <2>2, <3>1
    <3>3. i \in DOMAIN chain /\ handed + b \in DOMAIN chain /\ i < handed + b
      BY <1>1
    <3> QED BY <3>2, <3>3 DEF Rising
  <2>3. ASSUME NEW a \in 1..m, j = l + a, NEW b \in 1..m, k = l + b PROVE all[j].at < all[k].at
    <3>1. all[j].at = chain[handed + a] /\ all[k].at = chain[handed + b]
      BY <1>5, <2>3
    <3>2. handed + a \in DOMAIN chain /\ handed + b \in DOMAIN chain
      BY <1>4, <1>5
    <3>3. handed + a < handed + b
      <4> HIDE DEF l, m
      <4> QED BY <1>1, <1>4, <1>8, <2>3
    <3> QED BY <3>1, <3>2, <3>3 DEF Rising
  <2>4. ASSUME NEW a \in 1..m, j = l + a, k \in Sent(posted) PROVE FALSE
    <3>1. k \in 1..l
      BY <1>3, <2>4
    <3> QED BY <1>1, <1>8, <2>4, <3>1
  <2> QED BY <1>3, <2>1, <2>2, <2>3, <2>4
<1>9. Ats(all, Sent(all)) = {chain[k] : k \in 1..Len(chain)}
  <2>1. ASSUME NEW k \in Sent(all) PROVE \E i \in 1..Len(chain) : all[k].at = chain[i]
    <3>1. CASE k \in Sent(posted)
      <4>1. PICK i \in 1..handed : posted[k].at = chain[i]
        BY <1>6, <3>1
      <4>2. i \in 1..Len(chain)
        OBVIOUS
      <4> QED BY <1>3, <3>1, <4>1, <4>2
    <3>2. ASSUME NEW a \in 1..m, k = l + a PROVE \E i \in 1..Len(chain) : all[k].at = chain[i]
      <4>1. handed + a \in 1..Len(chain) /\ all[k].at = chain[handed + a]
        BY <1>5, <3>2
      <4> QED BY <4>1
    <3> QED BY <1>3, <3>1, <3>2
  <2>2. ASSUME NEW i \in 1..Len(chain) PROVE \E k \in Sent(all) : all[k].at = chain[i]
    <3>1. CASE i <= handed
      <4>1. i \in 1..handed
        BY <3>1
      <4>2. PICK k \in Sent(posted) : posted[k].at = chain[i]
        BY <1>7, <4>1
      <4> QED BY <1>3, <4>2
    <3>2. CASE i > handed
      <4> DEFINE a == i - handed
      <4>1. a \in 1..m /\ handed + a = i
        BY <3>2
      <4> HIDE DEF a, m
      <4>2. l + a \in Sent(all) /\ all[l + a].at = chain[i]
        BY <1>1, <1>3, <4>1
      <4> QED BY <4>2
    <3> QED BY <3>1, <3>2
  <2>3. {all[k].at : k \in Sent(all)} = {chain[k] : k \in 1..Len(chain)}
    <3>1. \A x : x \in {all[k].at : k \in Sent(all)} => x \in {chain[k] : k \in 1..Len(chain)}
      BY <2>1
    <3>2. \A x : x \in {chain[k] : k \in 1..Len(chain)} => x \in {all[k].at : k \in Sent(all)}
      BY <2>2
    <3> QED BY <3>1, <3>2
  <2> QED BY <2>3 DEF Ats
<1>10. Handed(chain, Len(chain), all)
  BY <1>8, <1>9 DEF Handed, InOrder
<1> QED BY <1>2, <1>3, <1>10 DEF all

-----------------------------------------------------------------------------
(* Includes that were asked for.                                           *)

\* In order, and includes that were reached; if no call ended within an except, all of
\* these outside of excepts until no request could be made: made is how many there are.
Asked(tokens, at, posted, made, cut) ==
  LET asked == Ats(posted, Subs(posted))
  IN  /\ InOrder(posted, Subs(posted))
      /\ \A m \in asked : m <= at
      /\ asked \subseteq Includes(tokens)
      /\ Nests(tokens) /\ "except" \notin cut =>
           \A m \in Includes(tokens) \ asked :
             m <= at /\ ~ Within(tokens, m, "except") =>
               made = MaxRequests /\ \A k \in asked : k < m

\* The places the subrequests were posted at are numbers.
LEMMA AskedPlaces ==
  ASSUME NEW posted \in Seq(Posts)
  PROVE  Ats(posted, Subs(posted)) \subseteq Nat
<1>1. \A k \in Subs(posted) : posted[k] \in Posts
  BY DEF Subs
<1> QED BY <1>1 DEF Ats, Posts

\* The includes of a page are tokens of it.
LEMMA IncludesPlaces == \A tokens \in Seq(PageTokens) : Includes(tokens) \subseteq 1..Len(tokens)
BY DEF Includes

\* Before the first token no include was met.
LEMMA AskedNothing ==
  ASSUME NEW tokens \in Seq(PageTokens), NEW made, NEW cut
  PROVE  Asked(tokens, 0, <<>>, made, cut)
<1> DEFINE none == <<>>
<1>1. Subs(none) = {} /\ Ats(none, {}) = {}
  BY NothingPosted DEF Ats
<1>2. \A m \in Includes(tokens) : ~ (m <= 0)
  BY IncludesPlaces
<1> HIDE DEF none
<1>3. Asked(tokens, 0, none, made, cut)
  BY <1>1, <1>2 DEF Asked, InOrder
<1> QED BY <1>3 DEF none

\* Other requests may be made meanwhile, and more calls end.
LEMMA AskedMore ==
  ASSUME NEW tokens, NEW at, NEW posted, NEW made \in 0..MaxRequests, NEW cut,
         Asked(tokens, at, posted, made, cut),
         NEW more \in made..MaxRequests, NEW cuts, cut \subseteq cuts
  PROVE  Asked(tokens, at, posted, more, cuts)
<1>1. made = MaxRequests => more = MaxRequests
  BY RequestsAssumption
<1>2. "except" \notin cuts => "except" \notin cut
  OBVIOUS
<1> QED BY <1>1, <1>2 DEF Asked

\* The includes asked for do not depend on what else is posted.
LEMMA AskedSame ==
  ASSUME NEW tokens, NEW at, NEW posted, NEW made, NEW cut, Asked(tokens, at, posted, made, cut),
         NEW after, SameSubs(posted, after)
  PROVE  Asked(tokens, at, after, made, cut)
<1>1. Ats(after, Subs(after)) = Ats(posted, Subs(posted))
  BY DEF SameSubs, Ats
<1>2. InOrder(posted, Subs(posted)) => InOrder(after, Subs(after))
  BY DEF SameSubs, InOrder
<1> QED BY <1>1, <1>2 DEF Asked

\* A token that asks for nothing, or for what is refused.
LEMMA AskedOn ==
  ASSUME NEW tokens \in Seq(PageTokens), NEW n \in 1..Len(tokens),
         NEW posted \in Seq(Posts), NEW made, NEW cut, Asked(tokens, n - 1, posted, made, cut),
         Nests(tokens) /\ "except" \notin cut =>
           n \notin Includes(tokens) \/ Within(tokens, n, "except") \/ made = MaxRequests
  PROVE  Asked(tokens, n, posted, made, cut)
<1> DEFINE asked == Ats(posted, Subs(posted))
<1>1. asked \subseteq Nat /\ n \in Nat
  BY AskedPlaces
<1>2. /\ InOrder(posted, Subs(posted))
      /\ \A m \in asked : m <= n - 1
      /\ asked \subseteq Includes(tokens)
      /\ Nests(tokens) /\ "except" \notin cut =>
           \A m \in Includes(tokens) \ asked :
             m <= n - 1 /\ ~ Within(tokens, m, "except") =>
               made = MaxRequests /\ \A k \in asked : k < m
  BY DEF Asked
<1> HIDE DEF asked
<1>3. \A m \in asked : m <= n /\ m < n
  BY <1>1, <1>2
<1>4. ASSUME Nests(tokens), "except" \notin cut, NEW m \in Includes(tokens) \ asked, m <= n,
             ~ Within(tokens, m, "except")
      PROVE  made = MaxRequests /\ \A k \in asked : k < m
  <2>1. m \in Nat
    BY IncludesPlaces
  <2>2. CASE m = n
    BY <1>3, <1>4, <2>2
  <2>3. CASE m # n
    <3>1. m <= n - 1
      BY <1>1, <1>4, <2>1, <2>3
    <3> QED BY <1>2, <1>4, <3>1
  <2> QED BY <2>2, <2>3
<1> QED BY <1>2, <1>3, <1>4 DEF Asked, asked

(***************************************************************************)
(* An include that is asked for is behind those that were.                 *)
(***************************************************************************)
LEMMA AskedSub ==
  ASSUME NEW tokens \in Seq(PageTokens), NEW n \in 1..Len(tokens),
         NEW posted \in Seq(Posts), NEW made, NEW cut, Asked(tokens, n - 1, posted, made, cut),
         made # MaxRequests, n \in Includes(tokens),
         NEW sub \in Nat \ {0}, NEW more
  PROVE  Asked(tokens, n, Append(posted, Sub(n, sub)), more, cut)
<1> DEFINE asked == Ats(posted, Subs(posted))
           all == Append(posted, Sub(n, sub))
           l == Len(posted) + 1
<1>1. asked \subseteq Nat /\ n \in Nat
  BY AskedPlaces
<1>2. /\ InOrder(posted, Subs(posted))
      /\ \A m \in asked : m <= n - 1
      /\ asked \subseteq Includes(tokens)
      /\ Nests(tokens) /\ "except" \notin cut =>
           \A m \in Includes(tokens) \ asked : ~ (m <= n - 1 /\ ~ Within(tokens, m, "except"))
  BY DEF Asked
<1>3. /\ Subs(all) = Subs(posted) \cup {l}
      /\ \A k \in Subs(posted) : k \in 1..Len(posted) /\ all[k] = posted[k]
      /\ all[l] = Sub(n, sub) /\ all[l].at = n
  <2>1. \A k \in Subs(posted) : k \in 1..Len(posted)
    BY DEF Subs
  <2>2. all[l] = Sub(n, sub)
    BY <1>1, PostedSub
  <2> QED BY <1>1, <2>1, <2>2, PostedSub DEF Sub
<1>4. l \in Nat /\ \A k \in 1..Len(posted) : k < l /\ ~ (l < k)
  OBVIOUS
<1> HIDE DEF all, l
<1>5. Ats(all, Subs(all)) = asked \cup {n}
  <2>1. \A x \in asked : \E k \in Subs(posted) : x = posted[k].at
    BY DEF Ats
  <2>2. \A k \in Subs(posted) : posted[k].at \in asked
    BY DEF Ats
  <2> HIDE DEF asked
  <2>3. \A x \in Ats(all, Subs(all)) : x \in asked \cup {n}
    BY <1>3, <2>2 DEF Ats
  <2>4. \A x \in asked \cup {n} : x \in Ats(all, Subs(all))
    BY <1>3, <2>1 DEF Ats
  <2> QED BY <2>3, <2>4
<1>6. InOrder(all, Subs(all))
  <2> SUFFICES ASSUME NEW j \in Subs(all), NEW k \in Subs(all), j < k
               PROVE  all[j].at < all[k].at
    BY DEF InOrder
  <2>1. CASE j \in Subs(posted) /\ k \in Subs(posted)
    BY <1>2, <1>3, <2>1 DEF InOrder
  <2>2. CASE j \in Subs(posted) /\ k = l
    <3>1. posted[j].at \in asked
      BY <2>2 DEF Ats
    <3> HIDE DEF asked
    <3>2. \A m \in asked : m < n
      BY <1>1, <1>2
    <3> QED BY <1>3, <2>2, <3>1, <3>2
  <2>3. CASE j = l
    BY <1>3, <1>4, <2>3
  <2> QED BY <1>3, <2>1, <2>2, <2>3
<1> HIDE DEF asked
<1>7. \A m \in asked \cup {n} : m <= n
  BY <1>1, <1>2
<1>8. ASSUME Nests(tokens), "except" \notin cut, NEW m \in Includes(tokens) \ (asked \cup {n})
      PROVE  ~ (m <= n /\ ~ Within(tokens, m, "except"))
  <2>1. m \in Nat /\ m # n /\ ~ (m <= n - 1 /\ ~ Within(tokens, m, "except"))
    BY <1>2, <1>8, IncludesPlaces
  <2> QED BY <1>1, <2>1
<1> QED BY <1>2, <1>5, <1>6, <1>7, <1>8 DEF Asked, all

(***************************************************************************)
(* Tags are ignored within an except and nowhere else, if no call ended    *)
(* within one.                                                             *)
(***************************************************************************)
LEMMA IgnoredWithin ==
  ASSUME NEW tokens \in Seq(PageTokens), NEW n \in 1..Len(tokens),
         NEW tags, NEW cut, Tracks(tokens, n - 1, tags, cut), Nests(tokens), "except" \notin cut
  PROVE  tags.ignore_tag <=> Within(tokens, n, "except")
<1> DEFINE list == Around(tokens, n)
<1>1. n - 1 + 1 = n
  OBVIOUS
<1>2. tags.ignore_tag <=> \E i \in DOMAIN list : list[i] = "except"
  BY <1>1 DEF Tracks, Behind
<1> QED BY <1>2 DEF Within, ToSet

-----------------------------------------------------------------------------
(* The requests.                                                           *)

Stages == {"new", "open", "call", "done", "ended", "failed"}

Request == [page : Pages, parent : Nat, stage : Stages, filtered : BOOLEAN, length : BOOLEAN,
            at : Nat, ends : SUBSET Nat, tags : Contexts, output_buffer : Seq(Nat),
            chain : Seq(Nat), handed : Nat, marked : SUBSET Nat, posted : Seq(Posts)]

\* The page as it is, with nothing taken out and nothing included.
Whole(page) == [k \in DOMAIN Page[page].tokens |-> Piece(k)]

\* A response is decided about when its header is sent, as the file says: one that is
\* not filtered is passed on whole, and only such a one keeps its length.
Decided(r) ==
  /\ r.stage \in {"new", "failed"} => ~ r.filtered /\ ~ r.length /\ r.posted = <<>>
  /\ r.stage \notin {"new", "failed"} => (r.filtered <=> Processed(r.page))
  /\ r.parent = 0 /\ r.length => ~ r.filtered
  /\ ~ r.filtered =>
       /\ r.stage # "call"
       /\ r.at = 0 /\ r.ends = {} /\ r.handed = 0 /\ r.tags = NoTags /\ r.chain = <<>> /\ r.output_buffer = <<>>
       /\ r.posted = IF r.stage \in {"done", "ended"} THEN Whole(r.page) ELSE <<>>

\* The types of the tags that calls of a request ended within.
Cut(r) == CutTypes(Page[r.page].tokens, r.ends)

\* The parser and the context of a request are where the page is; between calls it is
\* where one has ended.
Parsed(r) ==
  LET tokens == Page[r.page].tokens
  IN  /\ r.at \in 0..Len(tokens) /\ Len(r.output_buffer) < SIZE /\ r.handed \in 0..Len(r.chain)
      /\ Tracks(tokens, r.at, r.tags, Cut(r))
      /\ r.stage = "open" => r.at \in r.ends \cup {0}
      /\ Held(tokens, r.at, r.chain, r.output_buffer, Cut(r))

\* What a filtered response has sent; made is how many requests there are.
Rendered(r, made) ==
  LET tokens == Page[r.page].tokens
  IN  r.filtered =>
        /\ Handed(r.chain, r.handed, r.posted)
        /\ Asked(tokens, r.at, r.posted, made, Cut(r))
        /\ r.stage \in {"done", "ended"} =>
             /\ r.at = Len(tokens) /\ r.output_buffer = <<>> /\ r.handed = Len(r.chain)
             /\ Len(r.chain) \in r.marked

Sound(r, made) == r \in Request /\ Decided(r) /\ Parsed(r) /\ Rendered(r, made)

\* A request shows once in what is posted.
Once(j, posted) == \E k \in Subs(posted) : \A l \in Subs(posted) : posted[l].sub = j <=> l = k

\* Every request but the first is in the output of the one that asked for it.
Placed ==
  /\ \A i \in DOMAIN requests : \A k \in Subs(requests[i].posted) :
       /\ requests[i].posted[k].sub \in 2..Len(requests)
       /\ requests[requests[i].posted[k].sub].parent = i
  /\ \A j \in 2..Len(requests) :
       /\ requests[j].parent \in 1..(j - 1)
       /\ Once(j, requests[requests[j].parent].posted)

Faults == {"none", "uninitialised", "null_pointer"}

IInv ==
  /\ requests \in Seq(Request) /\ Len(requests) <= MaxRequests
  /\ fault \in Faults
  /\ requests # <<>> => merged = Blocks /\ requests[1].parent = 0
  /\ \A i \in DOMAIN requests : Sound(requests[i], Len(requests))
  /\ Placed

-----------------------------------------------------------------------------
(* How the requests change.                                                *)

\* A page is a sequence of tokens, and its block was merged when it is served.
LEMMA PageTokensAre ==
  ASSUME NEW page \in Pages
  PROVE  Page[page].tokens \in Seq(PageTokens) /\ Page[page].block \in 2..Blocks
         /\ Page[page].length \in BOOLEAN
BY PagesAssumption DEF PageTokens

\* What is decided of a response depends on nothing but the configuration.
LEMMA SoundThen ==
  ASSUME UNCHANGED confVars, NEW j, Sound(requests'[j], Len(requests'))
  PROVE  Sound(requests[j], Len(requests))'
<1>1. \A page : Processed(page)' = Processed(page)
  BY DEF Processed, Setting, Giving, WrittenIn, Listed, Bodyless, confVars
<1>2. Decided(requests[j])'
  BY <1>1 DEF Sound, Decided, Whole
<1>3. Parsed(requests[j])'
  BY DEF Sound, Parsed, Cut
<1>4. Rendered(requests[j], Len(requests))'
  BY DEF Sound, Rendered, Cut
<1> QED BY <1>2, <1>3, <1>4 DEF Sound

\* More requests change nothing in what a request has asked for.
LEMMA SoundMore ==
  ASSUME NEW r, NEW made \in 0..MaxRequests, Sound(r, made), NEW more \in made..MaxRequests
  PROVE  Sound(r, more)
<1>1. Cut(r) \subseteq Cut(r)
  OBVIOUS
<1>2. Rendered(r, more)
  BY <1>1, AskedMore DEF Sound, Rendered
<1> QED BY <1>2 DEF Sound

(***************************************************************************)
(* One request becomes another one that is sound, with the same subs.      *)
(***************************************************************************)
LEMMA OneChanged ==
  ASSUME IInv, UNCHANGED confVars, NEW i \in DOMAIN requests, NEW r, Sound(r, Len(requests)),
         requests' = [requests EXCEPT ![i] = r],
         r.parent = requests[i].parent, SameSubs(requests[i].posted, r.posted),
         fault' \in Faults
  PROVE  IInv'
<1>1. /\ requests \in Seq(Request) /\ Len(requests) <= MaxRequests /\ Placed
      /\ requests # <<>> => merged = Blocks /\ requests[1].parent = 0
      /\ \A j \in DOMAIN requests : Sound(requests[j], Len(requests))
  BY DEF IInv
<1>2. /\ requests' \in Seq(Request) /\ Len(requests') = Len(requests)
      /\ DOMAIN requests' = DOMAIN requests
      /\ \A j \in DOMAIN requests : requests'[j] = IF j = i THEN r ELSE requests[j]
  <2>1. r \in Request
    BY DEF Sound
  <2> HIDE DEF Request
  <2> QED BY <1>1, <2>1
<1>3. \A j \in DOMAIN requests' : Sound(requests[j], Len(requests))'
  BY <1>1, <1>2, SoundThen
<1>4. /\ \A j \in DOMAIN requests : requests'[j].parent = requests[j].parent
      /\ \A j \in DOMAIN requests : Subs(requests'[j].posted) = Subs(requests[j].posted)
      /\ \A j \in DOMAIN requests : \A k \in Subs(requests[j].posted) :
           requests'[j].posted[k] = requests[j].posted[k]
  BY <1>2 DEF SameSubs
<1>5. DOMAIN requests = 1..Len(requests) /\ Len(requests) \in Nat
  BY <1>1
<1>6. Placed'
  <2>1. ASSUME NEW j \in DOMAIN requests', NEW k \in Subs(requests'[j].posted)
        PROVE  /\ requests'[j].posted[k].sub \in 2..Len(requests')
               /\ requests'[requests'[j].posted[k].sub].parent = j
    <3>1. requests'[j].posted[k] = requests[j].posted[k] /\ k \in Subs(requests[j].posted)
      BY <1>2, <1>4, <2>1
    <3>2. /\ requests[j].posted[k].sub \in 2..Len(requests)
          /\ requests[requests[j].posted[k].sub].parent = j
      BY <1>1, <1>2, <3>1 DEF Placed
    <3> QED BY <1>2, <1>4, <1>5, <3>1, <3>2
  <2>2. ASSUME NEW j \in 2..Len(requests')
        PROVE  /\ requests'[j].parent \in 1..(j - 1)
               /\ Once(j, requests'[requests'[j].parent].posted)
    <3> DEFINE p == requests[j].parent
    <3>1. j \in 2..Len(requests) /\ j \in DOMAIN requests
      BY <1>2, <1>5
    <3>2. p \in 1..(j - 1) /\ Once(j, requests[p].posted)
      BY <1>1, <3>1 DEF Placed
    <3>3. requests'[j].parent = p /\ p \in DOMAIN requests
      BY <1>4, <1>5, <3>1, <3>2
    <3> HIDE DEF p
    <3>4. \A k \in Subs(requests[p].posted) : requests'[p].posted[k] = requests[p].posted[k]
      BY <1>4, <3>3
    <3>5. Subs(requests'[p].posted) = Subs(requests[p].posted)
      BY <1>4, <3>3
    <3>6. Once(j, requests'[p].posted)
      BY <3>2, <3>4, <3>5 DEF Once
    <3> QED BY <3>2, <3>3, <3>6
  <2> QED BY <2>1, <2>2 DEF Placed
<1>7. requests' # <<>> => merged' = Blocks /\ requests'[1].parent = 0
  <2>1. merged' = merged /\ 1 \in DOMAIN requests /\ requests # <<>>
    BY <1>5 DEF confVars
  <2> QED BY <1>1, <1>4, <2>1
<1> QED BY <1>1, <1>2, <1>3, <1>6, <1>7 DEF IInv

(***************************************************************************)
(* Besides, one is added that this one asked for.                          *)
(***************************************************************************)
LEMMA OneAsked ==
  ASSUME IInv, UNCHANGED confVars, NEW i \in DOMAIN requests, Len(requests) < MaxRequests,
         NEW at \in Nat, NEW r, Sound(r, Len(requests) + 1),
         r.parent = requests[i].parent,
         r.posted = Append(requests[i].posted, Sub(at, Len(requests) + 1)),
         NEW new, Sound(new, Len(requests) + 1), new.parent = i, new.posted = <<>>,
         requests' = Append([requests EXCEPT ![i] = r], new),
         fault' \in Faults
  PROVE  IInv'
<1> DEFINE n == Len(requests) + 1
           l == Len(requests[i].posted) + 1
           changed == [requests EXCEPT ![i] = r]
<1>1. /\ requests \in Seq(Request) /\ Len(requests) <= MaxRequests /\ Placed
      /\ requests # <<>> => merged = Blocks /\ requests[1].parent = 0
      /\ \A j \in DOMAIN requests : Sound(requests[j], Len(requests))
  BY DEF IInv
<1>2. /\ DOMAIN requests = 1..Len(requests) /\ Len(requests) \in Nat /\ n \in Nat \ {0}
      /\ n \in 2..MaxRequests /\ Len(requests) \in 1..MaxRequests
  BY <1>1, RequestsAssumption
<1>3. /\ requests' \in Seq(Request) /\ Len(requests') = n
      /\ \A j \in DOMAIN requests : requests'[j] = IF j = i THEN r ELSE requests[j]
      /\ requests'[n] = new
  <2>1. r \in Request /\ new \in Request
    BY DEF Sound
  <2> HIDE DEF Request
  <2>2. /\ changed \in Seq(Request) /\ Len(changed) = Len(requests)
        /\ \A j \in DOMAIN requests : changed[j] = IF j = i THEN r ELSE requests[j]
    BY <1>1, <2>1
  <2> HIDE DEF changed
  <2>3. requests' = Append(changed, new)
    BY DEF changed
  <2>4. Len(changed) + 1 = n /\ \A j \in DOMAIN requests : j \in 1..Len(changed)
    BY <1>2, <2>2
  <2> HIDE DEF n
  <2> DEFINE longer == Append(changed, new)
  <2>5. /\ longer \in Seq(Request) /\ Len(longer) = Len(changed) + 1
        /\ longer[Len(changed) + 1] = new
        /\ \A j \in 1..Len(changed) : longer[j] = changed[j]
    <3>1. \A T : \A s \in Seq(T), e \in T :
            /\ Append(s, e) \in Seq(T) /\ Len(Append(s, e)) = Len(s) + 1
            /\ Append(s, e)[Len(s) + 1] = e
            /\ \A j \in 1..Len(s) : Append(s, e)[j] = s[j]
      BY AppendProperties
    <3> QED BY <2>1, <2>2, <3>1
  <2> QED BY <2>2, <2>3, <2>4, <2>5
<1>4. DOMAIN requests' = 1..n /\ \A j \in 1..n : j \in DOMAIN requests \/ j = n
  BY <1>2, <1>3
<1>5. requests[i].posted \in Seq(Posts)
  <2>1. requests[i] \in Request
    BY <1>1 DEF Sound
  <2> QED BY <2>1 DEF Request
<1>6. /\ Subs(requests'[i].posted) = Subs(requests[i].posted) \cup {l}
      /\ l \notin Subs(requests[i].posted)
      /\ \A k \in Subs(requests[i].posted) : requests'[i].posted[k] = requests[i].posted[k]
      /\ requests'[i].posted[l].sub = n
  <2>1. \A k \in Subs(requests[i].posted) : k \in 1..Len(requests[i].posted)
    BY <1>5 DEF Subs
  <2>2. requests'[i].posted = Append(requests[i].posted, Sub(at, n))
    BY <1>3
  <2>3. Sub(at, n).sub = n
    BY DEF Sub
  <2> DEFINE posted == requests[i].posted
             all == Append(posted, Sub(at, n))
  <2>4. /\ Subs(all) = Subs(posted) \cup {l} /\ l \notin Subs(posted)
        /\ \A k \in 1..Len(posted) : all[k] = posted[k]
        /\ all[l] = Sub(at, n)
    <3> HIDE DEF posted, n
    <3> QED BY <1>2, <1>5, PostedSub DEF posted
  <2> QED BY <2>1, <2>2, <2>3, <2>4
<1>7. \A j \in DOMAIN requests' : Sound(requests[j], Len(requests))'
  <2>1. \A j \in DOMAIN requests' : Sound(requests'[j], Len(requests'))
    <3> TAKE j \in DOMAIN requests'
    <3>1. CASE j = n
      BY <1>3, <3>1
    <3>2. CASE j \in DOMAIN requests /\ j = i
      BY <1>3, <3>2
    <3>3. CASE j \in DOMAIN requests /\ j # i
      <4>1. Len(requests) \in 0..MaxRequests /\ n \in Len(requests)..MaxRequests
        BY <1>2
      <4>2. Sound(requests[j], n)
        BY <1>1, <3>3, <4>1, SoundMore
      <4> QED BY <1>3, <3>3, <4>2
    <3> QED BY <1>4, <3>1, <3>2, <3>3
  <2> QED BY <2>1, SoundThen
<1>8. /\ \A j \in DOMAIN requests : requests'[j].parent = requests[j].parent
      /\ \A j \in DOMAIN requests : j # i => requests'[j].posted = requests[j].posted
      /\ requests'[n].parent = i /\ Subs(requests'[n].posted) = {}
  BY <1>3, NothingPosted
<1>9. i \in 1..(n - 1) /\ i # n
  BY <1>2
<1>10. \A j \in DOMAIN requests : \A k \in Subs(requests[j].posted) :
         /\ requests[j].posted[k].sub \in 2..Len(requests)
         /\ requests[j].posted[k].sub # n /\ requests[j].posted[k].sub \in DOMAIN requests
         /\ requests[requests[j].posted[k].sub].parent = j
  BY <1>1, <1>2 DEF Placed
<1> HIDE DEF n, l
<1>11. Placed'
  <2>1. ASSUME NEW j \in DOMAIN requests', NEW k \in Subs(requests'[j].posted)
        PROVE  /\ requests'[j].posted[k].sub \in 2..Len(requests')
               /\ requests'[requests'[j].posted[k].sub].parent = j
    <3>1. CASE j = i /\ k = l
      BY <1>2, <1>3, <1>6, <1>8, <3>1
    <3>2. CASE j \in DOMAIN requests /\ ~ (j = i /\ k = l)
      <4>1. k \in Subs(requests[j].posted) /\ requests'[j].posted[k] = requests[j].posted[k]
        BY <1>6, <1>8, <2>1, <3>2
      <4>2. requests[j].posted[k].sub \in 2..n
        BY <1>2, <1>10, <3>2, <4>1 DEF n
      <4> DEFINE s == requests[j].posted[k].sub
      <4>3. s \in DOMAIN requests /\ requests[s].parent = j
        BY <1>10, <3>2, <4>1
      <4>4. requests'[s].parent = j
        <5> HIDE DEF s
        <5> QED BY <1>8, <4>3
      <4>5. requests'[j].posted[k].sub = s
        BY <4>1
      <4>6. s \in 2..Len(requests')
        BY <1>3, <4>2
      <4> HIDE DEF s
      <4> QED BY <4>4, <4>5, <4>6
    <3> QED BY <1>4, <1>8, <2>1, <3>1, <3>2
  <2>2. ASSUME NEW j \in 2..Len(requests')
        PROVE  /\ requests'[j].parent \in 1..(j - 1)
               /\ Once(j, requests'[requests'[j].parent].posted)
    <3>1. CASE j = n
      <4>1. requests'[j].parent = i
        BY <1>8, <3>1
      <4>2. \A m \in Subs(requests'[i].posted) : requests'[i].posted[m].sub = n <=> m = l
        BY <1>6, <1>10
      <4>3. Once(n, requests'[i].posted)
        BY <1>6, <4>2 DEF Once
      <4> QED BY <1>9, <3>1, <4>1, <4>3
    <3>2. CASE j # n
      <4> DEFINE p == requests[j].parent
      <4>1. j \in 2..Len(requests) /\ j \in DOMAIN requests
        BY <1>2, <1>3, <3>2 DEF n
      <4>2. p \in 1..(j - 1) /\ Once(j, requests[p].posted)
        BY <1>1, <4>1 DEF Placed
      <4>3. requests'[j].parent = p /\ p \in DOMAIN requests
        BY <1>2, <1>8, <4>1, <4>2
      <4> HIDE DEF p
      <4>4. PICK k \in Subs(requests[p].posted) :
              \A m \in Subs(requests[p].posted) : requests[p].posted[m].sub = j <=> m = k
        BY <4>2 DEF Once
      <4>5. CASE p = i
        <5>1. k \in Subs(requests'[p].posted) /\ k # l
          BY <1>6, <4>4, <4>5
        <5>2. \A m \in Subs(requests'[p].posted) : requests'[p].posted[m].sub = j <=> m = k
          <6> TAKE m \in Subs(requests'[p].posted)
          <6>1. CASE m = l
            BY <1>6, <3>2, <4>5, <5>1, <6>1
          <6>2. CASE m # l
            <7>1. m \in Subs(requests[p].posted) /\ requests'[p].posted[m] = requests[p].posted[m]
              BY <1>6, <4>5, <6>2
            <7> QED BY <4>4, <7>1
          <6> QED BY <6>1, <6>2
        <5>3. Once(j, requests'[p].posted)
          BY <5>1, <5>2 DEF Once
        <5> QED BY <4>2, <4>3, <5>3
      <4>6. CASE p # i
        <5>1. requests'[p].posted = requests[p].posted
          BY <1>8, <4>3, <4>6
        <5> QED BY <4>2, <4>3, <5>1
      <4> QED BY <4>5, <4>6
    <3> QED BY <3>1, <3>2
  <2> QED BY <2>1, <2>2 DEF Placed
<1>12. merged' = Blocks /\ requests'[1].parent = 0
  <2>1. merged' = merged /\ 1 \in DOMAIN requests /\ requests # <<>>
    BY <1>2 DEF confVars
  <2> QED BY <1>1, <1>8, <2>1
<1> QED BY <1>2, <1>3, <1>7, <1>11, <1>12 DEF IInv

-----------------------------------------------------------------------------
(* What a call does to its request.                                        *)

\* What the invariant says of a request.
LEMMA SoundOf ==
  ASSUME IInv, NEW i \in DOMAIN requests
  PROVE  LET r == requests[i]
         IN  /\ r \in Request /\ Decided(r) /\ Parsed(r) /\ Rendered(r, Len(requests))
             /\ Sound(r, Len(requests))
             /\ r.page \in Pages /\ Page[r.page].tokens \in Seq(PageTokens)
<1>1. Sound(requests[i], Len(requests))
  BY DEF IInv
<1>2. requests[i] \in Request
  BY <1>1 DEF Sound
<1>3. requests[i].page \in Pages
  BY <1>2 DEF Request
<1> QED BY <1>1, <1>3, PageTokensAre DEF Sound

\* A request within a call, whatever output_buffer holds.
Reading(r, made) ==
  LET tokens == Page[r.page].tokens
  IN  /\ r \in Request /\ r.stage = "call" /\ Decided(r)
      /\ r.at \in 0..Len(tokens) /\ r.handed \in 0..Len(r.chain)
      /\ Tracks(tokens, r.at, r.tags, Cut(r))
      /\ Held(tokens, r.at, r.chain, r.output_buffer, Cut(r))
      /\ Handed(r.chain, r.handed, r.posted)
      /\ Asked(tokens, r.at, r.posted, made, Cut(r))

\* What is sound in the middle of a call, written out.
LEMMA ReadingIs ==
  ASSUME NEW r, NEW made, r.stage = "call"
  PROVE  Sound(r, made) <=> Reading(r, made) /\ Len(r.output_buffer) < SIZE
BY DEF Sound, Reading, Decided, Parsed, Rendered

\* What is outside of the call and stays as it is.
SameOutside(r, s) ==
  /\ s.page = r.page /\ s.parent = r.parent /\ s.stage = r.stage
  /\ s.filtered = r.filtered /\ s.length = r.length /\ s.ends = r.ends

\* What a call does within tags is up to where calls ended.
LEMMA CutStays ==
  ASSUME NEW r, NEW s, SameOutside(r, s)
  PROVE  Cut(s) = Cut(r)
BY DEF SameOutside, Cut

\* What was decided for a request stays while it reads its page.
LEMMA DecidedStays ==
  ASSUME NEW r, Decided(r), r.stage = "call", NEW s, SameOutside(r, s)
  PROVE  Decided(s)
BY DEF Decided, SameOutside

(***************************************************************************)
(* esi_parser_output_cb keeps the text if the innermost tag does, and the  *)
(* buffer is empty then.                                                   *)
(***************************************************************************)
LEMMA FlushedReading ==
  ASSUME NEW r, NEW made, Reading(r, made), r.page \in Pages
  PROVE  LET s == Flushed(r)
         IN  /\ Reading(s, made) /\ SameOutside(r, s)
             /\ s.at = r.at /\ s.tags = r.tags /\ s.posted = r.posted /\ s.handed = r.handed
             /\ s.output_buffer = <<>>
<1> DEFINE tokens == Page[r.page].tokens
           cut == Cut(r)
           keeps == KeepsText(r.tags)
           chain == IF keeps THEN r.chain \o r.output_buffer ELSE r.chain
           none == <<>>
           s == [r EXCEPT !.chain = chain, !.output_buffer = none]
<1>1. /\ r \in Request /\ r.at \in 0..Len(tokens) /\ r.handed \in 0..Len(r.chain)
      /\ Held(tokens, r.at, r.chain, r.output_buffer, cut) /\ Tracks(tokens, r.at, r.tags, cut)
      /\ Handed(r.chain, r.handed, r.posted) /\ Asked(tokens, r.at, r.posted, made, cut)
      /\ r.stage = "call" /\ Decided(r)
      /\ tokens \in Seq(PageTokens)
  BY PageTokensAre DEF Reading
<1>2. r.chain \in Seq(Nat) /\ r.output_buffer \in Seq(Nat)
  BY <1>1 DEF Held
<1>3. keeps \in BOOLEAN
  BY DEF KeepsText, Buffers
<1>4. Nests(tokens) => /\ Keeps(Around(tokens, r.at + 1)) => keeps
                       /\ cut = {} => (keeps => Keeps(Around(tokens, r.at + 1)))
  <2> SUFFICES ASSUME Nests(tokens)
               PROVE  /\ Keeps(Around(tokens, r.at + 1)) => keeps
                      /\ cut = {} => (keeps => Keeps(Around(tokens, r.at + 1)))
    OBVIOUS
  <2> DEFINE list == Around(tokens, r.at + 1)
  <2>1. Behind(r.tags, list, cut) /\ ~ r.tags.exception_raised /\ r.tags \in Contexts
    BY <1>1 DEF Tracks, Request
  <2>2. list \in Seq(Types)
    <3>1. r.at + 1 \in 1..(Len(tokens) + 1)
      BY <1>1
    <3> QED BY <1>1, <3>1, AroundIs
  <2> HIDE DEF list, cut, tokens
  <2>3. (Keeps(list) => keeps) /\ (cut = {} => (keeps => Keeps(list)))
    BY <2>1, <2>2, BehindKeeps
  <2> QED BY <2>3 DEF list
<1>5. Held(tokens, r.at, chain, none, cut)
  <2> HIDE DEF tokens, keeps, cut
  <2> QED BY <1>1, <1>3, <1>4, HeldFlushed
<1>6. Handed(chain, r.handed, r.posted) /\ r.handed \in 0..Len(chain) /\ chain \in Seq(Nat)
  <2>1. CASE keeps
    <3>1. Handed(r.chain \o r.output_buffer, r.handed, r.posted)
      BY <1>1, <1>2, HandedLonger
    <3>2. /\ Len(r.chain \o r.output_buffer) = Len(r.chain) + Len(r.output_buffer)
          /\ Len(r.chain) \in Nat /\ Len(r.output_buffer) \in Nat
          /\ r.chain \o r.output_buffer \in Seq(Nat)
      BY <1>2
    <3>3. \A x, y \in Nat : 0..x \subseteq 0..(x + y)
      OBVIOUS
    <3>4. r.handed \in 0..Len(r.chain \o r.output_buffer)
      BY <1>1, <3>2, <3>3
    <3>5. chain = r.chain \o r.output_buffer
      BY <2>1
    <3> QED BY <3>1, <3>2, <3>4, <3>5
  <2>2. CASE ~ keeps
    BY <1>1, <1>2, <2>2
  <2> QED BY <2>1, <2>2
<1>7. none \in Seq(Nat)
  OBVIOUS
<1>8. Flushed(r) = s
  BY DEF Flushed
<1> HIDE DEF chain, none
<1>9. /\ s \in Request /\ s.chain = chain /\ s.output_buffer = none
      /\ s.at = r.at /\ s.tags = r.tags /\ s.posted = r.posted /\ s.handed = r.handed
      /\ SameOutside(r, s)
  BY <1>1, <1>6, <1>7 DEF Request, SameOutside
<1> HIDE DEF s
<1>10. Decided(s)
  BY <1>1, <1>9, DecidedStays
<1>11. Reading(s, made)
  <2>1. Page[s.page].tokens = tokens /\ s.stage = "call"
    BY <1>1, <1>9 DEF SameOutside
  <2>2. Cut(s) = cut
    BY <1>9, CutStays
  <2> HIDE DEF tokens, cut
  <2> QED BY <1>1, <1>5, <1>6, <1>9, <1>10, <2>1, <2>2 DEF Reading
<1> QED BY <1>8, <1>9, <1>11 DEF none

(***************************************************************************)
(* Text is put behind what output_buffer holds.                            *)
(***************************************************************************)
LEMMA TextReading ==
  ASSUME NEW r, NEW made, Reading(r, made), r.page \in Pages,
         r.at < Len(Page[r.page].tokens), Page[r.page].tokens[r.at + 1].kind = "text"
  PROVE  LET s == [r EXCEPT !.at = @ + 1, !.output_buffer = Append(@, r.at + 1)]
         IN  /\ Reading(s, made) /\ SameOutside(r, s) /\ s.posted = r.posted
             /\ Len(s.output_buffer) = Len(r.output_buffer) + 1
<1> DEFINE tokens == Page[r.page].tokens
           cut == Cut(r)
           n == r.at + 1
           b == Append(r.output_buffer, n)
           s == [r EXCEPT !.at = n, !.output_buffer = b]
<1>1. /\ r \in Request /\ r.at \in 0..Len(tokens) /\ r.handed \in 0..Len(r.chain)
      /\ Held(tokens, r.at, r.chain, r.output_buffer, cut) /\ Tracks(tokens, r.at, r.tags, cut)
      /\ Handed(r.chain, r.handed, r.posted) /\ Asked(tokens, r.at, r.posted, made, cut)
      /\ r.stage = "call" /\ Decided(r)
      /\ tokens \in Seq(PageTokens)
  BY PageTokensAre DEF Reading
<1>2. r.output_buffer \in Seq(Nat) /\ r.posted \in Seq(Posts) /\ r.tags \in Contexts
  BY <1>1 DEF Request
<1>3. n \in 1..Len(tokens) /\ n \in Nat /\ n - 1 = r.at /\ tokens[n].kind = "text"
  BY <1>1
<1>4. b \in Seq(Nat) /\ Len(b) = Len(r.output_buffer) + 1
  BY <1>2, <1>3, AppendProperties
<1> HIDE DEF tokens, n, cut
<1>5. Held(tokens, n, r.chain, b, cut)
  BY <1>1, <1>3, HeldText
<1>6. Tracks(tokens, n, r.tags, cut)
  <2>1. CallbackTags(tokens[n], r.tags) = r.tags
    BY <1>3 DEF CallbackTags
  <2> QED BY <1>1, <1>2, <1>3, <2>1, TokenTracks
<1>7. Asked(tokens, n, r.posted, made, cut)
  <2>1. n \notin Includes(tokens)
    BY <1>3 DEF Includes
  <2> QED BY <1>1, <1>2, <1>3, <2>1, AskedOn
<1> HIDE DEF b
<1>8. /\ s \in Request /\ s.chain = r.chain /\ s.output_buffer = b
      /\ s.at = n /\ s.tags = r.tags /\ s.posted = r.posted /\ s.handed = r.handed
      /\ SameOutside(r, s)
  BY <1>1, <1>3, <1>4 DEF Request, SameOutside
<1>9. s = [r EXCEPT !.at = @ + 1, !.output_buffer = Append(@, r.at + 1)]
  BY DEF n, b
<1> HIDE DEF s
<1>10. Decided(s)
  BY <1>1, <1>8, DecidedStays
<1>11. Reading(s, made)
  <2>1. Page[s.page].tokens = tokens /\ s.stage = "call"
    BY <1>1, <1>8 DEF SameOutside, tokens
  <2>2. n \in 0..Len(tokens)
    BY <1>3
  <2>3. Cut(s) = cut
    BY <1>8, CutStays DEF cut
  <2> QED BY <1>1, <1>5, <1>6, <1>7, <1>8, <1>10, <2>1, <2>2, <2>3 DEF Reading
<1> QED BY <1>4, <1>8, <1>9, <1>11

(***************************************************************************)
(* A tag acts on the context after the text in front of it was handed      *)
(* over; what it asks for is looked at by itself.                          *)
(***************************************************************************)
LEMMA TaggedReading ==
  ASSUME NEW r, NEW made, Reading(r, made), r.page \in Pages,
         r.at < Len(Page[r.page].tokens), Page[r.page].tokens[r.at + 1].kind # "text"
  PROVE  LET tokens == Page[r.page].tokens
             n == r.at + 1
             s == Tagged(r, CallbackTags(tokens[n], r.tags))
         IN  /\ s \in Request /\ SameOutside(r, s) /\ s.posted = r.posted
             /\ s.at = n /\ s.output_buffer = <<>> /\ s.handed \in 0..Len(s.chain)
             /\ Tracks(tokens, n, s.tags, Cut(r))
             /\ Held(tokens, n, s.chain, s.output_buffer, Cut(r))
             /\ Handed(s.chain, s.handed, s.posted)
<1> DEFINE tokens == Page[r.page].tokens
           cut == Cut(r)
           n == r.at + 1
           tags == CallbackTags(tokens[n], r.tags)
           f == Flushed(r)
           s == [f EXCEPT !.at = n, !.tags = tags]
           none == <<>>
<1>1. /\ Reading(f, made) /\ SameOutside(r, f)
      /\ f.at = r.at /\ f.tags = r.tags /\ f.posted = r.posted /\ f.handed = r.handed
      /\ f.output_buffer = none
  BY FlushedReading
<1>2. /\ r.tags \in Contexts /\ Tracks(tokens, r.at, r.tags, cut) /\ tokens \in Seq(PageTokens)
      /\ r.at \in 0..Len(tokens)
  BY PageTokensAre DEF Reading, Request
<1>3. n \in 1..Len(tokens) /\ n \in Nat /\ n - 1 = r.at /\ tokens[n].kind # "text"
  BY <1>2
<1>4. Page[f.page].tokens = tokens /\ Cut(f) = cut
  BY <1>1, CutStays DEF SameOutside
<1>5. Tagged(r, tags) = s
  BY <1>1 DEF Tagged
<1> HIDE DEF f, n, tokens, cut
<1>6. Tracks(tokens, n, tags, cut) /\ tags \in Contexts
  BY <1>2, <1>3, TokenTracks
<1>7. /\ f \in Request /\ f.handed \in 0..Len(f.chain) /\ Held(tokens, r.at, f.chain, none, cut)
      /\ Handed(f.chain, f.handed, f.posted)
  BY <1>1, <1>4 DEF Reading
<1>8. Held(tokens, n, f.chain, none, cut)
  BY <1>2, <1>3, <1>7, HeldTag
<1> HIDE DEF tags, none
<1>9. /\ s \in Request /\ s.chain = f.chain /\ s.output_buffer = none /\ SameOutside(f, s)
      /\ s.at = n /\ s.tags = tags /\ s.posted = f.posted /\ s.handed = f.handed
  BY <1>1, <1>3, <1>6, <1>7 DEF Request, SameOutside
<1> HIDE DEF s
<1>10. SameOutside(r, s)
  BY <1>1, <1>9 DEF SameOutside
<1>11. /\ s.posted = r.posted /\ s.handed \in 0..Len(s.chain) /\ Tracks(tokens, n, s.tags, cut)
       /\ Held(tokens, n, s.chain, s.output_buffer, cut) /\ Handed(s.chain, s.handed, s.posted)
  BY <1>1, <1>6, <1>7, <1>8, <1>9
<1>12. Tagged(r, CallbackTags(Page[r.page].tokens[r.at + 1], r.tags)) = s
  BY <1>5 DEF tags, tokens, n
<1> QED BY <1>9, <1>10, <1>11, <1>12 DEF tokens, n, none, cut

-----------------------------------------------------------------------------
(* The steps.                                                              *)

(***************************************************************************)
(* A request that nothing was done for yet is sound.                       *)
(***************************************************************************)
LEMMA NewSound ==
  ASSUME NEW page \in Pages, NEW parent \in Nat, NEW made
  PROVE  /\ Sound(NewRequest(page, parent), made)
         /\ NewRequest(page, parent).parent = parent /\ NewRequest(page, parent).posted = <<>>
<1> DEFINE tokens == Page[page].tokens
           none == <<>>
           r == [page |-> page, parent |-> parent, stage |-> "new", filtered |-> FALSE,
                 length |-> FALSE, at |-> 0, ends |-> {}, tags |-> NoTags, output_buffer |-> none,
                 chain |-> none, handed |-> 0, marked |-> {}, posted |-> none]
<1>1. tokens \in Seq(PageTokens)
  BY PageTokensAre
<1>2. /\ Tracks(tokens, 0, NoTags, Cut(r)) /\ NoTags \in Contexts
      /\ Held(tokens, 0, none, none, Cut(r))
      /\ none \in Seq(Nat) /\ none \in Seq(Posts) /\ Len(none) = 0 /\ 0 \in 0..Len(tokens)
  <2>1. none \in Seq(Nat) /\ none \in Seq(Posts) /\ Len(none) = 0 /\ 0 \in 0..Len(tokens)
    BY <1>1
  <2> QED BY <1>1, <2>1, TracksNothing, HeldNothing
<1>3. NewRequest(page, parent) = r
  BY DEF NewRequest
<1>4. Decided(r)
  BY DEF Decided
<1> HIDE DEF none
<1>5. r \in Request
  BY <1>2 DEF Request, Stages
<1>6. Parsed(r)
  <2>1. 0 < SIZE /\ 0 \in 0..0
    BY RequestsAssumption
  <2> QED BY <1>2, <2>1 DEF Parsed
<1>7. Rendered(r, made)
  BY DEF Rendered
<1>8. r.parent = parent /\ r.posted = none
  OBVIOUS
<1> HIDE DEF r
<1> QED BY <1>3, <1>4, <1>5, <1>6, <1>7, <1>8 DEF Sound, none

\* A response is filtered if the file says that it is to be processed.
LEMMA FiltersAsSaid ==
  ASSUME merged = Blocks, SettingsInherited, TypesInherited, NEW page \in Pages
  PROVE  Filters(page, Bodyless(page)) <=> Processed(page)
<1> DEFINE b == Page[page].block
<1>1. b \in 2..merged
  BY PageTokensAre
<1>2. conf[b]["esi"] = Setting(b, "esi")
  BY <1>1, SettingsAre DEF SettingsInherited
<1>3. ToSet(arrays[types[b]]) = Listed(b)
  BY <1>1 DEF TypesInherited
<1> QED BY <1>2, <1>3 DEF Filters, Enabled, TypeListed, Processed

(***************************************************************************)
(* The header is sent: what is decided is what the file says, and a        *)
(* filtered response of a client has no length any more                    *)
(* (ngx_http_esi_header_filter).                                           *)
(***************************************************************************)
LEMMA SendHeaderInv ==
  ASSUME IInv, UNCHANGED confVars, SettingsInherited, TypesInherited,
         NEW i \in DOMAIN requests, SendHeader(i)
  PROVE  IInv'
<1> DEFINE q == requests[i]
           tokens == Page[q.page].tokens
           filters == Filters(q.page, Bodyless(q.page))
           length  == Page[q.page].length /\ ~ (filters /\ q.parent = 0)
           r == [q EXCEPT !.filtered = filters, !.length = length, !.stage = "open"]
           none == <<>>
<1>1. /\ q \in Request /\ Decided(q) /\ Parsed(q)
      /\ q.page \in Pages /\ tokens \in Seq(PageTokens)
  BY SoundOf
<1>2. requests' = [requests EXCEPT ![i] = r] /\ q.stage = "new" /\ fault' = fault /\ merged = Blocks
  BY DEF SendHeader, Idle, Serving
<1>3. filters \in BOOLEAN /\ length \in BOOLEAN /\ (filters <=> Processed(q.page))
  BY <1>1, <1>2, FiltersAsSaid DEF Filters, Enabled, TypeListed
<1>4. q.parent = 0 /\ length => ~ filters
  OBVIOUS
<1>5. /\ q.at = 0 /\ q.ends = {} /\ q.handed = 0 /\ q.tags = NoTags /\ q.posted = none
      /\ q.chain = none /\ q.output_buffer = none
  BY <1>1, <1>2 DEF Decided
<1>6. Handed(none, 0, none) /\ Asked(tokens, 0, none, Len(requests), Cut(q))
  <2>1. Handed(none, 0, none)
    BY NothingPosted DEF Handed, InOrder, Ats
  <2> QED BY <1>1, <2>1, AskedNothing
<1> HIDE DEF filters, length, none
<1>8. /\ r \in Request /\ r.page = q.page /\ r.parent = q.parent /\ r.stage = "open"
      /\ r.filtered = filters /\ r.length = length /\ r.at = q.at /\ r.tags = q.tags
      /\ r.output_buffer = q.output_buffer /\ r.chain = q.chain /\ r.handed = q.handed /\ r.ends = q.ends
      /\ r.posted = q.posted
  BY <1>1, <1>3 DEF Request, Stages
<1> HIDE DEF r, q, tokens
<1>9. Decided(r)
  BY <1>3, <1>4, <1>5, <1>8 DEF Decided, none
<1>10. Parsed(r)
  BY <1>1, <1>5, <1>8 DEF Parsed, Cut
<1>11. Rendered(r, Len(requests))
  BY <1>5, <1>6, <1>8 DEF Rendered, Cut, tokens
<1>12. Sound(r, Len(requests)) /\ SameSubs(q.posted, r.posted) /\ fault' \in Faults
  BY <1>2, <1>8, <1>9, <1>10, <1>11 DEF Sound, SameSubs, IInv
<1> QED BY <1>2, <1>8, <1>12, OneChanged DEF q, r

(***************************************************************************)
(* A response that is not filtered is passed on whole.                     *)
(***************************************************************************)
LEMMA PassOnInv ==
  ASSUME IInv, UNCHANGED confVars, NEW i \in DOMAIN requests, PassOn(i)
  PROVE  IInv'
<1> DEFINE q == requests[i]
           whole == Whole(q.page)
           r == [q EXCEPT !.posted = whole, !.stage = "done"]
           none == <<>>
<1>1. /\ q \in Request /\ Decided(q) /\ Parsed(q)
      /\ q.page \in Pages /\ Page[q.page].tokens \in Seq(PageTokens)
  BY SoundOf
<1>2. /\ requests' = [requests EXCEPT ![i] = r] /\ q.stage = "open" /\ ~ q.filtered
      /\ fault' = fault
  BY DEF PassOn, Whole
<1>3. whole \in Seq(Posts) /\ Subs(whole) = {}
  <2>1. \A k \in DOMAIN Page[q.page].tokens : Piece(k) \in Posts /\ Piece(k).sub = 0
    BY <1>1 DEF Piece, Posts
  <2>2. DOMAIN Page[q.page].tokens = 1..Len(Page[q.page].tokens)
    BY <1>1
  <2> QED BY <1>1, <2>1, <2>2 DEF Whole, Subs
<1>4. /\ q.at = 0 /\ q.ends = {} /\ q.handed = 0 /\ q.tags = NoTags /\ q.posted = none
      /\ q.chain = none /\ q.output_buffer = none /\ ~ Processed(q.page)
  BY <1>1, <1>2 DEF Decided
<1>5. SameSubs(q.posted, whole)
  BY <1>3, <1>4, NothingPosted DEF SameSubs
<1> HIDE DEF whole, none
<1>6. /\ r \in Request /\ r.page = q.page /\ r.parent = q.parent /\ r.stage = "done"
      /\ r.filtered = q.filtered /\ r.length = q.length /\ r.at = q.at /\ r.tags = q.tags
      /\ r.output_buffer = q.output_buffer /\ r.chain = q.chain /\ r.handed = q.handed /\ r.ends = q.ends
      /\ r.posted = whole
  BY <1>1, <1>3 DEF Request, Stages
<1> HIDE DEF r, q
<1>7. Decided(r)
  BY <1>2, <1>4, <1>6 DEF Decided, none, whole
<1>8. Parsed(r) /\ Rendered(r, Len(requests))
  BY <1>1, <1>2, <1>6 DEF Parsed, Rendered, Cut
<1>9. Sound(r, Len(requests)) /\ SameSubs(q.posted, r.posted) /\ fault' \in Faults
  BY <1>2, <1>5, <1>6, <1>7, <1>8 DEF Sound, IInv
<1> QED BY <1>2, <1>6, <1>9, OneChanged DEF q, r

(***************************************************************************)
(* A call finds the list of tags as it is between calls, empty.            *)
(***************************************************************************)
LEMMA BeginCallInv ==
  ASSUME IInv, UNCHANGED confVars, NEW i \in DOMAIN requests, BeginCall(i)
  PROVE  IInv'
<1> DEFINE q == requests[i]
           tokens == Page[q.page].tokens
           tags == Reset(q.tags)
           r == [q EXCEPT !.stage = "call", !.tags = tags]
           list == Around(tokens, q.at + 1)
<1>1. /\ q \in Request /\ Decided(q) /\ Parsed(q) /\ Rendered(q, Len(requests))
      /\ q.page \in Pages /\ tokens \in Seq(PageTokens)
  BY SoundOf
<1>2. requests' = [requests EXCEPT ![i] = r] /\ q.stage = "open" /\ q.filtered /\ fault' = fault
  BY DEF BeginCall
<1>3. /\ q.tags \in Contexts /\ Tracks(tokens, q.at, q.tags, Cut(q))
      /\ q.at \in q.ends \cup {0} /\ q.at \in 0..Len(tokens)
  BY <1>1, <1>2 DEF Request, Parsed
<1>4. /\ tags \in Contexts /\ tags.exception_raised = q.tags.exception_raised
  BY <1>3, ResetType
<1>5. Tracks(tokens, q.at, tags, Cut(q))
  <2> SUFFICES ASSUME Nests(tokens)
               PROVE  Behind(tags, list, Cut(q)) /\ Distinct(list) /\ ~ tags.exception_raised
    BY DEF Tracks
  <2>1. Behind(q.tags, list, Cut(q)) /\ Distinct(list) /\ ~ q.tags.exception_raised
    BY <1>3 DEF Tracks
  <2>2. list \in Seq(Types)
    <3>1. q.at + 1 \in 1..(Len(tokens) + 1)
      BY <1>1, <1>3
    <3> QED BY <1>1, <3>1, AroundIs
  <2>3. ToSet(list) \subseteq Cut(q)
    <3>1. CASE q.at \in q.ends
      BY <3>1 DEF Cut, CutTypes
    <3>2. CASE q.at = 0
      <4>1. list = <<>>
        BY <1>1, <3>2, AroundIs
      <4>2. ToSet(<<>>) = {}
        BY DEF ToSet
      <4> QED BY <4>1, <4>2
    <3> QED BY <1>3, <3>1, <3>2
  <2> HIDE DEF list, q
  <2> QED BY <1>3, <1>4, <2>1, <2>2, <2>3, BehindReset
<1> HIDE DEF tags
<1>6. /\ r \in Request /\ r.page = q.page /\ r.parent = q.parent /\ r.stage = "call"
      /\ r.filtered = q.filtered /\ r.length = q.length /\ r.at = q.at /\ r.tags = tags
      /\ r.output_buffer = q.output_buffer /\ r.chain = q.chain /\ r.handed = q.handed /\ r.ends = q.ends
      /\ r.posted = q.posted
  BY <1>1, <1>4 DEF Request, Stages
<1>7. r = [q EXCEPT !.stage = "call", !.tags = tags]
  OBVIOUS
<1> HIDE DEF r, q, tokens
<1>8. Decided(r)
  BY <1>1, <1>2, <1>6 DEF Decided
<1>9. Parsed(r) /\ Rendered(r, Len(requests))
  BY <1>1, <1>2, <1>5, <1>6 DEF Parsed, Rendered, Cut, tokens
<1>10. Sound(r, Len(requests)) /\ SameSubs(q.posted, r.posted) /\ fault' \in Faults
  BY <1>2, <1>6, <1>8, <1>9 DEF Sound, SameSubs, IInv
<1> QED BY <1>2, <1>6, <1>10, OneChanged DEF q

(***************************************************************************)
(* Text is held in output_buffer or handed to output_cb.                   *)
(***************************************************************************)
LEMMA ParseTextInv ==
  ASSUME IInv, UNCHANGED confVars, NEW i \in DOMAIN requests, ParseText(i)
  PROVE  IInv'
<1> DEFINE q == requests[i]
           n == Len(requests)
           read == [q EXCEPT !.at = @ + 1, !.output_buffer = Append(@, q.at + 1)]
           r == IF Len(read.output_buffer) = SIZE THEN Flushed(read) ELSE read
<1>1. /\ q \in Request /\ Sound(q, n) /\ Parsed(q) /\ q.page \in Pages
  BY SoundOf
<1>2. /\ requests' = [requests EXCEPT ![i] = r] /\ q.stage = "call" /\ fault' = fault
      /\ q.at < Len(Page[q.page].tokens) /\ Page[q.page].tokens[q.at + 1].kind = "text"
  BY DEF ParseText, Parses
<1> HIDE DEF q, n
<1>3. Reading(q, n) /\ Len(q.output_buffer) < SIZE /\ Len(q.output_buffer) \in Nat
  BY <1>1, <1>2, ReadingIs DEF Request
<1>4. /\ Reading(read, n) /\ SameOutside(q, read) /\ read.posted = q.posted
      /\ Len(read.output_buffer) = Len(q.output_buffer) + 1
  BY <1>1, <1>2, <1>3, TextReading
<1> HIDE DEF read
<1>5. read.page \in Pages
  BY <1>1, <1>4 DEF SameOutside
<1>6. /\ Reading(Flushed(read), n) /\ SameOutside(read, Flushed(read))
      /\ Flushed(read).posted = read.posted /\ Flushed(read).output_buffer = <<>>
  BY <1>4, <1>5, FlushedReading
<1>7. /\ Reading(r, n) /\ Len(r.output_buffer) < SIZE /\ r.parent = q.parent
      /\ r.posted = q.posted /\ r.stage = "call"
  <2>1. CASE Len(read.output_buffer) = SIZE
    <3>1. Len(<<>>) = 0 /\ 0 < SIZE
      BY RequestsAssumption
    <3> QED BY <1>2, <1>4, <1>6, <2>1, <3>1 DEF SameOutside
  <2>2. CASE Len(read.output_buffer) # SIZE
    <3>1. Len(read.output_buffer) < SIZE
      BY <1>3, <1>4, <2>2, RequestsAssumption
    <3> QED BY <1>2, <1>4, <2>2, <3>1 DEF SameOutside
  <2> QED BY <2>1, <2>2
<1> HIDE DEF r
<1>8. Sound(r, n) /\ SameSubs(q.posted, r.posted) /\ fault' \in Faults
  BY <1>2, <1>7, ReadingIs DEF SameSubs, IInv
<1> QED BY <1>2, <1>7, <1>8, OneChanged DEF q, n

(***************************************************************************)
(* A tag that includes a page asks for it, outside an except and while     *)
(* nginx makes requests; every tag goes to the callbacks                   *)
(* (esi_parser_start_tag_cb, esi_parser_end_tag_cb,                        *)
(* esi_tag_start_include).                                                 *)
(***************************************************************************)
LEMMA TagInv ==
  ASSUME IInv, UNCHANGED confVars, NEW i \in DOMAIN requests,
         requests[i].stage = "call",
         requests[i].at < Len(Page[requests[i].page].tokens),
         Tag(i).kind # "text",
         NEW r, r = Tagged(requests[i], CallbackTags(Tag(i), requests[i].tags)),
         \/ Tag(i).kind \in {"start", "inline"} /\ StartInclude(i, Tag(i), r)
         \/ /\ Tag(i).kind = "end"
            /\ requests' = [requests EXCEPT ![i] = r] /\ UNCHANGED fault
  PROVE  IInv'
<1> DEFINE q == requests[i]
           tokens == Page[q.page].tokens
           n == q.at + 1
           made == Len(requests)
           cut == Cut(q)
           tag == Tag(i)
           none == <<>>
<1>1. /\ q \in Request /\ Sound(q, made) /\ q.page \in Pages /\ tokens \in Seq(PageTokens)
  BY SoundOf
<1>2. q.stage = "call" /\ q.at < Len(tokens) /\ tag = tokens[n] /\ tag.kind # "text"
  BY DEF Tag
<1>3. Reading(q, made)
  BY <1>1, <1>2, ReadingIs
<1>4. /\ r \in Request /\ SameOutside(q, r) /\ r.posted = q.posted
      /\ r.at = n /\ r.output_buffer = none /\ r.handed \in 0..Len(r.chain)
      /\ Tracks(tokens, n, r.tags, cut)
      /\ Held(tokens, n, r.chain, r.output_buffer, cut)
      /\ Handed(r.chain, r.handed, r.posted)
  BY <1>1, <1>2, <1>3, TaggedReading
<1>5. /\ q.at \in 0..Len(tokens) /\ Tracks(tokens, q.at, q.tags, cut) /\ Decided(q)
      /\ Asked(tokens, q.at, q.posted, made, cut) /\ q.posted \in Seq(Posts)
  <2> HIDE DEF q, made
  <2>1. q.posted \in Seq(Posts)
    BY <1>1 DEF Request
  <2> QED BY <1>3, <2>1 DEF Reading
<1>6. n \in 1..Len(tokens) /\ n \in Nat /\ n - 1 = q.at
  <2>1. Len(tokens) \in Nat
    BY <1>1
  <2> HIDE DEF q, tokens
  <2> QED BY <1>2, <1>5, <2>1
<1>7. /\ made \in 0..MaxRequests /\ made \in Nat /\ i \in 1..made
      /\ \A s : [requests EXCEPT ![i] = s] = [requests EXCEPT ![i] = s]
  BY RequestsAssumption DEF IInv
<1>8. tag.src \in Pages \cup {NoSrc} /\ fault \in Faults
  BY <1>1, <1>2, <1>6, TokenOf DEF IInv
<1>9. /\ n \in Includes(tokens) <=>
           tag.kind \in {"start", "inline"} /\ tag.type = "include" /\ tag.src # NoSrc
      /\ Nests(tokens) /\ "except" \notin cut =>
           (q.tags.ignore_tag <=> Within(tokens, n, "except"))
  <2> HIDE DEF q, tokens, n, cut
  <2>1. Tracks(tokens, n - 1, q.tags, cut) /\ tokens \in Seq(PageTokens) /\ n \in DOMAIN tokens
    BY <1>1, <1>5, <1>6
  <2> HIDE DEF tag
  <2>2. Nests(tokens) /\ "except" \notin cut =>
          (q.tags.ignore_tag <=> Within(tokens, n, "except"))
    BY <1>6, <2>1, IgnoredWithin
  <2> QED BY <1>2, <2>1, <2>2 DEF Includes
<1>10. /\ Len(none) < SIZE /\ Page[r.page].tokens = tokens /\ r.stage = "call"
       /\ r.parent = q.parent /\ Cut(r) = cut
  <2>1. Len(none) = 0 /\ 0 < SIZE
    BY RequestsAssumption
  <2> HIDE DEF none
  <2>2. r.page = q.page /\ r.stage = q.stage /\ r.parent = q.parent /\ Cut(r) = cut
    BY <1>4, CutStays DEF SameOutside
  <2> HIDE DEF q
  <2> QED BY <1>2, <2>1, <2>2
<1>11. ASSUME requests' = [requests EXCEPT ![i] = r],
              Nests(tokens) /\ "except" \notin cut =>
                n \notin Includes(tokens) \/ Within(tokens, n, "except") \/ made = MaxRequests,
              fault' \in Faults
       PROVE  IInv'
  <2>1. Asked(tokens, n, q.posted, made, cut)
    <3> HIDE DEF q, tokens, n, made, cut
    <3> QED BY <1>1, <1>5, <1>6, <1>11, AskedOn
  <2>2. Decided(r)
    BY <1>2, <1>4, <1>5, DecidedStays
  <2>3. n \in 0..Len(tokens)
    BY <1>6
  <2>4. Reading(r, made)
    <3> HIDE DEF q, tokens, n, made, cut
    <3> QED BY <1>4, <1>10, <2>1, <2>2, <2>3 DEF Reading
  <2>5. Sound(r, made)
    BY <1>4, <1>10, <2>4, ReadingIs
  <2>6. SameSubs(q.posted, r.posted)
    BY <1>4 DEF SameSubs
  <2> QED BY <1>10, <1>11, <2>5, <2>6, OneChanged
<1>12. ASSUME tag.kind \in {"start", "inline"}, tag.type = "include", tag.src # NoSrc,
              ~ q.tags.ignore_tag, made < MaxRequests,
              requests' = Append([requests EXCEPT ![i] =
                            [r EXCEPT !.posted = Append(@, Sub(r.at, made + 1))]],
                            NewRequest(tag.src, i)),
              fault' \in Faults
       PROVE  IInv'
  <2> DEFINE posted == Append(q.posted, Sub(n, made + 1))
             s == [r EXCEPT !.posted = posted]
             new == NewRequest(tag.src, i)
  <2>1. made + 1 \in Nat \ {0} /\ made # MaxRequests
    BY <1>7, <1>12
  <2>2. /\ posted \in Seq(Posts) /\ Handed(r.chain, r.handed, posted)
        /\ Asked(tokens, n, posted, made + 1, cut)
    <3>1. n \in Includes(tokens)
      BY <1>9, <1>12
    <3> HIDE DEF q, tokens, n, made, cut
    <3>2. posted \in Seq(Posts)
      BY <1>5, <1>6, <2>1, PostedSub
    <3>3. Handed(r.chain, r.handed, posted)
      BY <1>4, <1>5, <1>6, <2>1, HandedSub
    <3>4. Asked(tokens, n, posted, made + 1, cut)
      BY <1>1, <1>5, <1>6, <2>1, <3>1, AskedSub
    <3> QED BY <3>2, <3>3, <3>4
  <2> HIDE DEF posted
  <2>3. /\ s \in Request /\ SameOutside(r, s) /\ s.posted = posted
        /\ s.at = r.at /\ s.output_buffer = r.output_buffer /\ s.handed = r.handed
        /\ s.chain = r.chain /\ s.tags = r.tags
    BY <1>4, <2>2 DEF Request, SameOutside
  <2>4. requests' = Append([requests EXCEPT ![i] = s], new)
    BY <1>4, <1>12 DEF posted
  <2> HIDE DEF s
  <2>5. /\ Decided(s) /\ s.parent = q.parent /\ s.stage = "call"
        /\ Page[s.page].tokens = tokens /\ Cut(s) = cut
    <3>1. SameOutside(q, s)
      BY <1>4, <2>3 DEF SameOutside
    <3>2. Decided(s)
      BY <1>2, <1>5, <3>1, DecidedStays
    <3> QED BY <1>2, <3>1, <3>2, CutStays DEF SameOutside
  <2>6. n \in 0..Len(tokens)
    BY <1>6
  <2>7. Reading(s, made + 1)
    <3> HIDE DEF q, tokens, n, made, cut
    <3> QED BY <1>4, <2>2, <2>3, <2>5, <2>6 DEF Reading
  <2>8. Sound(s, made + 1)
    BY <1>4, <1>10, <2>3, <2>5, <2>7, ReadingIs
  <2>9. Sound(new, made + 1) /\ new.parent = i /\ new.posted = <<>>
    <3>1. tag.src \in Pages /\ i \in Nat
      BY <1>7, <1>8, <1>12
    <3> HIDE DEF tag
    <3> QED BY <3>1, NewSound
  <2> HIDE DEF new
  <2>10. s.posted = Append(q.posted, Sub(n, made + 1))
    BY <2>3 DEF posted
  <2>11. /\ Sound(s, Len(requests) + 1) /\ Sound(new, Len(requests) + 1)
         /\ s.parent = requests[i].parent /\ new.parent = i /\ new.posted = <<>>
         /\ s.posted = Append(requests[i].posted, Sub(n, Len(requests) + 1))
         /\ Len(requests) < MaxRequests /\ fault' \in Faults /\ n \in Nat
    BY <1>6, <1>12, <2>5, <2>8, <2>9, <2>10
  <2> HIDE DEF n
  <2> QED BY <2>4, <2>11, OneAsked
<1>13. CASE tag.kind = "end" /\ requests' = [requests EXCEPT ![i] = r] /\ UNCHANGED fault
  BY <1>8, <1>9, <1>11, <1>13
<1>14. CASE tag.kind \in {"start", "inline"} /\ StartInclude(i, tag, r)
  <2>1. \/ /\ tag.type = "include" /\ ~ q.tags.ignore_tag /\ tag.src # NoSrc /\ made < MaxRequests
           /\ requests' = Append([requests EXCEPT ![i] =
                            [r EXCEPT !.posted = Append(@, Sub(r.at, made + 1))]],
                            NewRequest(tag.src, i))
           /\ fault' = fault
        \/ /\ ~ (tag.type = "include" /\ ~ q.tags.ignore_tag /\ tag.src # NoSrc /\ made < MaxRequests)
           /\ requests' = [requests EXCEPT ![i] = r]
           /\ fault' \in {"none", "uninitialised", fault}
    <3> HIDE DEF tag
    <3> QED BY <1>14 DEF StartInclude
  <2>2. fault' \in Faults
    BY <1>8, <2>1 DEF Faults
  <2>3. ~ (made < MaxRequests) => made = MaxRequests
    BY <1>7, RequestsAssumption
  <2> HIDE DEF q, tokens, n, made, cut, tag
  <2> QED BY <1>9, <1>11, <1>12, <1>14, <2>1, <2>2, <2>3
<1> QED BY <1>13, <1>14

\* The callbacks of the tags keep the invariant.
LEMMA TagsInv ==
  ASSUME IInv, UNCHANGED confVars, NEW i \in DOMAIN requests,
         ParseStartTag(i) \/ ParseInlineTag(i) \/ ParseEndTag(i)
  PROVE  IInv'
<1> DEFINE r == Tagged(requests[i], CallbackTags(Tag(i), requests[i].tags))
<1>1. /\ requests[i].stage = "call"
      /\ requests[i].at < Len(Page[requests[i].page].tokens)
      /\ Tag(i).kind # "text"
      /\ \/ Tag(i).kind \in {"start", "inline"} /\ StartInclude(i, Tag(i), r)
         \/ /\ Tag(i).kind = "end"
            /\ requests' = [requests EXCEPT ![i] = r] /\ UNCHANGED fault
  <2>1. CASE ParseStartTag(i)
    <3>1. Tag(i).kind = "start" /\ Parses(i, "start")
      BY <2>1 DEF ParseStartTag, Parses, Tag
    <3>2. CallbackTags(Tag(i), requests[i].tags) = StartTagCb(requests[i].tags, Tag(i).type)
      BY <3>1 DEF CallbackTags
    <3>3. StartInclude(i, Tag(i), r)
      BY <2>1, <3>2 DEF ParseStartTag
    <3> QED BY <3>1, <3>3 DEF Parses
  <2>2. CASE ParseInlineTag(i)
    <3>1. Tag(i).kind = "inline" /\ Parses(i, "inline")
      BY <2>2 DEF ParseInlineTag, Parses, Tag
    <3>2. CallbackTags(Tag(i), requests[i].tags) =
            EndTagCb(StartTagCb(requests[i].tags, Tag(i).type), Tag(i).type)
      BY <3>1 DEF CallbackTags
    <3>3. StartInclude(i, Tag(i), r)
      BY <2>2, <3>2 DEF ParseInlineTag
    <3> QED BY <3>1, <3>3 DEF Parses
  <2>3. CASE ParseEndTag(i)
    <3>1. Tag(i).kind = "end" /\ Parses(i, "end")
      BY <2>3 DEF ParseEndTag, Parses, Tag
    <3>2. CallbackTags(Tag(i), requests[i].tags) = EndTagCb(requests[i].tags, Tag(i).type)
      BY <3>1 DEF CallbackTags
    <3>3. requests' = [requests EXCEPT ![i] = r] /\ UNCHANGED fault
      BY <2>3, <3>2 DEF ParseEndTag
    <3> QED BY <3>1, <3>3 DEF Parses
  <2> QED BY <2>1, <2>2, <2>3
<1> HIDE DEF r
<1>2. r = Tagged(requests[i], CallbackTags(Tag(i), requests[i].tags))
  BY DEF r
<1> QED BY <1>1, <1>2, TagInv

\* Nothing of the requests is touched.
LEMMA NoneChanged ==
  ASSUME IInv, UNCHANGED confVars, UNCHANGED requests, fault' \in Faults
  PROVE  IInv'
<1>1. \A j \in DOMAIN requests' : Sound(requests[j], Len(requests))'
  <2>1. \A j \in DOMAIN requests' : Sound(requests'[j], Len(requests'))
    BY DEF IInv
  <2> QED BY <2>1, SoundThen
<1>2. Placed'
  BY DEF IInv, Placed
<1> QED BY <1>1, <1>2 DEF IInv, confVars

(***************************************************************************)
(* A call ends: the chain goes to the next filter, with last_buf set in    *)
(* its last buffer if it has one (ngx_http_esi_body_filter).               *)
(***************************************************************************)
LEMMA HandOverInv ==
  ASSUME IInv, UNCHANGED confVars, NEW i \in DOMAIN requests, EndCall(i) \/ EndLastCall(i)
  PROVE  IInv'
<1> DEFINE q == requests[i]
           tokens == Page[q.page].tokens
           made == Len(requests)
<1>1. /\ q \in Request /\ Sound(q, made) /\ Parsed(q) /\ q.page \in Pages /\ tokens \in Seq(PageTokens)
  BY SoundOf
<1>2. PICK r, stage :
        /\ HandOver(i, r, stage)
        /\ \/ r = [q EXCEPT !.ends = @ \cup {q.at}] /\ stage = "open"
           \/ r = Flushed(q) /\ stage = "done" /\ q.at = Len(tokens)
  BY DEF EndCall, EndLastCall
<1>3. q.stage = "call"
  BY <1>2 DEF HandOver
<1>4. CASE r.chain = <<>>
  <2>1. UNCHANGED requests /\ fault' \in Faults
    BY <1>2, <1>4 DEF HandOver, Faults
  <2> QED BY <2>1, NoneChanged
<1>5. CASE r.chain # <<>>
  <2> DEFINE posted == q.posted \o [k \in 1..(Len(r.chain) - r.handed) |-> Piece(r.chain[r.handed + k])]
             marked == r.marked \cup {Len(r.chain)}
             s == [r EXCEPT !.posted = posted, !.handed = Len(r.chain), !.marked = marked,
                            !.stage = stage]
             none == <<>>
             cut == Cut(r)
  <2>1. Reading(q, made) /\ q.at \in Nat
    BY <1>1, <1>3, ReadingIs DEF Request
  <2>2. /\ Reading(r, made) /\ r.page = q.page /\ r.parent = q.parent /\ r.at = q.at
        /\ r.tags = q.tags /\ r.posted = q.posted /\ Len(r.output_buffer) < SIZE
        /\ stage = "done" => r.output_buffer = none
        /\ stage = "open" => r.at \in r.ends
    <3>1. CASE r = [q EXCEPT !.ends = @ \cup {q.at}] /\ stage = "open"
      <4> HIDE DEF q, made
      <4>1. /\ r \in Request /\ r.page = q.page /\ r.parent = q.parent /\ r.stage = q.stage
            /\ r.filtered = q.filtered /\ r.length = q.length /\ r.at = q.at
            /\ r.ends = q.ends \cup {q.at} /\ r.tags = q.tags
            /\ r.output_buffer = q.output_buffer /\ r.chain = q.chain /\ r.handed = q.handed
            /\ r.posted = q.posted
        BY <1>1, <2>1, <3>1 DEF Request
      <4>2. Cut(q) \subseteq cut
        BY <4>1 DEF Cut, CutTypes
      <4>3. Reading(r, made)
        <5>1. Decided(r)
          BY <1>3, <2>1, <4>1 DEF Reading, Decided
        <5>2. made \in 0..MaxRequests /\ made \in made..MaxRequests
          BY RequestsAssumption DEF IInv, made
        <5> HIDE DEF cut
        <5>3. /\ Tracks(tokens, q.at, q.tags, cut)
              /\ Held(tokens, q.at, q.chain, q.output_buffer, cut)
              /\ Asked(tokens, q.at, q.posted, made, cut)
          BY <2>1, <4>2, <5>2, TracksMore, HeldMore, AskedMore DEF Reading
        <5> QED BY <1>3, <2>1, <4>1, <5>1, <5>3 DEF Reading, cut
      <4> QED BY <1>1, <3>1, <4>1, <4>3 DEF Parsed
    <3>2. CASE r = Flushed(q) /\ stage = "done"
      <4>1. Len(none) < SIZE
        BY RequestsAssumption
      <4> HIDE DEF q, made, none
      <4> QED BY <1>1, <2>1, <3>2, <4>1, FlushedReading DEF none, SameOutside
    <3> QED BY <1>2, <3>1, <3>2
  <2>3. requests' = [requests EXCEPT ![i] = s] /\ fault' = fault
    BY <1>2, <1>5, <2>2 DEF HandOver
  <2>4. /\ r \in Request /\ Decided(r) /\ r.stage = "call"
        /\ r.chain \in Seq(Nat) /\ Rising(r.chain) /\ r.handed \in 0..Len(r.chain)
        /\ r.posted \in Seq(Posts) /\ Handed(r.chain, r.handed, r.posted)
        /\ Tracks(tokens, r.at, r.tags, cut) /\ Held(tokens, r.at, r.chain, r.output_buffer, cut)
        /\ Asked(tokens, r.at, r.posted, made, cut) /\ r.at \in 0..Len(tokens)
    BY <2>2 DEF Reading, Held, Request
  <2>5. posted \in Seq(Posts) /\ SameSubs(q.posted, posted) /\ Handed(r.chain, Len(r.chain), posted)
    <3> HIDE DEF q
    <3> QED BY <2>2, <2>4, HandedAll
  <2>6. Asked(tokens, r.at, posted, made, cut)
    <3> HIDE DEF q, posted, tokens, made, cut
    <3> QED BY <2>2, <2>4, <2>5, AskedSame
  <2>7. /\ r.tags \in Contexts /\ stage \in {"open", "done"} /\ (stage = "done" => r.at = Len(tokens))
        /\ Len(r.chain) \in Nat /\ Len(r.chain) \in 0..Len(r.chain)
        /\ marked \in SUBSET Nat /\ Len(r.chain) \in marked
    BY <1>2, <2>2, <2>4 DEF Request
  <2> HIDE DEF posted, none, marked
  <2>8. /\ s \in Request /\ s.chain = r.chain /\ s.output_buffer = r.output_buffer
        /\ s.at = r.at /\ s.tags = r.tags /\ s.posted = posted /\ s.handed = Len(r.chain)
        /\ s.page = r.page /\ s.parent = r.parent /\ s.stage = stage
        /\ s.filtered = r.filtered /\ s.length = r.length /\ s.ends = r.ends /\ s.marked = marked
    <3> HIDE DEF q, tokens
    <3> QED BY <2>4, <2>5, <2>7 DEF Request, Stages
  <2> HIDE DEF s
  <2>9. r.filtered /\ Page[r.page].tokens = tokens /\ Cut(s) = cut
    BY <2>2, <2>4, <2>8 DEF Decided, Cut
  <2> HIDE DEF q, tokens, made, cut
  <2>10. Decided(s)
    BY <2>4, <2>7, <2>8, <2>9 DEF Decided
  <2>11. Parsed(s)
    BY <2>2, <2>4, <2>7, <2>8, <2>9 DEF Parsed
  <2>12. Rendered(s, made)
    BY <2>2, <2>5, <2>6, <2>7, <2>8, <2>9 DEF Rendered, none
  <2>13. Sound(s, made)
    BY <2>8, <2>10, <2>11, <2>12 DEF Sound
  <2>14. fault' \in Faults /\ SameSubs(requests[i].posted, s.posted) /\ s.parent = requests[i].parent
    BY <2>2, <2>3, <2>5, <2>8 DEF IInv, q
  <2> QED BY <2>3, <2>13, <2>14, OneChanged DEF made
<1> QED BY <1>4, <1>5

(***************************************************************************)
(* A request that ends is what it was, whatever its stub sends             *)
(* (ngx_http_esi_stub_output).                                             *)
(***************************************************************************)
LEMMA EndsInv ==
  ASSUME IInv, UNCHANGED confVars, NEW i \in DOMAIN requests,
         \/ \E rc \in {"error", "status"}, broken \in BOOLEAN : FailSub(i, rc, broken)
         \/ \E broken \in BOOLEAN : EndSub(i, broken)
         \/ i = 1 /\ EndMain
  PROVE  IInv'
<1> DEFINE q == requests[i]
           made == Len(requests)
<1>1. q \in Request /\ Sound(q, made)
  BY SoundOf
<1>2. PICK stage \in {"ended", "failed"} :
        /\ requests' = [requests EXCEPT ![i].stage = stage]
        /\ q.stage = IF stage = "ended" THEN "done" ELSE "new"
  <2>1. CASE \E rc \in {"error", "status"}, broken \in BOOLEAN : FailSub(i, rc, broken)
    BY <2>1 DEF FailSub
  <2>2. CASE \E broken \in BOOLEAN : EndSub(i, broken)
    BY <2>2 DEF EndSub
  <2>3. CASE i = 1 /\ EndMain
    BY <2>3 DEF EndMain
  <2> QED BY <2>1, <2>2, <2>3
<1>3. fault' \in Faults
  <2>1. fault \in Faults
    BY DEF IInv
  <2> QED BY <2>1 DEF FailSub, EndSub, EndMain, StubOutput, SendStub, Faults
<1> DEFINE r == [q EXCEPT !.stage = stage]
<1>4. requests' = [requests EXCEPT ![i] = r]
  BY <1>2
<1>5. /\ r \in Request /\ r.stage = stage /\ r.page = q.page /\ r.parent = q.parent
      /\ r.filtered = q.filtered /\ r.length = q.length /\ r.at = q.at /\ r.tags = q.tags
      /\ r.output_buffer = q.output_buffer /\ r.chain = q.chain /\ r.handed = q.handed /\ r.ends = q.ends
      /\ r.posted = q.posted /\ r.marked = q.marked
  BY <1>1 DEF Request, Stages
<1> HIDE DEF r, q, made
<1>6. Decided(r) /\ Parsed(r) /\ Rendered(r, made)
  BY <1>1, <1>2, <1>5 DEF Sound, Decided, Parsed, Rendered, Cut
<1>7. Sound(r, made) /\ SameSubs(q.posted, r.posted)
  BY <1>5, <1>6 DEF Sound, SameSubs
<1> QED BY <1>3, <1>4, <1>5, <1>7, OneChanged DEF q, made

(***************************************************************************)
(* The client's request is the first and asked for by no other.            *)
(***************************************************************************)
LEMMA ReceiveInv ==
  ASSUME IInv, UNCHANGED confVars, NEW page \in Pages, Receive(page)
  PROVE  IInv'
<1> DEFINE r == NewRequest(page, 0)
<1>1. requests' = <<r>> /\ fault' = fault /\ merged = Blocks
  BY DEF Receive, Idle, Serving
<1>2. Sound(r, 1) /\ r.parent = 0 /\ r.posted = <<>>
  BY NewSound
<1> HIDE DEF r
<1>3. r \in Request
  BY <1>2 DEF Sound
<1>4. /\ requests' \in Seq(Request) /\ Len(requests') = 1 /\ DOMAIN requests' = {1}
      /\ requests'[1] = r
  <2> HIDE DEF Request
  <2> QED BY <1>1, <1>3
<1>5. Sound(requests[1], Len(requests))'
  BY <1>2, <1>4, SoundThen
<1>6. Placed'
  <2>1. Subs(requests'[1].posted) = {}
    BY <1>2, <1>4, NothingPosted
  <2>2. 2..Len(requests') = {}
    BY <1>4
  <2> QED BY <1>4, <2>1, <2>2 DEF Placed
<1>7. 1 <= MaxRequests /\ merged' = Blocks /\ fault' \in Faults
  BY <1>1, RequestsAssumption DEF IInv, confVars
<1> QED BY <1>2, <1>4, <1>5, <1>6, <1>7 DEF IInv

\* The invariant holds initially.
LEMMA RequestsInitInv == Init => IInv
<1> SUFFICES ASSUME Init PROVE IInv
  OBVIOUS
<1>1. /\ requests = <<>> /\ fault = "none"
      /\ requests \in Seq(Request) /\ Len(requests) = 0 /\ DOMAIN requests = {}
  <2> HIDE DEF Request
  <2> QED BY DEF Init
<1>2. 2..0 = {} /\ 0 <= MaxRequests
  BY RequestsAssumption
<1> QED BY <1>1, <1>2 DEF IInv, Placed, Faults

\* The configuration is read and merged before the first request.
LEMMA ConfigurationFirst ==
  ASSUME IInv, ConfNext, UNCHANGED requestVars
  PROVE  IInv'
<1>1. merged # Blocks
  <2>1. ASSUME NEW d \in Directives, SetSlot(d) \/ EsiTypes(d) PROVE merged = 0
    BY <2>1 DEF SetSlot, EsiTypes, Write
  <2>2. EndReading => merged = 0
    BY DEF EndReading
  <2>3. Merge => merged \in 1..(Blocks - 1)
    BY DEF Merge
  <2>4. merged = 0 \/ merged \in 1..(Blocks - 1)
    BY <2>1, <2>2, <2>3 DEF ConfNext
  <2> QED BY <2>4, BlocksAssumption
<1>2. requests = <<>> /\ requests' = requests /\ fault' = fault
  BY <1>1 DEF IInv, requestVars
<1>3. DOMAIN requests = {} /\ Len(requests) = 0
  BY <1>2
<1> QED BY <1>2, <1>3 DEF IInv, Placed

(***************************************************************************)
(* What is known of the configuration and of the requests is kept by every *)
(* step.                                                                   *)
(***************************************************************************)
LEMMA RequestsNextInv == IInv /\ ConfInv /\ TypesInv /\ [Next]_vars => IInv'
<1> SUFFICES ASSUME IInv, ConfInv, TypesInv, [Next]_vars PROVE IInv'
  OBVIOUS
<1>1. SettingsInherited /\ TypesInherited
  BY DEF ConfInv, TypesInv
<1>2. CASE ConfNext /\ UNCHANGED requestVars
  BY <1>2, ConfigurationFirst
<1>3. ASSUME NEW page \in Pages, Receive(page), UNCHANGED confVars PROVE IInv'
  BY <1>3, ReceiveInv
<1>4. ASSUME NEW i \in 1..MaxRequests, Step(i), UNCHANGED confVars PROVE IInv'
  <2>1. i \in DOMAIN requests
    BY <1>4 DEF Step
  <2>2. CASE SendHeader(i)
    BY <1>1, <1>4, <2>1, <2>2, SendHeaderInv
  <2>3. CASE PassOn(i)
    BY <1>4, <2>1, <2>3, PassOnInv
  <2>4. CASE BeginCall(i)
    BY <1>4, <2>1, <2>4, BeginCallInv
  <2>5. CASE ParseText(i)
    BY <1>4, <2>1, <2>5, ParseTextInv
  <2>6. CASE ParseStartTag(i) \/ ParseInlineTag(i) \/ ParseEndTag(i)
    BY <1>4, <2>1, <2>6, TagsInv
  <2>7. CASE EndCall(i) \/ EndLastCall(i)
    BY <1>4, <2>1, <2>7, HandOverInv
  <2>8. CASE \/ \E rc \in {"error", "status"}, broken \in BOOLEAN : FailSub(i, rc, broken)
             \/ \E broken \in BOOLEAN : EndSub(i, broken)
             \/ i = 1 /\ EndMain
    BY <1>4, <2>1, <2>8, EndsInv
  <2> QED BY <1>4, <2>2, <2>3, <2>4, <2>5, <2>6, <2>7, <2>8 DEF Step
<1>5. CASE UNCHANGED vars
  <2>1. UNCHANGED confVars /\ UNCHANGED requests /\ fault' \in Faults
    BY <1>5 DEF vars, requestVars, IInv
  <2> QED BY <2>1, NoneChanged
<1> QED BY <1>2, <1>3, <1>4, <1>5 DEF Next

\* The configuration is not touched by serving requests.
LEMMA ServingConf == [Next]_vars => [ConfNext]_confVars
BY DEF Next, vars

\* All that is known, of the configuration and of the requests.
Known == ConfInv /\ TypesInv /\ IInv

\* All of it holds initially.
LEMMA KnownInit == Init => Known
<1>1. Init => ConfInit
  BY DEF Init
<1> QED BY <1>1, ConfInitInv, TypesInitInv, RequestsInitInv DEF Known

\* Every step keeps all of it.
LEMMA KnownNext == Known /\ [Next]_vars => Known'
<1> SUFFICES ASSUME Known, [Next]_vars PROVE Known'
  OBVIOUS
<1>1. ConfInv /\ TypesInv /\ IInv
  BY DEF Known
<1>2. [ConfNext]_confVars
  BY ServingConf
<1>3. ConfInv' /\ TypesInv'
  BY <1>1, <1>2, ConfNextInv, TypesNextInv
<1>4. IInv'
  BY <1>1, RequestsNextInv
<1> QED BY <1>3, <1>4 DEF Known

-----------------------------------------------------------------------------
(* What follows from it.                                                   *)

(***************************************************************************)
(* A request, its tags and its buffers are of their types, output_buffer   *)
(* has room between calls, and no more of a chain was handed over than it  *)
(* has (ngx_http_esi_ctx_t, esi_parser_output_cb).                         *)
(***************************************************************************)
THEOREM RequestsTypeOK == Spec => []TypeOK
<1>1. Known => TypeOK
  <2> SUFFICES ASSUME IInv PROVE TypeOK
    BY DEF Known
  <2>1. DOMAIN requests = 1..Len(requests) /\ Len(requests) <= MaxRequests /\ fault \in Faults
    BY DEF IInv
  <2>2. ASSUME NEW i \in DOMAIN requests
        PROVE  LET r == requests[i]
               IN  /\ r.page \in Pages /\ r.parent \in 0..(i - 1)
                   /\ r.stage \in {"new", "open", "call", "done", "ended", "failed"}
                   /\ r.tags \in Contexts
                   /\ Len(r.output_buffer) < SIZE
                   /\ r.handed \in 0..Len(r.chain)
    <3>1. requests[i] \in Request /\ Parsed(requests[i])
      BY SoundOf
    <3>2. requests[i].parent \in 0..(i - 1)
      <4>1. CASE i = 1
        BY <4>1 DEF IInv
      <4>2. CASE i # 1
        <5>1. i \in 2..Len(requests)
          BY <2>1, <4>2
        <5>2. requests[i].parent \in 1..(i - 1)
          BY <5>1 DEF IInv, Placed
        <5> QED BY <5>2
      <4> QED BY <4>1, <4>2
    <3> QED BY <3>1, <3>2 DEF Request, Stages, Parsed
  <2> QED BY <2>1, <2>2 DEF TypeOK, Faults
<1> QED BY <1>1, KnownInit, KnownNext, PTL DEF Spec

(***************************************************************************)
(* A client that gets a Content-Length gets as much: a response that keeps *)
(* its length is sent as it is, with nothing taken out and nothing         *)
(* included (ngx_http_esi_header_filter's ngx_http_clear_content_length).  *)
(***************************************************************************)
THEOREM LengthKept == Spec => []LengthTrue
<1>1. Known => LengthTrue
  BY DEF Known, IInv, LengthTrue, Done, Sound, Decided, Whole
<1> QED BY <1>1, KnownInit, KnownNext, PTL DEF Spec

(***************************************************************************)
(* What a response that is not processed has sent is its page.             *)
(***************************************************************************)
LEMMA WholeIs ==
  ASSUME NEW page \in Pages
  PROVE  LET whole == Whole(page)
             all == DOMAIN Page[page].tokens
         IN  /\ Sent(whole) = all /\ Subs(whole) = {}
             /\ InOrder(whole, all) /\ Ats(whole, all) = all
BY DEF Whole, Piece, Sent, Subs, InOrder, Ats

\* A response that was sent, and what is known of it.
LEMMA SentAs ==
  ASSUME IInv, NEW i \in DOMAIN requests, Done(i)
  PROVE  LET r == requests[i]
             tokens == Page[r.page].tokens
         IN  /\ r.page \in Pages /\ tokens \in Seq(PageTokens)
             /\ ~ Processed(r.page) => r.posted = Whole(r.page)
             /\ Processed(r.page) =>
                  /\ Held(tokens, Len(tokens), r.chain, <<>>, CutTags(r))
                  /\ Handed(r.chain, Len(r.chain), r.posted)
                  /\ Asked(tokens, Len(tokens), r.posted, Len(requests), CutTags(r))
                  /\ Len(r.chain) \in r.marked
<1>1. CutTags(requests[i]) = Cut(requests[i])
  BY DEF CutTags, Cut, CutTypes
<1> QED BY <1>1, SoundOf DEF Done, Decided, Parsed, Rendered

(***************************************************************************)
(* A processed response has all the text that its tags keep, in order and  *)
(* once, wherever calls end, within its tags too, and its last buffer is   *)
(* marked; if none ends within a tag it has nothing else, but for what is  *)
(* said within excepts; any other response has all of its page: from the   *)
(* directives through parser and callbacks to the chains of every call     *)
(* (ngx_http_esi_body_filter, esi_parser_output_cb).                       *)
(***************************************************************************)
THEOREM Rendering == Spec => []PagesRendered
<1>1. Known => PagesRendered
  <2> SUFFICES ASSUME IInv, NEW i \in DOMAIN requests, Done(i), AsMeant(requests[i].page)
               PROVE  LET r == requests[i]
                          tokens == Page[r.page].tokens
                          sent == Ats(r.posted, Sent(r.posted))
                      IN  /\ InOrder(r.posted, Sent(r.posted))
                          /\ Processed(r.page) =>
                               /\ KeptText(tokens) \subseteq sent
                               /\ CutTags(r) = {} =>
                                    sent \subseteq KeptText(tokens) \cup ExceptText(tokens)
                               /\ Len(r.chain) \in r.marked
                          /\ ~ Processed(r.page) => sent = DOMAIN tokens
    BY DEF Known, PagesRendered
  <2> DEFINE r == requests[i]
             tokens == Page[r.page].tokens
             none == <<>>
  <2>1. /\ r.page \in Pages /\ tokens \in Seq(PageTokens)
        /\ ~ Processed(r.page) => r.posted = Whole(r.page)
        /\ Processed(r.page) =>
             /\ Held(tokens, Len(tokens), r.chain, none, CutTags(r))
             /\ Handed(r.chain, Len(r.chain), r.posted)
             /\ Len(r.chain) \in r.marked
    BY SentAs
  <2>2. CASE ~ Processed(r.page)
    BY <2>1, <2>2, WholeIs
  <2>3. CASE Processed(r.page)
    <3>1. InOrder(r.posted, Sent(r.posted)) /\ Ats(r.posted, Sent(r.posted)) = ToSet(r.chain)
      <4>1. r.chain \in Seq(Nat)
        BY <2>1, <2>3 DEF Held
      <4>2. ToSet(r.chain) = {r.chain[k] : k \in 1..Len(r.chain)}
        BY <4>1 DEF ToSet
      <4> QED BY <2>1, <2>3, <4>2 DEF Handed
    <3>2. Nests(tokens)
      BY <2>3 DEF AsMeant
    <3>3. ToSet(none) = {}
      BY NoPlaces
    <3> HIDE DEF r, tokens, none
    <3>4. /\ \A n \in KeptText(tokens) : n <= Len(tokens) => n \in ToSet(r.chain)
          /\ CutTags(r) = {} => ToSet(r.chain) \subseteq KeptText(tokens) \cup ExceptText(tokens)
      BY <2>1, <2>3, <3>2, <3>3 DEF Held
    <3>5. KeptText(tokens) \subseteq ToSet(r.chain)
      <4>1. \A n \in KeptText(tokens) : n <= Len(tokens)
        BY <2>1, KeptTextIs
      <4> QED BY <3>4, <4>1
    <3> QED BY <2>1, <2>3, <3>1, <3>4, <3>5 DEF r, tokens
  <2> QED BY <2>2, <2>3
<1> QED BY <1>1, KnownInit, KnownNext, PTL DEF Spec

(***************************************************************************)
(* The includes of a processed page that are asked for are asked for in    *)
(* order and once; if no call ended within an except, all those outside of *)
(* excepts are, until nginx makes no more requests; and every request but  *)
(* the client's is in the output of the one that asked for it, once        *)
(* (esi_tag_start_include, ngx_http_subrequest).                           *)
(***************************************************************************)
THEOREM Inclusion == Spec => []IncludesAsked
<1>1. ASSUME IInv, NEW i \in DOMAIN requests, Done(i), AsMeant(requests[i].page)
      PROVE  LET r == requests[i]
                 tokens == Page[r.page].tokens
                 asked == Ats(r.posted, Subs(r.posted))
             IN  /\ InOrder(r.posted, Subs(r.posted))
                 /\ asked \subseteq IF Processed(r.page) THEN Includes(tokens) ELSE {}
                 /\ Processed(r.page) /\ "except" \notin CutTags(r) =>
                      \A n \in Includes(tokens) \ asked :
                        \/ Within(tokens, n, "except")
                        \/ Len(requests) = MaxRequests /\ \A m \in asked : m < n
  <2> DEFINE r == requests[i]
             tokens == Page[r.page].tokens
             made == Len(requests)
  <2>1. /\ r.page \in Pages /\ tokens \in Seq(PageTokens)
        /\ ~ Processed(r.page) => r.posted = Whole(r.page)
        /\ Processed(r.page) => Asked(tokens, Len(tokens), r.posted, made, CutTags(r))
    BY <1>1, SentAs
  <2>2. CASE ~ Processed(r.page)
    <3>1. Subs(r.posted) = {}
      BY <2>1, <2>2, WholeIs
    <3>2. InOrder(r.posted, {}) /\ Ats(r.posted, {}) = {}
      BY DEF InOrder, Ats
    <3> HIDE DEF r
    <3> QED BY <2>2, <3>1, <3>2 DEF r
  <2>3. CASE Processed(r.page)
    <3>1. Nests(tokens)
      BY <1>1, <2>3 DEF AsMeant
    <3>2. \A n \in Includes(tokens) : n <= Len(tokens)
      BY <2>1, IncludesPlaces
    <3> HIDE DEF r, tokens, made
    <3>3. /\ InOrder(r.posted, Subs(r.posted))
          /\ Ats(r.posted, Subs(r.posted)) \subseteq Includes(tokens)
          /\ "except" \notin CutTags(r) =>
               \A n \in Includes(tokens) \ Ats(r.posted, Subs(r.posted)) :
                 \/ Within(tokens, n, "except")
                 \/ made = MaxRequests /\ \A m \in Ats(r.posted, Subs(r.posted)) : m < n
      BY <2>1, <2>3, <3>1, <3>2 DEF Asked
    <3> QED BY <2>3, <3>3 DEF r, tokens, made
  <2> QED BY <2>2, <2>3
<1>2. ASSUME IInv, NEW j \in 2..Len(requests)
      PROVE  LET parent == requests[j].parent
             IN  \E k \in DOMAIN requests[parent].posted :
                   \A i \in DOMAIN requests :
                     \A l \in DOMAIN requests[i].posted :
                       requests[i].posted[l].sub = j <=> i = parent /\ l = k
  <2> DEFINE parent == requests[j].parent
  <2>1. PICK k \in Subs(requests[parent].posted) :
          \A l \in Subs(requests[parent].posted) : requests[parent].posted[l].sub = j <=> l = k
    BY <1>2 DEF IInv, Placed, Once
  <2>2. parent \in DOMAIN requests
    <3>1. parent \in 1..(j - 1) /\ requests \in Seq(Request)
      BY <1>2 DEF IInv, Placed
    <3> QED BY <3>1
  <2>3. k \in DOMAIN requests[parent].posted /\ requests[parent].posted[k].sub = j
    BY <2>1 DEF Subs
  <2>4. ASSUME NEW i \in DOMAIN requests, NEW l \in DOMAIN requests[i].posted
        PROVE  requests[i].posted[l].sub = j <=> i = parent /\ l = k
    <3>1. ASSUME requests[i].posted[l].sub = j PROVE i = parent /\ l = k
      <4>1. l \in Subs(requests[i].posted)
        BY <3>1 DEF Subs
      <4>2. i = parent
        BY <1>2, <3>1, <4>1 DEF IInv, Placed
      <4> HIDE DEF parent
      <4> QED BY <2>1, <3>1, <4>1, <4>2
    <3> QED BY <2>3, <3>1
  <2> HIDE DEF parent
  <2> QED BY <2>3, <2>4 DEF parent
<1>3. Known => IncludesAsked
  BY <1>1, <1>2 DEF Known, IncludesAsked
<1> QED BY <1>3, KnownInit, KnownNext, PTL DEF Spec

(***************************************************************************)
(* The settings and types that requests are served by are inherited as the *)
(* file says throughout: no request changes the configuration.             *)
(***************************************************************************)
THEOREM ServedAsInherited == Spec => [](SettingsInherited /\ TypesInherited)
<1>1. Known => SettingsInherited /\ TypesInherited
  BY DEF Known, ConfInv, TypesInv
<1> QED BY <1>1, KnownInit, KnownNext, PTL DEF Spec
=============================================================================
