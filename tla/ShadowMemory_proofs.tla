------------------------ MODULE ShadowMemory_proofs -------------------------
(***************************************************************************)
(* Proofs about ShadowMemory, for any layout of the memory, any sizes of   *)
(* accesses and any values.                                                *)
(***************************************************************************)
EXTENDS ShadowMemory, TLAPS, WellFoundedInduction

\* A byte recorded by frame i was within reach of the function that ran then:
\* it belongs to that function or to one below it.
RecordedBelow == \A i \in 1 .. Depth : \A b \in frames[i] : Owner[b] <= i

\* The parts of the invariant that do not look at what labels say.
Ownership ==
  /\ ShadowTypeOK
  /\ RecordedOnce
  /\ RecordedBelow

-----------------------------------------------------------------------------
(***************************************************************************)
(* Types.                                                                  *)
(***************************************************************************)

\* The bytes of an object are addresses.
LEMMA RangeInByte ==
  ASSUME NEW addr \in Byte, NEW bytes \in Size, Object(addr, bytes)
  PROVE  /\ Range_(addr, bytes) \subseteq Byte
         /\ \A b \in Range_(addr, bytes) : Owner[b] <= Depth
BY DEF Object

\* The initial state is well typed.
LEMMA ShadowTypeInit == Init => ShadowTypeOK
<1> SUFFICES ASSUME Init PROVE ShadowTypeOK
  OBVIOUS
<1>1. DOMAIN shadow = {}
  BY DEF Init
<1>2. shadow_info \in Seq(Info) /\ frames \in Seq(SUBSET Byte) /\ frames # << >>
  BY DEF Init
<1> QED
  BY <1>1, <1>2 DEF Init, ShadowTypeOK

\* Types at an entry ...
LEMMA EnterType == ASSUME ShadowTypeOK, entry_frame PROVE ShadowTypeOK'
<1>1. frames' \in Seq(SUBSET Byte) /\ frames' # << >>
  BY DEF entry_frame, ShadowTypeOK
<1> QED
  BY <1>1 DEF entry_frame, ShadowTypeOK

\* ... at a return ...
LEMMA ExitType == ASSUME ShadowTypeOK, exit_frame PROVE ShadowTypeOK'
<1>1. Len(frames) \in Nat /\ Len(frames) > 1
  BY DEF exit_frame, ShadowTypeOK, Depth
<1>2. frames' = SubSeq(frames, 1, Len(frames) - 1)
  BY DEF exit_frame, Depth
<1>3. frames' \in Seq(SUBSET Byte) /\ Len(frames') = Len(frames) - 1
  BY <1>1, <1>2 DEF ShadowTypeOK
<1>4. frames' # << >>
  BY <1>1, <1>3
<1>5. /\ DOMAIN shadow' = DOMAIN shadow \ frames[Depth]
      /\ \A b \in DOMAIN shadow' : shadow'[b] = shadow[b]
  BY DEF exit_frame, Restrict
<1> QED
  BY <1>3, <1>4, <1>5 DEF exit_frame, ShadowTypeOK

\* ... and after a store.
LEMMA FreezeType ==
  ASSUME ShadowTypeOK, NEW addr \in Byte, NEW bytes \in Size, NEW v \in Value \cup {Null},
         Freeze(addr, bytes, v)
  PROVE  ShadowTypeOK'
<1>1. Range_(addr, bytes) \subseteq Byte
  BY RangeInByte DEF Freeze
<1>2. Len(frames) \in Nat \ {0} /\ Len(shadow_info) \in Nat
  BY DEF ShadowTypeOK
<1>3. CASE v # Null
  <2> DEFINE entry == [value |-> v, origin |-> addr, bytes |-> bytes]
             label == Len(shadow_info) + 1
  <2>1. entry \in Info
    BY <1>3 DEF Info
  <2>2. shadow_info' = Append(shadow_info, entry) /\ set_shadow_label(label, addr, bytes)
    BY <1>3 DEF Freeze
  <2>3. shadow_info' \in Seq(Info) /\ Len(shadow_info') = label
    BY <2>1, <2>2 DEF ShadowTypeOK
  <2>4. /\ DOMAIN shadow' \subseteq Byte
        /\ \A b \in DOMAIN shadow' : shadow'[b] \in 1 .. label
    BY <1>1, <1>2, <2>2 DEF set_shadow_label, ShadowTypeOK
  <2>5. frames' \in Seq(SUBSET Byte) /\ frames' # << >> /\ allocated' \subseteq Byte
    BY <1>1, <1>2, <2>2 DEF set_shadow_label, ShadowTypeOK, Depth
  <2> QED
    BY <2>3, <2>4, <2>5 DEF Freeze, ShadowTypeOK
<1>4. CASE v = Null
  <2>1. /\ erase_shadow(addr, bytes)
        /\ UNCHANGED <<shadow_info, frames, allocated>>
    BY <1>4 DEF Freeze
  <2>2. /\ DOMAIN shadow' \subseteq DOMAIN shadow
        /\ \A b \in DOMAIN shadow' : shadow'[b] = shadow[b]
    BY <2>1 DEF erase_shadow, Restrict
  <2> QED
    BY <2>1, <2>2 DEF Freeze, ShadowTypeOK
<1> QED
  BY <1>3, <1>4

\* Every step keeps types.
LEMMA ShadowTypeStep == ShadowTypeOK /\ [Next]_vars => ShadowTypeOK'
<1> SUFFICES ASSUME ShadowTypeOK, [Next]_vars PROVE ShadowTypeOK'
  OBVIOUS
<1>1. CASE UNCHANGED vars
  BY <1>1 DEF vars, ShadowTypeOK
<1> QED
  BY <1>1, EnterType, ExitType, FreezeType DEF Next

\* Types of the runtime's maps: every byte that has a label has one of the
\* labels that were created.
THEOREM ShadowTypeCorrect == Spec => []ShadowTypeOK
BY ShadowTypeInit, ShadowTypeStep, PTL DEF Spec

-----------------------------------------------------------------------------
(***************************************************************************)
(* Who records a byte.                                                     *)
(***************************************************************************)

\* What each step does to the list of frames.
LEMMA EnterFrames ==
  ASSUME ShadowTypeOK, entry_frame
  PROVE  /\ Depth \in Nat \ {0} /\ Depth' = Depth + 1
         /\ \A i \in 1 .. Depth : frames'[i] = frames[i]
         /\ frames'[Depth'] = {}
BY DEF entry_frame, ShadowTypeOK, Depth

\* A return drops the last frame only.
LEMMA ExitFrames ==
  ASSUME ShadowTypeOK, exit_frame
  PROVE  /\ Depth \in Nat \ {0, 1} /\ Depth' = Depth - 1
         /\ \A i \in 1 .. Depth' : frames'[i] = frames[i]
<1>1. Len(frames) \in Nat /\ Len(frames) > 1
  BY DEF exit_frame, ShadowTypeOK, Depth
<1>2. frames' = SubSeq(frames, 1, Len(frames) - 1)
  BY DEF exit_frame, Depth
<1> QED
  BY <1>1, <1>2 DEF ShadowTypeOK, Depth

\* A store changes the last frame only.
LEMMA FreezeFrames ==
  ASSUME ShadowTypeOK, NEW addr \in Byte, NEW bytes \in Size, NEW v \in Value \cup {Null},
         Freeze(addr, bytes, v)
  PROVE  /\ Depth \in Nat \ {0} /\ Depth' = Depth
         /\ \A i \in 1 .. Depth - 1 : frames'[i] = frames[i]
         /\ v # Null =>
              /\ frames'[Depth] = frames[Depth] \cup (Range_(addr, bytes) \ allocated)
              /\ allocated' = allocated \cup Range_(addr, bytes)
              /\ DOMAIN shadow' = DOMAIN shadow \cup Range_(addr, bytes)
         /\ v = Null =>
              /\ frames' = frames /\ allocated' = allocated
              /\ DOMAIN shadow' \subseteq DOMAIN shadow
<1>1. Depth \in Nat \ {0}
  BY DEF ShadowTypeOK, Depth
<1>2. CASE v # Null
  <2>1. set_shadow_label(Len(shadow_info) + 1, addr, bytes)
    BY <1>2 DEF Freeze
  <2> QED
    BY <1>1, <1>2, <2>1 DEF set_shadow_label, ShadowTypeOK, Depth
<1>3. CASE v = Null
  <2>1. erase_shadow(addr, bytes) /\ UNCHANGED <<frames, allocated>>
    BY <1>3 DEF Freeze
  <2> QED
    BY <1>1, <1>3, <2>1 DEF erase_shadow, Restrict, Depth
<1> QED
  BY <1>2, <1>3

\* The frame of the globals records nothing.
LEMMA OwnershipInit == Init => Ownership
<1> SUFFICES ASSUME Init PROVE Ownership
  OBVIOUS
<1>1. Depth = 1 /\ frames[1] = {} /\ allocated = {} /\ DOMAIN shadow = {}
  BY DEF Init, Depth
<1> QED
  BY <1>1, ShadowTypeInit DEF Ownership, RecordedOnce, RecordedBelow

\* A new frame records nothing.
LEMMA EnterOwnership ==
  ASSUME Ownership, entry_frame PROVE RecordedOnce' /\ RecordedBelow'
<1>1. /\ Depth \in Nat \ {0} /\ Depth' = Depth + 1
      /\ \A i \in 1 .. Depth : frames'[i] = frames[i]
      /\ frames'[Depth'] = {}
  BY EnterFrames DEF Ownership
<1>2. allocated' = allocated /\ shadow' = shadow
  BY DEF entry_frame
<1>3. RecordedBelow'
  BY <1>1 DEF Ownership, RecordedBelow
<1>4. \A b \in Byte : b \in allocated' <=> \E i \in 1 .. Depth' : b \in frames'[i]
  BY <1>1, <1>2 DEF Ownership, RecordedOnce
<1>5. \A i, j \in 1 .. Depth' : i # j => frames'[i] \cap frames'[j] = {}
  BY <1>1 DEF Ownership, RecordedOnce
<1> QED
  BY <1>2, <1>3, <1>4, <1>5 DEF Ownership, RecordedOnce

\* A returning frame takes the labels it recorded with it.
LEMMA ExitOwnership ==
  ASSUME Ownership, exit_frame PROVE RecordedOnce' /\ RecordedBelow'
<1>1. /\ Depth \in Nat \ {0, 1} /\ Depth' = Depth - 1
      /\ \A i \in 1 .. Depth' : frames'[i] = frames[i]
  BY ExitFrames DEF Ownership
<1>2. allocated' = allocated \ frames[Depth] /\ DOMAIN shadow' = DOMAIN shadow \ frames[Depth]
  BY DEF exit_frame, Restrict
<1>3. RecordedBelow'
  BY <1>1 DEF Ownership, RecordedBelow
<1>4. \A i, j \in 1 .. Depth : i # j => frames[i] \cap frames[j] = {}
  BY DEF Ownership, RecordedOnce
<1>5. ASSUME NEW b \in Byte
      PROVE  b \in allocated' <=> \E i \in 1 .. Depth' : b \in frames'[i]
  <2>1. b \in allocated <=> \E i \in 1 .. Depth : b \in frames[i]
    BY DEF Ownership, RecordedOnce
  <2>2. \A i \in 1 .. Depth' : i \in 1 .. Depth /\ i # Depth
    BY <1>1
  <2>3. \A i \in 1 .. Depth : i = Depth \/ i \in 1 .. Depth'
    BY <1>1
  <2>4. Depth \in 1 .. Depth
    BY <1>1
  <2> QED
    BY <1>1, <1>2, <1>4, <2>1, <2>2, <2>3, <2>4
<1>6. \A i, j \in 1 .. Depth' : i # j => frames'[i] \cap frames'[j] = {}
  BY <1>1, <1>4
<1>7. DOMAIN shadow' \subseteq allocated'
  BY <1>2 DEF Ownership, RecordedOnce
<1> QED
  BY <1>3, <1>5, <1>6, <1>7 DEF RecordedOnce

\* A store records what no frame has recorded.
LEMMA FreezeOwnership ==
  ASSUME Ownership, NEW addr \in Byte, NEW bytes \in Size, NEW v \in Value \cup {Null},
         Freeze(addr, bytes, v)
  PROVE  RecordedOnce' /\ RecordedBelow'
<1> DEFINE new == Range_(addr, bytes) \ allocated
<1>1. /\ Depth \in Nat \ {0} /\ Depth' = Depth
      /\ \A i \in 1 .. Depth - 1 : frames'[i] = frames[i]
  BY FreezeFrames DEF Ownership
<1>2. /\ Range_(addr, bytes) \subseteq Byte
      /\ \A b \in Range_(addr, bytes) : Owner[b] <= Depth
  BY RangeInByte DEF Freeze
<1>3. CASE v # Null
  <2>1. /\ frames'[Depth] = frames[Depth] \cup new
        /\ allocated' = allocated \cup Range_(addr, bytes)
        /\ DOMAIN shadow' = DOMAIN shadow \cup Range_(addr, bytes)
    BY <1>3, FreezeFrames DEF Ownership
  <2>2. \A i \in 1 .. Depth : i = Depth \/ i \in 1 .. Depth - 1
    BY <1>1
  <2>3. Depth \in 1 .. Depth /\ \A i \in 1 .. Depth - 1 : i \in 1 .. Depth
    BY <1>1
  <2>4. \A i \in 1 .. Depth : frames[i] \cap new = {}
    <3>1. frames \in Seq(SUBSET Byte)
      BY DEF Ownership, ShadowTypeOK
    <3>2. \A i \in 1 .. Depth : frames[i] \subseteq allocated
      BY <3>1 DEF Ownership, RecordedOnce, Depth
    <3> QED
      BY <3>2
  <2>5. RecordedBelow'
    BY <1>1, <1>2, <2>1, <2>2, <2>3 DEF Ownership, RecordedBelow
  <2>6. ASSUME NEW b \in Byte
        PROVE  b \in allocated' <=> \E i \in 1 .. Depth' : b \in frames'[i]
    <3>1. b \in allocated <=> \E i \in 1 .. Depth : b \in frames[i]
      BY DEF Ownership, RecordedOnce
    <3> QED
      BY <1>1, <2>1, <2>2, <2>3, <3>1
  <2>7. ASSUME NEW i \in 1 .. Depth', NEW j \in 1 .. Depth', i # j
        PROVE  frames'[i] \cap frames'[j] = {}
    <3>1. frames[i] \cap frames[j] = {} /\ frames[i] \cap new = {} /\ frames[j] \cap new = {}
      BY <1>1, <2>4, <2>7 DEF Ownership, RecordedOnce
    <3>2. CASE i = Depth
      BY <1>1, <2>1, <2>2, <2>7, <3>1, <3>2
    <3>3. CASE j = Depth
      BY <1>1, <2>1, <2>2, <2>7, <3>1, <3>3
    <3>4. CASE i # Depth /\ j # Depth
      BY <1>1, <2>2, <3>1, <3>4
    <3> QED
      BY <3>2, <3>3, <3>4
  <2>8. DOMAIN shadow' \subseteq allocated'
    BY <2>1 DEF Ownership, RecordedOnce
  <2> QED
    BY <2>5, <2>6, <2>7, <2>8 DEF RecordedOnce
<1>4. CASE v = Null
  <2>1. frames' = frames /\ allocated' = allocated /\ DOMAIN shadow' \subseteq DOMAIN shadow
    BY <1>4, FreezeFrames DEF Ownership
  <2> QED
    BY <1>1, <2>1 DEF Ownership, RecordedOnce, RecordedBelow
<1> QED
  BY <1>3, <1>4

\* Every step keeps Ownership.
LEMMA OwnershipStep == Ownership /\ [Next]_vars => Ownership'
<1> SUFFICES ASSUME Ownership, [Next]_vars PROVE Ownership'
  OBVIOUS
<1>1. ShadowTypeOK'
  BY ShadowTypeStep DEF Ownership
<1>2. CASE UNCHANGED vars
  BY <1>1, <1>2 DEF vars, Ownership, RecordedOnce, RecordedBelow, Depth
<1> QED
  BY <1>1, <1>2, EnterOwnership, ExitOwnership, FreezeOwnership DEF Next, Ownership

\* Ownership holds in every run.
LEMMA OwnershipInvariant == Spec => []Ownership
BY OwnershipInit, OwnershipStep, PTL DEF Spec

\* __lart_exit_frame cleans each byte once, and misses none that has a label.
THEOREM RecordedOnceAlways == Spec => []RecordedOnce
<1>1. Ownership => RecordedOnce
  BY DEF Ownership
<1> QED
  BY <1>1, OwnershipInvariant, PTL

\* A local of a function that returned has no label: the bytes of the stack
\* that the next call reuses are concrete.
LEMMA OwnershipNoStale == Ownership => NoStaleTaint
<1> SUFFICES ASSUME Ownership, NEW b \in DOMAIN shadow PROVE Owner[b] <= Depth
  BY DEF NoStaleTaint
<1>1. b \in Byte /\ b \in allocated
  BY DEF Ownership, ShadowTypeOK, RecordedOnce
<1>2. PICK i \in 1 .. Depth : b \in frames[i]
  BY <1>1 DEF Ownership, RecordedOnce
<1>3. Owner[b] <= i
  BY <1>2 DEF Ownership, RecordedBelow
<1>4. Owner[b] \in Nat /\ Depth \in Nat
  BY <1>1, OwnerAssumption DEF Ownership, ShadowTypeOK, Depth
<1> QED
  BY <1>2, <1>3, <1>4

\* No byte of a function that has returned is tainted: __lart_exit_frame has
\* removed every label that was put there while the function ran.
THEOREM NoStaleTaintAlways == Spec => []NoStaleTaint
BY OwnershipNoStale, OwnershipInvariant, PTL

-----------------------------------------------------------------------------
(***************************************************************************)
(* What a label says.                                                      *)
(***************************************************************************)

\* No byte has a label at the start.
LEMMA AgreesInit == Init => ShadowAgrees
BY DEF Init, ShadowAgrees

\* An entry changes neither labels nor memory.
LEMMA EnterAgrees == ASSUME ShadowAgrees, entry_frame PROVE ShadowAgrees'
BY DEF entry_frame, ShadowAgrees

\* A return clears memory only of bytes that lose their labels.
LEMMA ExitAgrees ==
  ASSUME Ownership, Ownership', ShadowAgrees, exit_frame PROVE ShadowAgrees'
<1> SUFFICES ASSUME NEW b \in DOMAIN shadow'
             PROVE  memory'[b] = Part(shadow_info'[shadow'[b]].value,
                                      b - shadow_info'[shadow'[b]].origin)
  BY DEF ShadowAgrees
<1>1. /\ b \in DOMAIN shadow /\ shadow'[b] = shadow[b] /\ shadow_info' = shadow_info
  BY DEF exit_frame, Restrict
<1>2. b \in Byte
  BY <1>1 DEF Ownership, ShadowTypeOK
<1>3. Owner[b] # Depth
  <2>1. PICK i \in 1 .. Depth' : b \in frames'[i]
    BY <1>2 DEF Ownership, RecordedOnce
  <2>2. Owner[b] <= i
    BY <2>1 DEF Ownership, RecordedBelow
  <2>3. Depth \in Nat /\ Depth' = Depth - 1
    BY ExitFrames DEF Ownership
  <2>4. Owner[b] \in Nat
    BY <1>2, OwnerAssumption
  <2> QED
    BY <2>1, <2>2, <2>3, <2>4
<1>4. memory'[b] = memory[b]
  BY <1>2, <1>3 DEF exit_frame
<1> QED
  BY <1>1, <1>4 DEF ShadowAgrees

\* A store changes labels and memory of the same bytes.
LEMMA FreezeAgrees ==
  ASSUME ShadowTypeOK, ShadowAgrees,
         NEW addr \in Byte, NEW bytes \in Size, NEW v \in Value \cup {Null},
         Freeze(addr, bytes, v)
  PROVE  ShadowAgrees'
<1> SUFFICES ASSUME NEW b \in DOMAIN shadow'
             PROVE  memory'[b] = Part(shadow_info'[shadow'[b]].value,
                                      b - shadow_info'[shadow'[b]].origin)
  BY DEF ShadowAgrees
<1>1. Range_(addr, bytes) \subseteq Byte
  BY RangeInByte DEF Freeze
<1>2. ASSUME b \in DOMAIN shadow, b \notin Range_(addr, bytes), shadow'[b] = shadow[b]
      PROVE  memory'[b] = Part(shadow_info'[shadow'[b]].value,
                               b - shadow_info'[shadow'[b]].origin)
  <2>1. b \in Byte /\ shadow[b] \in 1 .. Len(shadow_info) /\ shadow_info \in Seq(Info)
    BY <1>2 DEF ShadowTypeOK
  <2>2. memory'[b] = memory[b]
    BY <1>2, <2>1 DEF Freeze
  <2>3. shadow_info'[shadow[b]] = shadow_info[shadow[b]]
    BY <2>1 DEF Freeze
  <2> QED
    BY <1>2, <2>2, <2>3 DEF ShadowAgrees
<1>3. CASE v # Null
  <2> DEFINE entry == [value |-> v, origin |-> addr, bytes |-> bytes]
             label == Len(shadow_info) + 1
  <2>1. shadow_info' = Append(shadow_info, entry) /\ set_shadow_label(label, addr, bytes)
    BY <1>3 DEF Freeze
  <2>2. CASE b \in Range_(addr, bytes)
    <3>1. shadow'[b] = label
      BY <2>1, <2>2 DEF set_shadow_label
    <3>2. shadow_info'[label] = entry
      BY <2>1 DEF ShadowTypeOK
    <3>3. memory'[b] = Part(v, b - addr)
      BY <1>1, <1>3, <2>2 DEF Freeze
    <3> QED
      BY <3>1, <3>2, <3>3
  <2>3. CASE b \notin Range_(addr, bytes)
    BY <1>2, <2>1, <2>3 DEF set_shadow_label
  <2> QED
    BY <2>2, <2>3
<1>4. CASE v = Null
  <2>1. erase_shadow(addr, bytes)
    BY <1>4 DEF Freeze
  <2> QED
    BY <1>2, <2>1 DEF erase_shadow, Restrict
<1> QED
  BY <1>3, <1>4

\* Every step keeps the agreement.
LEMMA AgreesStep == Ownership /\ ShadowAgrees /\ [Next]_vars => ShadowAgrees'
<1> SUFFICES ASSUME Ownership, ShadowAgrees, [Next]_vars PROVE ShadowAgrees'
  OBVIOUS
<1>1. Ownership'
  BY OwnershipStep
<1>2. ShadowTypeOK
  BY DEF Ownership
<1>3. CASE UNCHANGED vars
  BY <1>3 DEF vars, ShadowAgrees
<1> QED
  BY <1>1, <1>2, <1>3, EnterAgrees, ExitAgrees, FreezeAgrees DEF Next

\* The label of a byte names the value that the program stored there last and
\* the place of the byte in it, after any overlapping stores and any calls.
THEOREM ShadowAgreesAlways == Spec => []ShadowAgrees
BY OwnershipInvariant, AgreesInit, AgreesStep, PTL DEF Spec

-----------------------------------------------------------------------------
(***************************************************************************)
(* What a load puts together.  melt recurses from an offset to higher      *)
(* ones, so that facts about it are shown from the end of the range down.  *)
(***************************************************************************)

\* A set of numbers that is not empty has a least element.
LEMMA LeastNumber ==
  ASSUME NEW S \in SUBSET Nat, S # {}
  PROVE  \E m \in S : \A n \in S : m <= n
<1>1. \E m \in S : \A n \in S : <<n, m>> \notin OpToRel(<, Nat)
  BY NatLessThanWellFounded, WFMin
<1>2. \A m, n \in Nat : <<n, m>> \notin OpToRel(<, Nat) => m <= n
  BY DEF OpToRel
<1> QED
  BY <1>1, <1>2

\* A set that has every number up to top above which it has all has them all.
LEMMA Descend ==
  ASSUME NEW top \in Nat, NEW S,
         \A n \in 0 .. top : (\A m \in n + 1 .. top : m \in S) => n \in S
  PROVE  \A n \in 0 .. top : n \in S
<1> DEFINE Missing == {k \in 0 .. top : top - k \notin S}
<1> SUFFICES ASSUME NEW n \in 0 .. top, n \notin S PROVE FALSE
  OBVIOUS
<1>1. top - n \in Missing
  <2>1. top - n \in 0 .. top /\ top - (top - n) = n
    OBVIOUS
  <2> QED
    BY <2>1
<1>2. Missing \in SUBSET Nat
  OBVIOUS
<1>3. PICK k \in Missing : \A j \in Missing : k <= j
  <2> HIDE DEF Missing
  <2> QED
    BY <1>1, <1>2, LeastNumber
<1>4. ASSUME NEW m \in (top - k) + 1 .. top PROVE m \in S
  <2>1. top - m \in 0 .. top /\ top - m < k /\ top - (top - m) = m
    BY <1>3, <1>4
  <2> QED
    BY <1>3, <2>1
<1>5. top - k \in 0 .. top /\ top - k \notin S
  BY <1>3
<1> QED
  BY <1>4, <1>5

\* A byte with a label is one of the bytes that were stored under it.
LabelInRange ==
  \A b \in DOMAIN shadow :
    b \in Range_(shadow_info[shadow[b]].origin, shadow_info[shadow[b]].bytes)

\* No byte has a label at the start.
LEMMA InRangeInit == Init => LabelInRange
BY DEF Init, LabelInRange

\* A store labels bytes of the range it names.
LEMMA FreezeInRange ==
  ASSUME ShadowTypeOK, LabelInRange,
         NEW addr \in Byte, NEW bytes \in Size, NEW v \in Value \cup {Null},
         Freeze(addr, bytes, v)
  PROVE  LabelInRange'
<1> SUFFICES ASSUME NEW b \in DOMAIN shadow'
             PROVE  b \in Range_(shadow_info'[shadow'[b]].origin,
                                 shadow_info'[shadow'[b]].bytes)
  BY DEF LabelInRange
<1>1. ASSUME b \in DOMAIN shadow, shadow'[b] = shadow[b]
      PROVE  b \in Range_(shadow_info'[shadow'[b]].origin, shadow_info'[shadow'[b]].bytes)
  <2>1. shadow[b] \in 1 .. Len(shadow_info) /\ shadow_info \in Seq(Info)
    BY <1>1 DEF ShadowTypeOK
  <2>2. shadow_info'[shadow[b]] = shadow_info[shadow[b]]
    BY <2>1 DEF Freeze
  <2> QED
    BY <1>1, <2>2 DEF LabelInRange
<1>2. CASE v # Null
  <2> DEFINE entry == [value |-> v, origin |-> addr, bytes |-> bytes]
             label == Len(shadow_info) + 1
  <2>1. shadow_info' = Append(shadow_info, entry) /\ set_shadow_label(label, addr, bytes)
    BY <1>2 DEF Freeze
  <2>2. CASE b \in Range_(addr, bytes)
    <3>1. shadow'[b] = label
      BY <2>1, <2>2 DEF set_shadow_label
    <3>2. shadow_info'[label] = entry
      BY <2>1 DEF ShadowTypeOK
    <3> QED
      BY <2>2, <3>1, <3>2
  <2>3. CASE b \notin Range_(addr, bytes)
    BY <1>1, <2>1, <2>3 DEF set_shadow_label
  <2> QED
    BY <2>2, <2>3
<1>3. CASE v = Null
  BY <1>1, <1>3 DEF Freeze, erase_shadow, Restrict
<1> QED
  BY <1>2, <1>3

\* Every step keeps LabelInRange.
LEMMA InRangeStep == ShadowTypeOK /\ LabelInRange /\ [Next]_vars => LabelInRange'
<1> SUFFICES ASSUME ShadowTypeOK, LabelInRange, [Next]_vars PROVE LabelInRange'
  OBVIOUS
<1>1. CASE UNCHANGED vars \/ entry_frame
  BY <1>1 DEF vars, entry_frame, LabelInRange
<1>2. CASE exit_frame
  BY <1>2 DEF exit_frame, Restrict, LabelInRange
<1> QED
  BY <1>1, <1>2, FreezeInRange DEF Next

-----------------------------------------------------------------------------
\* What melt reads at an offset, from what it reads at higher ones.
MeltStep(from, addr, bytes, offset) ==
  IF offset >= bytes THEN [all |-> FALSE, parts |-> << >>]
  ELSE IF addr + offset \in DOMAIN shadow
    THEN LET meta == shadow_info[shadow[addr + offset]]
             rest == from[offset + meta.bytes]
         IN  IF meta.bytes >= bytes
               THEN [all |-> TRUE, parts |-> Low(meta.value, bytes)]
             ELSE IF rest.all THEN rest
             ELSE [all |-> FALSE,
                   parts |-> joined(Low(meta.value, meta.bytes), rest.parts)]
    ELSE LET rest == from[offset + 1]
         IN  IF rest.all THEN rest
             ELSE [all |-> FALSE, parts |-> joined(<<Concrete>>, rest.parts)]

\* The equations of the recursive function in melt.
MeltTable(from, addr, bytes) ==
  from = [offset \in Nat |-> MeltStep(from, addr, bytes, offset)]

\* The entry of a byte in shadow_info.
LEMMA InfoOf ==
  ASSUME ShadowTypeOK, NEW b \in DOMAIN shadow
  PROVE  /\ b \in Nat
         /\ shadow_info[shadow[b]] \in Info
         /\ shadow_info[shadow[b]].origin \in Nat
         /\ shadow_info[shadow[b]].bytes \in Nat \ {0}
<1>1. b \in Byte /\ shadow[b] \in 1 .. Len(shadow_info) /\ shadow_info \in Seq(Info)
  BY DEF ShadowTypeOK
<1>2. shadow_info[shadow[b]] \in Info
  BY <1>1
<1> QED
  BY <1>1, <1>2, ByteAssumption, SizeAssumption DEF Info

\* An entry of the table depends on higher offsets only.
LEMMA MeltReadsAbove ==
  ASSUME ShadowTypeOK, NEW addr \in Byte, NEW bytes \in Size, NEW offset \in Nat,
         NEW f, NEW g, \A k \in Nat : k > offset => f[k] = g[k]
  PROVE  MeltStep(f, addr, bytes, offset) = MeltStep(g, addr, bytes, offset)
<1>1. f[offset + 1] = g[offset + 1]
  OBVIOUS
<1>2. CASE addr + offset \in DOMAIN shadow
  <2> DEFINE n == shadow_info[shadow[addr + offset]].bytes
  <2>1. n \in Nat \ {0}
    BY <1>2, InfoOf
  <2>2. f[offset + n] = g[offset + n]
    <3> HIDE DEF n
    <3> QED
      BY <2>1
  <2> QED
    BY <1>2, <2>2 DEF MeltStep
<1>3. CASE addr + offset \notin DOMAIN shadow
  BY <1>1, <1>3 DEF MeltStep
<1> QED
  BY <1>2, <1>3

\* The recursion of melt has a solution: it only goes up, and ends.
LEMMA MeltTableExists ==
  ASSUME ShadowTypeOK, NEW addr \in Byte, NEW bytes \in Size
  PROVE  \E f : MeltTable(f, addr, bytes)
<1> DEFINE Solves(f, n) ==
             /\ f = [o \in Nat |-> f[o]]
             /\ \A o \in Nat : o >= n => f[o] = MeltStep(f, addr, bytes, o)
           S == {n \in 0 .. bytes : \E f : Solves(f, n)}
<1>1. bytes \in Nat
  BY SizeAssumption
<1>2. bytes \in S
  <2> DEFINE f == [o \in Nat |-> [all |-> FALSE, parts |-> << >>]]
  <2>1. Solves(f, bytes)
    BY <1>1 DEF MeltStep
  <2> HIDE DEF f, Solves
  <2> QED
    BY <1>1, <2>1
<1>3. ASSUME NEW n \in 0 .. bytes, \A m \in n + 1 .. bytes : m \in S PROVE n \in S
  <2>1. CASE n = bytes
    BY <1>2, <2>1
  <2>2. CASE n # bytes
    <3>1. n + 1 \in n + 1 .. bytes /\ n \in Nat
      BY <1>1, <2>2
    <3>2. PICK f : Solves(f, n + 1)
      BY <1>3, <3>1
    <3> DEFINE g == [o \in Nat |-> IF o = n THEN MeltStep(f, addr, bytes, n) ELSE f[o]]
    <3>3. \A o \in Nat : o >= n =>
            \A k \in Nat : k > o => f[k] = g[k]
      BY <3>1
    <3>4. ASSUME NEW o \in Nat, o >= n PROVE g[o] = MeltStep(g, addr, bytes, o)
      <4>1. MeltStep(f, addr, bytes, o) = MeltStep(g, addr, bytes, o)
        <5>1. \A k \in Nat : k > o => f[k] = g[k]
          BY <3>3, <3>4
        <5> HIDE DEF g
        <5> QED
          BY <5>1, MeltReadsAbove
      <4>2. CASE o = n
        BY <4>1, <4>2
      <4>3. CASE o # n
        <5>1. o >= n + 1 /\ g[o] = f[o]
          BY <3>1, <3>4, <4>3
        <5> QED
          BY <3>2, <4>1, <5>1
      <4> QED
        BY <4>2, <4>3
    <3>5. g = [o \in Nat |-> g[o]]
      OBVIOUS
    <3> HIDE DEF g
    <3>6. Solves(g, n)
      BY <3>4, <3>5
    <3> QED
      BY <3>6
  <2> QED
    BY <2>1, <2>2
<1>4. 0 \in S
  <2>1. 0 \in 0 .. bytes
    BY <1>1
  <2> HIDE DEF S
  <2> QED
    BY <1>1, <1>3, <2>1, Descend
<1>5. PICK f : Solves(f, 0)
  BY <1>4
<1>6. f = [o \in Nat |-> f[o]] /\ \A o \in Nat : f[o] = MeltStep(f, addr, bytes, o)
  BY <1>5
<1> QED
  BY <1>6 DEF MeltTable

\* The recursive function in melt satisfies its equations.
LEMMA MeltIsTable ==
  ASSUME ShadowTypeOK, NEW addr \in Byte, NEW bytes \in Size
  PROVE  \E f : /\ \A o \in Nat : f[o] = MeltStep(f, addr, bytes, o)
                /\ melt(addr, bytes) = f[0].parts
<1> DEFINE c == CHOOSE f : MeltTable(f, addr, bytes)
<1>1. MeltTable(c, addr, bytes)
  BY MeltTableExists
<1>2. melt(addr, bytes) = c[0].parts
  BY DEF melt, MeltTable, MeltStep
<1> HIDE DEF c
<1>3. \A o \in Nat : c[o] = MeltStep(c, addr, bytes, o)
  BY <1>1 DEF MeltTable
<1> QED
  BY <1>2, <1>3

\* Two stretches of a row side by side.
LEMMA SideBySide ==
  ASSUME NEW g, NEW a \in Int, NEW k \in Nat, NEW m \in Nat
  PROVE  [i \in 1 .. k |-> g[a + i]] \o [i \in 1 .. m |-> g[a + k + i]]
           = [i \in 1 .. k + m |-> g[a + i]]
<1> DEFINE E == {g[a + i] : i \in 1 .. k + m}
           p == [i \in 1 .. k |-> g[a + i]]
           r == [i \in 1 .. m |-> g[a + k + i]]
<1>1. p \in [1 .. k -> E]
  OBVIOUS
<1>2. r \in [1 .. m -> E]
  <2>1. \A i \in 1 .. m : k + i \in 1 .. k + m /\ a + (k + i) = a + k + i
    OBVIOUS
  <2> QED
    BY <2>1
<1>3. /\ \A i \in 1 .. k : p[i] = g[a + i]
      /\ \A i \in 1 .. m : r[i] = g[a + k + i]
  OBVIOUS
<1> HIDE DEF E, p, r
<1>4. /\ p \in Seq(E) /\ Len(p) = k
      /\ r \in Seq(E) /\ Len(r) = m
  BY <1>1, <1>2
<1>5. p \o r = [i \in 1 .. k + m |-> IF i <= k THEN p[i] ELSE r[i - k]]
  <2> DEFINE q == p \o r
  <2>1. q \in Seq(E) /\ Len(q) = k + m
    BY <1>4
  <2>2. \A i \in 1 .. k + m : q[i] = IF i <= k THEN p[i] ELSE r[i - k]
    BY <1>4
  <2> HIDE DEF q
  <2>3. q = [i \in 1 .. k + m |-> q[i]]
    BY <2>1
  <2>4. q = [i \in 1 .. k + m |-> IF i <= k THEN p[i] ELSE r[i - k]]
    BY <2>2, <2>3
  <2> QED
    BY <2>4 DEF q
<1>6. \A i \in 1 .. k + m : (IF i <= k THEN p[i] ELSE r[i - k]) = g[a + i]
  <2> SUFFICES ASSUME NEW i \in 1 .. k + m, ~(i <= k) PROVE r[i - k] = g[a + i]
    BY <1>3
  <2>1. i - k \in 1 .. m /\ a + k + (i - k) = a + i
    OBVIOUS
  <2> QED
    BY <1>3, <2>1
<1> QED
  BY <1>5, <1>6 DEF p, r

\* The bytes in memory from an offset on.
Stored(addr, o, bytes) == [i \in 1 .. bytes - o |-> memory[addr + o + i - 1]]

\* Between two values: at the end of the range, at a concrete byte, or at the
\* first byte of a value.
Boundary(addr, o, bytes) ==
  \/ o = bytes
  \/ addr + o \notin DOMAIN shadow
  \/ shadow_info[shadow[addr + o]].origin = addr + o

\* The low bytes of a value are what memory holds from its origin on.
LEMMA LowIsMemory ==
  ASSUME ShadowTypeOK, ShadowAgrees, NEW b \in DOMAIN shadow, NEW n \in Nat,
         NEW a \in Nat, a = shadow_info[shadow[b]].origin,
         \A c \in Range_(a, n) : c \in DOMAIN shadow /\ shadow[c] = shadow[b]
  PROVE  Low(shadow_info[shadow[b]].value, n) = [i \in 1 .. n |-> memory[a + i - 1]]
<1> DEFINE v == shadow_info[shadow[b]].value
<1>1. ASSUME NEW i \in 1 .. n PROVE memory[a + i - 1] = Part(v, i - 1)
  <2>1. i - 1 \in 0 .. n - 1 /\ a + (i - 1) = a + i - 1 /\ (a + i - 1) - a = i - 1
    OBVIOUS
  <2>2. a + i - 1 \in Range_(a, n)
    BY <2>1 DEF Range_
  <2> QED
    BY <2>1, <2>2 DEF ShadowAgrees
<1> QED
  BY <1>1 DEF Low

\* From one boundary to the next.
LEMMA NextBoundary ==
  ASSUME ShadowTypeOK, LabelInRange, NEW addr \in Byte, NEW bytes \in Size,
         Whole(addr, bytes),
         \A b \in Range_(addr, bytes) \cap DOMAIN shadow :
           shadow_info[shadow[b]].bytes < bytes,
         NEW o \in 0 .. bytes - 1, Boundary(addr, o, bytes),
         NEW n \in Nat,
         n = IF addr + o \in DOMAIN shadow
               THEN shadow_info[shadow[addr + o]].bytes ELSE 1
  PROVE  o + n \in 1 .. bytes /\ n > 0 /\ Boundary(addr, o + n, bytes)
<1>1. addr \in Nat /\ bytes \in Nat /\ o < bytes /\ o \in Nat
  BY ByteAssumption, SizeAssumption
<1> DEFINE meta(b) == shadow_info[shadow[b]]
<1>2. ASSUME NEW b \in DOMAIN shadow, b >= addr, b < addr + bytes
      PROVE  /\ b \in Nat /\ meta(b).origin \in Nat /\ meta(b).bytes \in Nat \ {0}
             /\ meta(b).origin <= b /\ b < meta(b).origin + meta(b).bytes
             /\ \A c \in Nat : meta(b).origin <= c /\ c < meta(b).origin + meta(b).bytes
                  => /\ c >= addr /\ c < addr + bytes
                     /\ c \in DOMAIN shadow /\ shadow[c] = shadow[b]
  <2>1. b \in Nat /\ meta(b).origin \in Nat /\ meta(b).bytes \in Nat \ {0}
    BY InfoOf
  <2>2. b \in Range_(addr, bytes)
    <3>1. b - addr \in 0 .. bytes - 1 /\ addr + (b - addr) = b
      BY <1>1, <1>2, <2>1
    <3> QED
      BY <3>1 DEF Range_
  <2>3. b \in Range_(meta(b).origin, meta(b).bytes)
    BY DEF LabelInRange
  <2>4. /\ Range_(meta(b).origin, meta(b).bytes) \subseteq Range_(addr, bytes)
        /\ \A c \in Range_(meta(b).origin, meta(b).bytes) :
             c \in DOMAIN shadow /\ shadow[c] = shadow[b]
    BY <2>2 DEF Whole
  <2> HIDE DEF meta
  <2>5. \A c \in Nat : meta(b).origin <= c /\ c < meta(b).origin + meta(b).bytes
          => c \in Range_(meta(b).origin, meta(b).bytes)
    <3> SUFFICES ASSUME NEW c \in Nat, meta(b).origin <= c,
                        c < meta(b).origin + meta(b).bytes
                 PROVE  c \in Range_(meta(b).origin, meta(b).bytes)
      OBVIOUS
    <3>1. c - meta(b).origin \in 0 .. meta(b).bytes - 1 /\ meta(b).origin + (c - meta(b).origin) = c
      BY <2>1
    <3> QED
      BY <3>1 DEF Range_
  <2>6. \A c \in Range_(addr, bytes) : c >= addr /\ c < addr + bytes
    BY <1>1 DEF Range_
  <2>7. meta(b).origin <= b /\ b < meta(b).origin + meta(b).bytes
    BY <2>1, <2>3 DEF Range_
  <2> QED
    BY <2>1, <2>4, <2>5, <2>6, <2>7
<1>3. n > 0 /\ o + n <= bytes
  <2>1. CASE addr + o \in DOMAIN shadow
    <3>1. meta(addr + o).origin = addr + o
      BY <1>1, <2>1 DEF Boundary
    <3>2. addr + o >= addr /\ addr + o < addr + bytes
      BY <1>1
    <3> HIDE DEF meta
    <3>3. /\ n \in Nat \ {0}
          /\ \A c \in Nat : addr + o <= c /\ c < addr + o + n => c < addr + bytes
      BY <1>2, <2>1, <3>1, <3>2 DEF meta
    <3>4. addr + o + n - 1 < addr + bytes
      BY <1>1, <3>3
    <3> QED
      BY <1>1, <3>3, <3>4
  <2>2. CASE addr + o \notin DOMAIN shadow
    BY <1>1, <2>2
  <2> QED
    BY <2>1, <2>2
<1>4. Boundary(addr, o + n, bytes)
  <2> DEFINE b == addr + (o + n)
  <2> SUFFICES ASSUME o + n # bytes, b \in DOMAIN shadow, meta(b).origin # b PROVE FALSE
    BY DEF Boundary
  <2>1. b >= addr /\ b < addr + bytes /\ b \in Nat /\ b - 1 \in Nat
    BY <1>1, <1>3
  <2> HIDE DEF b, meta
  <2>2. b - 1 \in DOMAIN shadow /\ shadow[b - 1] = shadow[b] /\ b - 1 >= addr /\ b - 1 < addr + bytes
    BY <1>1, <1>2, <2>1
  <2>3. CASE addr + o \in DOMAIN shadow
    <3>1. meta(addr + o).origin = addr + o /\ n = meta(addr + o).bytes
      BY <1>1, <2>3 DEF Boundary, meta
    <3>2. addr + o >= addr /\ addr + o < addr + bytes
      BY <1>1
    <3>3. shadow[b - 1] = shadow[addr + o]
      <4>1. addr + o <= b - 1 /\ b - 1 < addr + o + n
        BY <1>1, <1>3 DEF b
      <4> QED
        BY <1>2, <2>1, <2>3, <3>1, <3>2, <4>1
    <3>4. meta(b) = meta(addr + o)
      BY <2>2, <3>3 DEF meta
    <3>5. b < meta(b).origin + meta(b).bytes
      BY <1>2, <2>1
    <3> QED
      BY <1>1, <3>1, <3>4, <3>5 DEF b
  <2>4. CASE addr + o \notin DOMAIN shadow
    <3>1. b - 1 = addr + o
      BY <1>1, <2>4 DEF b
    <3> QED
      BY <2>2, <2>4, <3>1
  <2> QED
    BY <2>3, <2>4
<1> QED
  BY <1>1, <1>3, <1>4

\* A range whose values are all shorter than it: from a boundary on, melt puts
\* together what is in memory.
LEMMA MeltFromBoundary ==
  ASSUME ShadowTypeOK, LabelInRange, ShadowAgrees,
         NEW addr \in Byte, NEW bytes \in Size, Whole(addr, bytes),
         \A b \in Range_(addr, bytes) \ DOMAIN shadow : memory[b] = Concrete,
         \A b \in Range_(addr, bytes) \cap DOMAIN shadow :
           shadow_info[shadow[b]].bytes < bytes,
         NEW f, \A o \in Nat : f[o] = MeltStep(f, addr, bytes, o)
  PROVE  \A o \in 0 .. bytes : Boundary(addr, o, bytes) =>
           f[o] = [all |-> FALSE, parts |-> Stored(addr, o, bytes)]
<1> DEFINE Exact(o) == f[o] = [all |-> FALSE, parts |-> Stored(addr, o, bytes)]
           S == {o \in 0 .. bytes : Boundary(addr, o, bytes) => Exact(o)}
<1>1. addr \in Nat /\ bytes \in Nat
  BY ByteAssumption, SizeAssumption
<1>2. ASSUME NEW o \in 0 .. bytes, \A m \in o + 1 .. bytes : m \in S,
             Boundary(addr, o, bytes)
      PROVE  Exact(o)
  <2>1. o \in Nat /\ f[o] = MeltStep(f, addr, bytes, o)
    BY <1>1
  <2>2. CASE o = bytes
    <3>1. f[o] = [all |-> FALSE, parts |-> << >>]
      BY <1>1, <2>1, <2>2 DEF MeltStep
    <3>2. Stored(addr, o, bytes) = << >>
      BY <1>1, <2>2 DEF Stored
    <3> QED
      BY <3>1, <3>2
  <2>3. CASE o # bytes
    <3> DEFINE b == addr + o
               n == IF b \in DOMAIN shadow THEN shadow_info[shadow[b]].bytes ELSE 1
    <3>1. o \in 0 .. bytes - 1 /\ b \in Range_(addr, bytes) /\ b \in Nat /\ ~(o >= bytes)
      BY <1>1, <2>3 DEF Range_
    <3>2. n \in Nat
      BY InfoOf
    <3>3. o + n \in 1 .. bytes /\ n > 0 /\ Boundary(addr, o + n, bytes)
      BY <1>2, <3>1, <3>2, NextBoundary
    <3>4. Exact(o + n)
      <4>1. o + n \in o + 1 .. bytes
        BY <1>1, <3>2, <3>3
      <4> HIDE DEF n, Exact
      <4> QED
        BY <1>2, <3>3, <4>1
    <3> DEFINE part == [i \in 1 .. n |-> memory[b + i - 1]]
    <3>5. f[o] = [all |-> FALSE, parts |-> joined(part, f[o + n].parts)]
      <4>1. CASE b \in DOMAIN shadow
        <5> DEFINE meta == shadow_info[shadow[b]]
        <5>1. n = meta.bytes /\ meta.bytes < bytes
          BY <3>1, <4>1
        <5>2. Low(meta.value, n) = part
          <6>1. meta.origin = b
            BY <1>2, <2>3, <4>1 DEF Boundary
          <6>2. \A c \in Range_(b, n) : c \in DOMAIN shadow /\ shadow[c] = shadow[b]
            BY <3>1, <4>1, <5>1, <6>1 DEF Whole
          <6> HIDE DEF b, n
          <6> QED
            BY <3>1, <3>2, <4>1, <6>1, <6>2, LowIsMemory
        <5>3. MeltStep(f, addr, bytes, o)
                = IF f[o + n].all THEN f[o + n]
                  ELSE [all |-> FALSE, parts |-> joined(Low(meta.value, n), f[o + n].parts)]
          <6>1. ~(meta.bytes >= bytes)
            <7>1. meta.bytes \in Nat
              BY <4>1, InfoOf
            <7> QED
              BY <1>1, <5>1, <7>1
          <6> QED
            BY <3>1, <4>1, <6>1 DEF MeltStep
        <5>4. f[o + n].all = FALSE
          BY <3>4
        <5> HIDE DEF meta, n, b, part
        <5> QED
          BY <2>1, <5>2, <5>3, <5>4
      <4>2. CASE b \notin DOMAIN shadow
        <5>1. n = 1 /\ memory[b] = Concrete
          BY <3>1, <4>2
        <5>2. part = <<Concrete>>
          BY <3>1, <5>1
        <5>3. MeltStep(f, addr, bytes, o)
                = IF f[o + n].all THEN f[o + n]
                  ELSE [all |-> FALSE, parts |-> joined(<<Concrete>>, f[o + n].parts)]
          BY <3>1, <4>2 DEF MeltStep
        <5>4. f[o + n].all = FALSE
          BY <3>4
        <5> HIDE DEF n, b, part
        <5> QED
          BY <2>1, <5>2, <5>3, <5>4
      <4> QED
        BY <4>1, <4>2
    <3>6. joined(part, Stored(addr, o + n, bytes)) = Stored(addr, o, bytes)
      <4> DEFINE a == addr + o - 1
                 m == bytes - (o + n)
      <4>1. a \in Int /\ m \in Nat /\ n + m = bytes - o
        BY <1>1, <3>1, <3>2, <3>3
      <4> HIDE DEF n
      <4>2. /\ \A i \in Int : a + i = addr + o + i - 1
            /\ \A i \in Int : a + n + i = addr + (o + n) + i - 1
            /\ \A i \in Int : a + i = b + i - 1
        BY <1>1, <3>1, <3>2
      <4>3. part = [i \in 1 .. n |-> memory[a + i]]
        BY <3>2, <4>2
      <4>4. Stored(addr, o + n, bytes) = [i \in 1 .. m |-> memory[a + n + i]]
        BY <4>1, <4>2 DEF Stored
      <4>5. Stored(addr, o, bytes) = [i \in 1 .. n + m |-> memory[a + i]]
        <5>1. Stored(addr, o, bytes) = [i \in 1 .. bytes - o |-> memory[a + i]]
          BY <4>2 DEF Stored
        <5> HIDE DEF a, m
        <5> QED
          BY <4>1, <5>1
      <4>6. [i \in 1 .. n |-> memory[a + i]] \o [i \in 1 .. m |-> memory[a + n + i]]
              = [i \in 1 .. n + m |-> memory[a + i]]
        <5> HIDE DEF a, m
        <5> QED
          BY <3>2, <4>1, SideBySide
      <4> HIDE DEF a, m, part
      <4> QED
        BY <4>3, <4>4, <4>5, <4>6, Zenon DEF joined
    <3>7. f[o + n].parts = Stored(addr, o + n, bytes)
      BY <3>4
    <3> HIDE DEF n, part
    <3> QED
      BY <3>5, <3>6, <3>7
  <2> QED
    BY <2>2, <2>3
<1>3. ASSUME NEW o \in 0 .. bytes, \A m \in o + 1 .. bytes : m \in S PROVE o \in S
  <2> HIDE DEF Exact
  <2> QED
    BY <1>2, <1>3
<1>4. \A o \in 0 .. bytes : o \in S
  <2> HIDE DEF S
  <2> QED
    BY <1>1, <1>3, Descend
<1> QED
  BY <1>4

\* A range that a value fills, or overfills: the value is the answer.
LEMMA MeltWholeValue ==
  ASSUME ShadowTypeOK, LabelInRange, ShadowAgrees,
         NEW addr \in Byte, NEW bytes \in Size, Whole(addr, bytes),
         NEW b \in Range_(addr, bytes) \cap DOMAIN shadow,
         shadow_info[shadow[b]].bytes >= bytes,
         NEW f, \A o \in Nat : f[o] = MeltStep(f, addr, bytes, o)
  PROVE  f[0].parts = Stored(addr, 0, bytes)
<1> DEFINE meta == shadow_info[shadow[b]]
<1>1. addr \in Nat /\ bytes \in Nat \ {0}
  BY ByteAssumption, SizeAssumption
<1>2. meta.origin \in Nat /\ meta.bytes \in Nat \ {0}
  BY InfoOf
<1>3. /\ Range_(meta.origin, bytes) \subseteq Range_(addr, bytes)
      /\ \A c \in Range_(meta.origin, bytes) : c \in DOMAIN shadow /\ shadow[c] = shadow[b]
  <2>1. (IF meta.bytes < bytes THEN meta.bytes ELSE bytes) = bytes
    BY <1>1, <1>2
  <2> QED
    BY <2>1 DEF Whole
<1>4. meta.origin = addr
  <2> HIDE DEF meta
  <2>1. meta.origin \in Range_(meta.origin, bytes) /\ meta.origin + (bytes - 1) \in Range_(meta.origin, bytes)
    BY <1>1, <1>2 DEF Range_
  <2>2. \A c \in Range_(addr, bytes) : c >= addr /\ c <= addr + bytes - 1
    BY <1>1 DEF Range_
  <2>3. meta.origin >= addr /\ meta.origin + (bytes - 1) <= addr + bytes - 1
    BY <1>3, <2>1, <2>2
  <2> QED
    BY <1>1, <1>2, <2>3
<1>5. addr \in DOMAIN shadow /\ shadow[addr] = shadow[b]
  <2>1. addr \in Range_(addr, bytes)
    BY <1>1 DEF Range_
  <2> QED
    BY <1>3, <1>4, <2>1
<1>6. f[0] = [all |-> TRUE, parts |-> Low(meta.value, bytes)]
  <2>1. addr + 0 = addr /\ ~(0 >= bytes) /\ 0 \in Nat
    BY <1>1
  <2>2. f[0] = MeltStep(f, addr, bytes, 0)
    BY <2>1
  <2> QED
    BY <1>5, <2>1, <2>2 DEF MeltStep
<1>7. Low(meta.value, bytes) = [i \in 1 .. bytes |-> memory[addr + i - 1]]
  BY <1>1, <1>3, <1>4, LowIsMemory
<1>8. Stored(addr, 0, bytes) = [i \in 1 .. bytes |-> memory[addr + i - 1]]
  BY <1>1 DEF Stored
<1> QED
  BY <1>6, <1>7, <1>8

\* In states of the invariants whole loads are exact.
LEMMA LoadsAgree == ShadowTypeOK /\ LabelInRange /\ ShadowAgrees => WholeLoadsExact
<1> SUFFICES ASSUME ShadowTypeOK, LabelInRange, ShadowAgrees,
                    NEW addr \in Byte, NEW bytes \in Size, Whole(addr, bytes),
                    \A b \in Range_(addr, bytes) \ DOMAIN shadow : memory[b] = Concrete
             PROVE  Load(addr, bytes) = [i \in 1 .. bytes |-> memory[addr + i - 1]]
  BY DEF WholeLoadsExact
<1>1. addr \in Nat /\ bytes \in Nat \ {0}
  BY ByteAssumption, SizeAssumption
<1>2. Stored(addr, 0, bytes) = [i \in 1 .. bytes |-> memory[addr + i - 1]]
  BY <1>1 DEF Stored
<1>3. CASE ~test_taint(addr, bytes)
  <2>1. ASSUME NEW i \in 1 .. bytes PROVE memory[addr + i - 1] = Concrete
    <3>1. i - 1 \in 0 .. bytes - 1 /\ addr + (i - 1) = addr + i - 1
      BY <1>1
    <3>2. addr + i - 1 \in Range_(addr, bytes)
      BY <3>1 DEF Range_
    <3> QED
      BY <1>3, <3>2 DEF test_taint
  <2> QED
    BY <1>3, <2>1 DEF Load
<1>4. CASE test_taint(addr, bytes)
  <2>1. PICK f : /\ \A o \in Nat : f[o] = MeltStep(f, addr, bytes, o)
                 /\ melt(addr, bytes) = f[0].parts
    BY MeltIsTable
  <2>2. f[0].parts = Stored(addr, 0, bytes)
    <3>1. CASE \E b \in Range_(addr, bytes) \cap DOMAIN shadow :
                 shadow_info[shadow[b]].bytes >= bytes
      BY <2>1, <3>1, MeltWholeValue
    <3>2. CASE \A b \in Range_(addr, bytes) \cap DOMAIN shadow :
                 ~(shadow_info[shadow[b]].bytes >= bytes)
      <4>1. \A b \in Range_(addr, bytes) \cap DOMAIN shadow :
              shadow_info[shadow[b]].bytes < bytes
        BY <1>1, <3>2, InfoOf
      <4>2. Boundary(addr, 0, bytes)
        <5> SUFFICES ASSUME addr \in DOMAIN shadow
                     PROVE  shadow_info[shadow[addr]].origin = addr
          BY <1>1 DEF Boundary
        <5> DEFINE meta == shadow_info[shadow[addr]]
        <5>1. meta.origin \in Nat /\ meta.bytes \in Nat \ {0}
          BY InfoOf
        <5>2. addr \in Range_(addr, bytes)
          BY <1>1 DEF Range_
        <5>3. Range_(meta.origin, meta.bytes) \subseteq Range_(addr, bytes)
          BY <4>1, <5>2 DEF Whole
        <5>4. addr \in Range_(meta.origin, meta.bytes)
          BY DEF LabelInRange
        <5> HIDE DEF meta
        <5>5. meta.origin \in Range_(meta.origin, meta.bytes) /\ meta.origin <= addr
          BY <1>1, <5>1, <5>4 DEF Range_
        <5>6. meta.origin >= addr
          BY <1>1, <5>3, <5>5 DEF Range_
        <5>7. meta.origin = addr
          BY <1>1, <5>1, <5>5, <5>6
        <5> QED
          BY <5>7 DEF meta
      <4>3. f[0] = [all |-> FALSE, parts |-> Stored(addr, 0, bytes)]
        <5>1. 0 \in 0 .. bytes
          BY <1>1
        <5> QED
          BY <2>1, <4>1, <4>2, <5>1, MeltFromBoundary
      <4> QED
        BY <4>3
    <3> QED
      BY <3>1, <3>2
  <2> QED
    BY <1>2, <1>4, <2>1, <2>2 DEF Load
<1> QED
  BY <1>3, <1>4

\* A load of memory whose abstract values are whole returns what the program
\* stored there, for any sizes of values and loads: melt puts values side by
\* side, in the order of their addresses, fills in the concrete bytes between
\* them and cuts a value that is longer than the load.
THEOREM WholeLoadsExactAlways == Spec => []WholeLoadsExact
BY InRangeInit, InRangeStep, ShadowTypeInit, ShadowTypeStep, ShadowAgreesAlways,
   LoadsAgree, PTL DEF Spec

=============================================================================
