---------------------------- MODULE ShadowMemory ----------------------------
(***************************************************************************)
(* Abstract values in memory (runtime/native/shadow.cpp, and freeze and    *)
(* melt of lamp/wrapper.hpp).  Next to the concrete memory of the program  *)
(* the runtime keeps a label for every byte that holds a part of an        *)
(* abstract value; a label names the value, where it was stored and how    *)
(* many bytes it takes.  Labels live as long as the function frame that    *)
(* first wrote the byte.                                                   *)
(*                                                                         *)
(* memory is not part of the runtime: it says what the bytes mean, as the  *)
(* program's own stores make them, and is what the labels must agree with. *)
(***************************************************************************)
EXTENDS Integers, Sequences, FiniteSets, Functions

CONSTANTS
  Value,      \* abstract values, as pointers to them
  Null,       \* the null pointer: a concrete value
  Byte,       \* addresses
  Size,       \* the sizes of loads and stores
  Owner,      \* the depth of the frame that a byte is a local of; 1 for globals
  MaxDepth,   \* bounds the depth of the calls
  MaxLabels   \* bounds the number of abstract stores in a run

ASSUME NullAssumption == Null \notin Value
ASSUME ByteAssumption == Byte \subseteq Nat
ASSUME SizeAssumption == Size \subseteq Nat \ {0}
ASSUME OwnerAssumption == Owner \in [Byte -> Nat \ {0}]

\* The i-th byte of value v, or a byte that is concrete.
Part(v, i) == [value |-> v, index |-> i]
Concrete == Part(Null, 0)

Range_(addr, bytes) == {addr + i : i \in 0 .. bytes - 1}

Info == [value : Value, origin : Byte, bytes : Size]

VARIABLES
  shadow,       \* byte -> label, where there is one
  shadow_info,  \* label -> what was stored; labels count from 1
  frames,       \* the bytes to clean when each function returns
  allocated,    \* the bytes some frame will clean
  memory        \* what each byte means to the program

vars == <<shadow, shadow_info, frames, allocated, memory>>

ShadowTypeOK ==
  /\ DOMAIN shadow \subseteq Byte
  /\ \A b \in DOMAIN shadow : shadow[b] \in 1 .. Len(shadow_info)
  /\ shadow_info \in Seq(Info)
  /\ frames \in Seq(SUBSET Byte)
  /\ frames # << >>
  /\ allocated \subseteq Byte
  /\ DOMAIN memory = Byte

\* setup_shadow: the frame of the globals.
Init ==
  /\ shadow = << >>
  /\ shadow_info = << >>
  /\ frames = <<{}>>
  /\ allocated = {}
  /\ memory = [b \in Byte |-> Concrete]

Depth == Len(frames)

\* The objects a running function can reach: locals of live frames.
Object(addr, bytes) ==
  /\ addr % bytes = 0
  /\ Range_(addr, bytes) \subseteq Byte
  /\ \A b \in Range_(addr, bytes) : Owner[b] = Owner[addr] /\ Owner[b] <= Depth

-----------------------------------------------------------------------------
\* __lart_entry_frame.
entry_frame ==
  /\ Depth < MaxDepth
  /\ frames' = Append(frames, {})
  /\ UNCHANGED <<shadow, shadow_info, allocated, memory>>

\* Faulty variant: the bytes stay allocated.
exit_frame_keeping_allocated ==
  /\ Depth > 1
  /\ shadow' = Restrict(shadow, DOMAIN shadow \ frames[Depth])
  /\ frames' = SubSeq(frames, 1, Depth - 1)
  /\ memory' = [b \in Byte |-> IF Owner[b] = Depth THEN Concrete ELSE memory[b]]
  /\ UNCHANGED <<shadow_info, allocated>>

\* __lart_exit_frame.  The locals of the frame are gone with it.
exit_frame ==
  /\ Depth > 1
  /\ shadow' = Restrict(shadow, DOMAIN shadow \ frames[Depth])
  /\ allocated' = allocated \ frames[Depth]
  /\ frames' = SubSeq(frames, 1, Depth - 1)
  /\ memory' = [b \in Byte |-> IF Owner[b] = Depth THEN Concrete ELSE memory[b]]
  /\ UNCHANGED shadow_info

\* Faulty variant: every write is recorded in the current frame.
set_shadow_label_always(label, addr, bytes) ==
  /\ frames' = [frames EXCEPT ![Depth] = @ \cup Range_(addr, bytes)]
  /\ allocated' = allocated \cup Range_(addr, bytes)
  /\ shadow' = [b \in DOMAIN shadow \cup Range_(addr, bytes) |->
                  IF b \in Range_(addr, bytes) THEN label ELSE shadow[b]]

\* Faulty variant: labels count from 0, as an index of shadow_info would.
set_shadow_label_below(label, addr, bytes) ==
  /\ frames' = [frames EXCEPT ![Depth] = @ \cup (Range_(addr, bytes) \ allocated)]
  /\ allocated' = allocated \cup Range_(addr, bytes)
  /\ shadow' = [b \in DOMAIN shadow \cup Range_(addr, bytes) |->
                  IF b \in Range_(addr, bytes) THEN label - 1 ELSE shadow[b]]

\* set_shadow_label: the bytes that are not yet recorded go to the current
\* frame, whoever they belong to.
set_shadow_label(label, addr, bytes) ==
  /\ frames' = [frames EXCEPT ![Depth] = @ \cup (Range_(addr, bytes) \ allocated)]
  /\ allocated' = allocated \cup Range_(addr, bytes)
  /\ shadow' = [b \in DOMAIN shadow \cup Range_(addr, bytes) |->
                  IF b \in Range_(addr, bytes) THEN label ELSE shadow[b]]

\* Faulty variant: the last byte keeps its label.
erase_shadow_short(addr, bytes) ==
  shadow' = Restrict(shadow, DOMAIN shadow \ Range_(addr, bytes - 1))

erase_shadow(addr, bytes) ==
  shadow' = Restrict(shadow, DOMAIN shadow \ Range_(addr, bytes))

\* freeze, through poke: an instrumented store.  The label of an abstract
\* value is new, and none is ever taken back.
Freeze(addr, bytes, v) ==
  /\ Object(addr, bytes)
  /\ IF v # Null
       THEN /\ Len(shadow_info) < MaxLabels
            /\ shadow_info' = Append(shadow_info, [value |-> v, origin |-> addr, bytes |-> bytes])
            /\ set_shadow_label(Len(shadow_info) + 1, addr, bytes)
       ELSE /\ erase_shadow(addr, bytes)
            /\ UNCHANGED <<shadow_info, frames, allocated>>
  /\ memory' = [b \in Byte |->
                  IF b \in Range_(addr, bytes)
                    THEN IF v # Null THEN Part(v, b - addr) ELSE Concrete
                    ELSE memory[b]]

Next ==
  \/ entry_frame
  \/ exit_frame
  \/ \E addr \in Byte, bytes \in Size, v \in Value \cup {Null} : Freeze(addr, bytes, v)

Spec == Init /\ [][Next]_vars

-----------------------------------------------------------------------------
(***************************************************************************)
(* Loads.                                                                  *)
(***************************************************************************)

test_taint(addr, bytes) == Range_(addr, bytes) \cap DOMAIN shadow # {}

Low(v, n) == [i \in 1 .. n |-> Part(v, i - 1)]

\* Faulty variant: each part goes below the parts read before it.
joined_below(part, rest) == rest \o part

\* append_result: a part is concatenated above the parts read before it.
joined(part, rest) == part \o rest

\* melt, over what peek yields: a value of the size that is read is returned
\* as it is, and a larger one truncated, wherever in it the read has come to;
\* smaller ones and concrete bytes are put together.  "all" marks a value
\* that is returned at once, without what was read before it.
melt(addr, bytes) ==
  LET from[offset \in Nat] ==
        IF offset >= bytes THEN [all |-> FALSE, parts |-> << >>]
        ELSE IF addr + offset \in DOMAIN shadow
          THEN LET meta == shadow_info[shadow[addr + offset]]
                   rest == from[offset + meta.bytes]
               IN  IF meta.bytes >= bytes
                     THEN [all |-> TRUE, parts |-> Low(meta.value, bytes)]
                   ELSE IF rest.all THEN rest
                   ELSE [all |-> FALSE,
                         parts |-> joined(Low(meta.value, meta.bytes), rest.parts)]
          ELSE LET rest == from[offset + 1]
               IN  IF rest.all THEN rest
                   ELSE [all |-> FALSE, parts |-> joined(<<Concrete>>, rest.parts)]
  IN  from[0].parts

\* An instrumented load: lart.melt behind its taint test.
Load(addr, bytes) ==
  IF test_taint(addr, bytes) THEN melt(addr, bytes) ELSE [i \in 1 .. bytes |-> Concrete]

-----------------------------------------------------------------------------
(***************************************************************************)
(* Properties.                                                             *)
(***************************************************************************)

\* A byte that will be cleaned is on the list of exactly one live frame, and
\* a byte with a label will be cleaned.
RecordedOnce ==
  /\ \A b \in Byte :
       b \in allocated <=> \E i \in 1 .. Depth : b \in frames[i]
  /\ \A i, j \in 1 .. Depth : i # j => frames[i] \cap frames[j] = {}
  /\ DOMAIN shadow \subseteq allocated

\* A local of a function that has returned has no label, so the next function
\* on that part of the stack finds its locals concrete.
NoStaleTaint == \A b \in DOMAIN shadow : Owner[b] <= Depth

\* The label of a byte says which byte of which value is there, also when a
\* later store overwrote a part of that value.
ShadowAgrees ==
  \A b \in DOMAIN shadow :
    LET meta == shadow_info[shadow[b]]
    IN  memory[b] = Part(meta.value, b - meta.origin)

\* The bytes of a value that are still in place, read from its start: all of
\* them, or the low ones for a shorter read.
Whole(addr, bytes) ==
  \A b \in Range_(addr, bytes) \cap DOMAIN shadow :
    LET meta == shadow_info[shadow[b]]
        start == Range_(meta.origin, IF meta.bytes < bytes THEN meta.bytes ELSE bytes)
    IN  start \subseteq Range_(addr, bytes) /\ \A c \in start : c \in DOMAIN shadow /\ shadow[c] = shadow[b]

\* A load of memory whose abstract values are whole, and whose abstract bytes
\* all kept their labels, returns what the program stored there: values
\* side by side, mixed with concrete bytes, or truncated.
WholeLoadsExact ==
  \A addr \in Byte, bytes \in Size :
    /\ Object(addr, bytes)
    /\ Whole(addr, bytes)
    /\ \A b \in Range_(addr, bytes) \ DOMAIN shadow : memory[b] = Concrete
    => Load(addr, bytes) = [i \in 1 .. bytes |-> memory[addr + i - 1]]

\* What the tests assume of a function that stores through a pointer: the
\* memory of its caller stays abstract after it returned.
TaintSurvives ==
  \A b \in Byte : memory[b] # Concrete => b \in DOMAIN shadow

=============================================================================
