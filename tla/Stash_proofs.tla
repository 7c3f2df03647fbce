---------------------------- MODULE Stash_proofs ----------------------------
(***************************************************************************)
(* Proofs about Stash, for any programs, any size of the stacks that fits  *)
(* the arguments of one call, and any depth of calls.                      *)
(***************************************************************************)
EXTENDS Stash, SequenceTheorems, TLAPS

-----------------------------------------------------------------------------
(***************************************************************************)
(* The rings.                                                              *)
(***************************************************************************)

\* Slots are numbers.
LEMMA SlotFacts ==
  /\ 0 \in Slot
  /\ \A i \in Slot : i % StackSize = i
  /\ StackSize % StackSize = 0
  /\ \A k \in 1 .. StackSize : (0 - k) % StackSize = StackSize - k
  /\ \A i \in Int : i % StackSize \in Slot
BY StackSizeAssumption DEF Slot

\* A top that moves stays in the ring.
LEMMA MovedType == ASSUME NEW top \in Slot, NEW n \in Int PROVE Moved(top, n) \in Slot
BY SlotFacts, StackSizeAssumption DEF Moved, Slot

\* A top moved from the start of the ring, and back.
LEMMA MovedFacts ==
  /\ \A n \in Slot : Moved(0, n) = n
  /\ Moved(0, StackSize) = 0
  /\ \A k \in 1 .. StackSize : Moved(0, -k) = StackSize - k
  /\ \A n \in Slot : \A k \in 0 .. n : Moved(n, -k) = n - k
<1>1. \A n \in Slot : Moved(0, n) = n
  <2> SUFFICES ASSUME NEW n \in Slot PROVE Moved(0, n) = n
    OBVIOUS
  <2>1. 0 + n = n
    BY StackSizeAssumption DEF Slot
  <2> QED
    BY <2>1, SlotFacts DEF Moved
<1>2. Moved(0, StackSize) = 0
  <2>1. 0 + StackSize = StackSize
    BY StackSizeAssumption
  <2> QED
    BY <2>1, SlotFacts DEF Moved
<1>3. \A k \in 1 .. StackSize : Moved(0, -k) = StackSize - k
  <2> SUFFICES ASSUME NEW k \in 1 .. StackSize PROVE Moved(0, -k) = StackSize - k
    OBVIOUS
  <2>1. 0 + -k = 0 - k
    BY StackSizeAssumption
  <2> QED
    BY <2>1, SlotFacts DEF Moved
<1>4. \A n \in Slot : \A k \in 0 .. n : Moved(n, -k) = n - k
  <2> SUFFICES ASSUME NEW n \in Slot, NEW k \in 0 .. n PROVE Moved(n, -k) = n - k
    OBVIOUS
  <2>1. n + -k = n - k /\ n - k \in Slot
    BY StackSizeAssumption DEF Slot
  <2> QED
    BY <2>1, SlotFacts DEF Moved
<1> QED
  BY <1>1, <1>2, <1>3, <1>4

\* A push and a pop lead back, and pushes from the start count up.
LEMMA PushPop ==
  /\ \A t \in Slot : Moved(Moved(t, 1), -1) = t
  /\ \A v \in 1 .. StackSize : Moved(Moved(0, v - 1), 1) = Moved(0, v)
  /\ \A v \in 1 .. StackSize : Moved(Moved(0, v), -1) = v - 1
<1>1. ASSUME NEW t \in Slot, t + 1 \in Slot PROVE Moved(t, 1) = t + 1
  BY <1>1, SlotFacts DEF Moved
<1>2. ASSUME NEW t \in Slot, t + 1 \notin Slot PROVE t + 1 = StackSize /\ Moved(t, 1) = 0
  <2>1. t + 1 = StackSize
    BY <1>2, StackSizeAssumption DEF Slot
  <2> QED
    BY <2>1, SlotFacts DEF Moved
<1>3. 1 \in 1 .. StackSize /\ Moved(0, -1) = StackSize - 1
  BY MovedFacts, StackSizeAssumption
<1>4. ASSUME NEW t \in Slot PROVE Moved(Moved(t, 1), -1) = t
  <2>1. CASE t + 1 \in Slot
    <3>1. 1 \in 0 .. t + 1 /\ (t + 1) - 1 = t
      BY StackSizeAssumption DEF Slot
    <3> QED
      BY <1>1, <2>1, <3>1, MovedFacts
  <2>2. CASE t + 1 \notin Slot
    <3>1. StackSize - 1 = t
      BY <1>2, <2>2 DEF Slot
    <3> QED
      BY <1>2, <1>3, <2>2, <3>1
  <2> QED
    BY <2>1, <2>2
<1>5. ASSUME NEW v \in 1 .. StackSize
      PROVE  /\ v - 1 \in Slot /\ Moved(0, v - 1) = v - 1
             /\ Moved(0, v) = Moved(v - 1, 1)
  <2>1. v - 1 \in Slot /\ 0 + v = (v - 1) + 1
    BY StackSizeAssumption DEF Slot
  <2> QED
    BY <2>1, MovedFacts DEF Moved
<1> QED
  BY <1>4, <1>5

\* A pop and a push lead back as well.
LEMMA PopPush == \A t \in Slot : Moved(Moved(t, -1), 1) = t
<1>1. ASSUME NEW t \in Slot, t # 0 PROVE Moved(Moved(t, -1), 1) = t
  <2>1. 1 \in 0 .. t /\ t - 1 \in Slot /\ (t - 1) + 1 = t
    BY <1>1, StackSizeAssumption DEF Slot
  <2>2. Moved(t, -1) = t - 1
    BY <2>1, MovedFacts
  <2> QED
    BY <2>1, <2>2, SlotFacts DEF Moved
<1>2. Moved(Moved(0, -1), 1) = 0
  <2>1. 1 \in 1 .. StackSize /\ StackSize - 1 + 1 = StackSize
    BY StackSizeAssumption
  <2>2. Moved(0, -1) = StackSize - 1
    BY <2>1, MovedFacts
  <2> QED
    BY <2>1, <2>2, SlotFacts DEF Moved
<1> QED
  BY <1>1, <1>2

-----------------------------------------------------------------------------
(***************************************************************************)
(* What is inserted.                                                       *)
(***************************************************************************)

\* A transfer has two runtime calls for each value that is stashed and two for
\* each that is fetched.
LEMMA InsertedFacts ==
  ASSUME NEW n \in Nat
  PROVE  /\ Stashes(n) \in Seq(RuntimeCall) /\ Len(Stashes(n)) = 2 * n
         /\ Unstashes(n) \in Seq(RuntimeCall) /\ Len(Unstashes(n)) = 2 * n
         /\ \A k \in 1 .. 2 * n :
              /\ Stashes(n)[k] = [op |-> Half(k, "stash", "stash_taint"), at |-> Place(k)]
              /\ Unstashes(n)[k] =
                   [op |-> Half(k, "unstash", "unstash_taint"), at |-> n + 1 - Place(k)]
              /\ Place(k) \in 1 .. n /\ n + 1 - Place(k) \in 1 .. n
<1>1. \A k \in 1 .. 2 * n : Place(k) \in 1 .. n /\ n + 1 - Place(k) \in 1 .. n
  BY DEF Place
<1>2. \A k \in 1 .. 2 * n :
        /\ [op |-> Half(k, "stash", "stash_taint"), at |-> Place(k)] \in RuntimeCall
        /\ [op |-> Half(k, "unstash", "unstash_taint"), at |-> n + 1 - Place(k)] \in RuntimeCall
  BY <1>1 DEF RuntimeCall, Half
<1>3. 2 * n \in Nat
  OBVIOUS
<1>4. \A k \in 1 .. 2 * n :
        /\ Stashes(n)[k] = [op |-> Half(k, "stash", "stash_taint"), at |-> Place(k)]
        /\ Unstashes(n)[k] =
             [op |-> Half(k, "unstash", "unstash_taint"), at |-> n + 1 - Place(k)]
  BY DEF Stashes, Unstashes
<1>5. /\ Stashes(n) \in [1 .. 2 * n -> RuntimeCall]
      /\ Unstashes(n) \in [1 .. 2 * n -> RuntimeCall]
  BY <1>2 DEF Stashes, Unstashes
<1>6. /\ Stashes(n) \in Seq(RuntimeCall) /\ Len(Stashes(n)) = 2 * n
      /\ Unstashes(n) \in Seq(RuntimeCall) /\ Len(Unstashes(n)) = 2 * n
  BY <1>3, <1>5
<1> QED
  BY <1>1, <1>4, <1>6

-----------------------------------------------------------------------------
(***************************************************************************)
(* Types.                                                                  *)
(***************************************************************************)

\* What a site gives is a pair of a value and a taint.
LEMMA GivenType == ASSUME NEW kind, NEW pair \in Given(kind) PROVE pair \in Pair
<1>1. Concrete \in Pair
  BY DEF Concrete, Pair
<1>2. ASSUME NEW x \in [taint : {TRUE}, value : Value] PROVE x \in Pair
  <2>1. PICK v \in Value : x = [taint |-> TRUE, value |-> v]
    OBVIOUS
  <2> QED
    BY <2>1 DEF Pair
<1> QED
  BY <1>1, <1>2 DEF Given

\* What programs consist of.
LEMMA ProgramFacts ==
  ASSUME StashTypeOK
  PROVE  /\ \A site \in prog.sites :
              /\ site \in Site
              /\ site.actual \in Seq(Kind)
              /\ Len(site.actual) \in 0 .. StackSize
         /\ \A f \in Function : prog.returns[f] \subseteq Kind
<1>1. prog \in [sites : SUBSET Site, returns : [Function -> SUBSET Kind]]
  BY ProgramsAssumption DEF StashTypeOK, Program
<1>2. \A site \in prog.sites : Len(site.actual) <= StackSize
  BY ArityAssumption DEF StashTypeOK
<1> QED
  BY <1>1, <1>2, StackSizeAssumption DEF Site

\* Arguments are pairs.
LEMMA ArgumentsType ==
  ASSUME StashTypeOK, NEW site \in prog.sites, NEW pairs \in Arguments(site)
  PROVE  /\ pairs \in Seq(Pair)
         /\ Len(pairs) = Len(site.actual)
<1>1. site.actual \in Seq(Kind)
  BY ProgramFacts
<1>2. DOMAIN site.actual = 1 .. Len(site.actual) /\ Len(site.actual) \in Nat
  BY <1>1
<1>3. pairs \in [1 .. Len(site.actual) -> Pair]
  BY <1>2 DEF Arguments
<1> QED
  BY <1>2, <1>3

\* A sequence without its last element.
LEMMA ShorterType ==
  ASSUME NEW S, NEW s \in Seq(S), Len(s) > 1
  PROVE  SubSeq(s, 1, Len(s) - 1) \in Seq(S) /\ SubSeq(s, 1, Len(s) - 1) # << >>
<1>1. Len(s) - 1 \in Int /\ 1 \in Int /\ 1 <= Len(s) - 1
  OBVIOUS
<1>2. \A i \in 1 .. Len(s) - 1 : s[i] \in S
  OBVIOUS
<1>3. /\ SubSeq(s, 1, Len(s) - 1) \in Seq(S)
      /\ Len(SubSeq(s, 1, Len(s) - 1)) = (Len(s) - 1) - 1 + 1
  BY <1>1, <1>2, SubSeqProperties
<1>4. \A n \in Int : 1 <= n => n - 1 + 1 # 0
  OBVIOUS
<1>5. Len(SubSeq(s, 1, Len(s) - 1)) # 0
  BY ONLY <1>1, <1>3, <1>4
<1>6. \A t : Len(t) # 0 => t # << >>
  OBVIOUS
<1> QED
  BY ONLY <1>3, <1>5, <1>6

\* The runtime calls come in pairs: one about a value, of a transfer of n
\* values if it stashes, and one about the taint of the same value.
Coupled(s, n) ==
  \A k \in DOMAIN s :
    k % 2 = 1 =>
      /\ k + 1 \in DOMAIN s
      /\ \/ s[k].op = "stash" /\ s[k].at \in 1 .. n
            /\ s[k + 1] = [op |-> "stash_taint", at |-> s[k].at]
         \/ s[k].op = "unstash"
            /\ s[k + 1] = [op |-> "unstash_taint", at |-> s[k].at]

\* So do those the compiler inserts.
LEMMA InsertedCoupled ==
  ASSUME NEW n \in Nat
  PROVE  Coupled(Stashes(n), n) /\ Coupled(Unstashes(n), n)
<1> USE InsertedFacts
<1>1. DOMAIN Stashes(n) = 1 .. 2 * n /\ DOMAIN Unstashes(n) = 1 .. 2 * n
  BY DEF Stashes, Unstashes
<1>2. ASSUME NEW k \in 1 .. 2 * n, k % 2 = 1
      PROVE  k + 1 \in 1 .. 2 * n /\ (k + 1) % 2 # 1 /\ Place(k + 1) = Place(k)
  BY <1>2 DEF Place
<1>3. Coupled(Stashes(n), n)
  <2> SUFFICES ASSUME NEW k \in 1 .. 2 * n, k % 2 = 1
               PROVE  /\ k + 1 \in 1 .. 2 * n
                      /\ Stashes(n)[k].op = "stash" /\ Stashes(n)[k].at \in 1 .. n
                      /\ Stashes(n)[k + 1] = [op |-> "stash_taint", at |-> Stashes(n)[k].at]
    BY <1>1 DEF Coupled
  <2>1. k + 1 \in 1 .. 2 * n /\ (k + 1) % 2 # 1 /\ Place(k + 1) = Place(k)
    BY <1>2
  <2>2. /\ Stashes(n)[k] = [op |-> "stash", at |-> Place(k)]
        /\ Stashes(n)[k + 1] = [op |-> "stash_taint", at |-> Place(k)]
    BY <2>1 DEF Half
  <2>3. Place(k) \in 1 .. n
    BY InsertedFacts
  <2> QED
    BY <2>1, <2>2, <2>3
<1>4. Coupled(Unstashes(n), n)
  <2> SUFFICES ASSUME NEW k \in 1 .. 2 * n, k % 2 = 1
               PROVE  /\ k + 1 \in 1 .. 2 * n
                      /\ Unstashes(n)[k].op = "unstash"
                      /\ Unstashes(n)[k + 1] =
                           [op |-> "unstash_taint", at |-> Unstashes(n)[k].at]
    BY <1>1 DEF Coupled
  <2>1. k + 1 \in 1 .. 2 * n /\ (k + 1) % 2 # 1 /\ Place(k + 1) = Place(k)
    BY <1>2
  <2>2. /\ Unstashes(n)[k] = [op |-> "unstash", at |-> n + 1 - Place(k)]
        /\ Unstashes(n)[k + 1] = [op |-> "unstash_taint", at |-> n + 1 - Place(k)]
    BY <2>1 DEF Half
  <2> QED
    BY <2>1, <2>2
<1> QED
  BY <1>3, <1>4

\* Pairs behind pairs are pairs.
LEMMA CoupledJoined ==
  ASSUME NEW n \in Nat, NEW s \in Seq(RuntimeCall), NEW t \in Seq(RuntimeCall),
         Coupled(s, n), Coupled(t, n)
  PROVE  Coupled(s \o t, n)
<1> DEFINE u == s \o t
<1>1. /\ u \in Seq(RuntimeCall) /\ Len(u) = Len(s) + Len(t)
      /\ \A k \in 1 .. Len(s) : u[k] = s[k]
      /\ \A k \in Len(s) + 1 .. Len(s) + Len(t) : u[k] = t[k - Len(s)]
  OBVIOUS
<1>2. DOMAIN s = 1 .. Len(s) /\ DOMAIN t = 1 .. Len(t) /\ DOMAIN u = 1 .. Len(u)
      /\ Len(s) \in Nat /\ Len(t) \in Nat
  BY <1>1
<1>3. Len(s) % 2 = 0
  <2> SUFFICES ASSUME Len(s) % 2 = 1 PROVE FALSE
    BY <1>2
  <2>1. Len(s) \in DOMAIN s /\ Len(s) + 1 \notin DOMAIN s
    BY <1>2
  <2> QED
    BY <2>1 DEF Coupled
<1> HIDE DEF u
<1> SUFFICES ASSUME NEW k \in DOMAIN u, k % 2 = 1
             PROVE  /\ k + 1 \in DOMAIN u
                    /\ \/ u[k].op = "stash" /\ u[k].at \in 1 .. n
                          /\ u[k + 1] = [op |-> "stash_taint", at |-> u[k].at]
                       \/ u[k].op = "unstash"
                          /\ u[k + 1] = [op |-> "unstash_taint", at |-> u[k].at]
  BY DEF Coupled, u
<1>4. CASE k \in DOMAIN s
  <2>1. k + 1 \in DOMAIN s
    BY <1>4 DEF Coupled
  <2>2. u[k] = s[k] /\ u[k + 1] = s[k + 1] /\ k + 1 \in DOMAIN u
    BY <1>1, <1>2, <1>4, <2>1
  <2> QED
    BY <1>4, <2>2 DEF Coupled
<1>5. CASE k \notin DOMAIN s
  <2> DEFINE j == k - Len(s)
  <2>0. k \in Len(s) + 1 .. Len(s) + Len(t) /\ k \in Nat
    BY <1>1, <1>2, <1>5
  <2>1. j \in DOMAIN t /\ j % 2 = 1 /\ u[k] = t[j]
    <3>1. j \in 1 .. Len(t) /\ j % 2 = 1
      BY <1>2, <1>3, <2>0
    <3> QED
      BY <1>1, <1>2, <2>0, <3>1
  <2>2. j + 1 \in DOMAIN t
    BY <2>1 DEF Coupled
  <2>3. u[k + 1] = t[j + 1] /\ k + 1 \in DOMAIN u
    BY <1>1, <1>2, <1>5, <2>2
  <2> QED
    BY <2>1, <2>3 DEF Coupled
<1> QED
  BY <1>4, <1>5

\* What may be inserted for n values: nothing, or one of the two.
LEMMA IfFacts ==
  ASSUME NEW n \in Nat, NEW condition, NEW inserted \in {Stashes(n), Unstashes(n)}
  PROVE  /\ If(condition, inserted) \in Seq(RuntimeCall)
         /\ Coupled(If(condition, inserted), n)
<1>1. << >> \in Seq(RuntimeCall) /\ Coupled(<< >>, n)
  BY DEF Coupled
<1> QED
  BY <1>1, InsertedFacts, InsertedCoupled DEF If

\* Stashes find what they are to push.
TypeInv == StashTypeOK /\ Coupled(steps, Len(sent)) /\ (Running => pc % 2 = 0)

\* The call in turn is the first of a pair, or the second.
LEMMA TurnFacts ==
  ASSUME TypeInv, NEW op, NEW at, Turn(op, at)
  PROVE  /\ pc \in Nat /\ pc + 1 \in DOMAIN steps /\ pc' = pc + 1
         /\ DOMAIN sent = 1 .. Len(sent)
         /\ sent' = sent /\ steps' = steps
         /\ pc % 2 = 0 =>
              /\ pc' % 2 = 1 /\ ~Running' /\ op \in {"stash", "unstash"}
              /\ op = "stash" => at \in DOMAIN sent
         /\ pc % 2 = 1 =>
              /\ pc' % 2 = 0 /\ pc \in DOMAIN steps
              /\ steps[pc].at = at
              /\ \/ steps[pc].op = "stash" /\ op = "stash_taint" /\ at \in DOMAIN sent
                 \/ steps[pc].op = "unstash" /\ op = "unstash_taint"
<1>1. /\ pc \in Nat /\ Len(steps) \in Nat /\ DOMAIN steps = 1 .. Len(steps)
      /\ DOMAIN sent = 1 .. Len(sent) /\ pc < Len(steps) /\ pc' = pc + 1
      /\ sent' = sent /\ steps' = steps /\ steps[pc + 1] = [op |-> op, at |-> at]
  BY DEF TypeInv, StashTypeOK, Turn
<1>2. pc + 1 \in DOMAIN steps
  BY <1>1
<1>3. ASSUME pc % 2 = 0
      PROVE  /\ pc' % 2 = 1 /\ ~Running' /\ op \in {"stash", "unstash"}
             /\ op = "stash" => at \in DOMAIN sent
  <2>1. (pc + 1) % 2 = 1
    BY <1>1, <1>3
  <2>2. /\ pc + 2 \in DOMAIN steps
        /\ \/ op = "stash" /\ at \in 1 .. Len(sent)
           \/ op = "unstash"
    <3>1. /\ pc + 1 + 1 \in DOMAIN steps
          /\ \/ steps[pc + 1].op = "stash" /\ steps[pc + 1].at \in 1 .. Len(sent)
             \/ steps[pc + 1].op = "unstash"
      BY <1>2, <2>1 DEF TypeInv, Coupled
    <3>2. steps[pc + 1].op = op /\ steps[pc + 1].at = at
      BY <1>1
    <3>3. pc + 1 + 1 = pc + 2
      BY <1>1
    <3> QED
      BY <3>1, <3>2, <3>3
  <2>3. pc' # Len(steps')
    <3>1. pc + 2 <= Len(steps)
      BY <1>1, <2>2
    <3>2. \A a, b \in Nat : a + 2 <= b => a + 1 # b
      OBVIOUS
    <3>3. pc' = pc + 1 /\ steps' = steps /\ pc \in Nat /\ Len(steps) \in Nat
      BY <1>1
    <3> QED
      BY ONLY <3>1, <3>2, <3>3
  <2> QED
    BY <1>1, <2>1, <2>2, <2>3 DEF Running
<1>4. ASSUME pc % 2 = 1
      PROVE  /\ pc' % 2 = 0 /\ pc \in DOMAIN steps
             /\ steps[pc].at = at
             /\ \/ steps[pc].op = "stash" /\ op = "stash_taint" /\ at \in DOMAIN sent
                \/ steps[pc].op = "unstash" /\ op = "unstash_taint"
  <2>1. pc' % 2 = 0 /\ pc \in DOMAIN steps
    BY <1>1, <1>4
  <2>2. \/ steps[pc].op = "stash" /\ steps[pc].at \in 1 .. Len(sent)
           /\ steps[pc + 1] = [op |-> "stash_taint", at |-> steps[pc].at]
        \/ steps[pc].op = "unstash"
           /\ steps[pc + 1] = [op |-> "unstash_taint", at |-> steps[pc].at]
    BY <1>4, <2>1 DEF TypeInv, Coupled
  <2> QED
    BY <1>1, <2>1, <2>2
<1> QED
  BY <1>1, <1>2, <1>3, <1>4

\* A transfer that begins well: its calls are pairs, and n positions wait.
LEMMA TransferFacts ==
  ASSUME TypeInv, NEW inserted \in Seq(RuntimeCall), NEW n \in Nat, Transfer(inserted, n),
         sent' \in Seq(Pair), calls' \in Seq(Function), calls' # << >>,
         Coupled(inserted, Len(sent'))
  PROVE  TypeInv' /\ pc' = 0
<1>1. Concrete \in Pair
  BY DEF Concrete, Pair
<1>2. got' \in [1 .. n -> Pair]
  BY <1>1 DEF Transfer
<1>3. got' \in Seq(Pair)
  BY <1>2
<1>4. steps' = inserted /\ pc' = 0 /\ pc' \in 0 .. Len(steps') /\ pc' % 2 = 0
  BY DEF Transfer
<1>5. StashTypeOK'
  BY <1>3, <1>4 DEF Transfer, TypeInv, StashTypeOK, stacks
<1> QED
  BY <1>4, <1>5 DEF TypeInv

\* Every call and return begins such a transfer.
LEMMA BeginFacts ==
  ASSUME TypeInv
  PROVE  /\ \A site \in prog.sites : Call(site) \/ CallIntrinsic(site) => TypeInv' /\ pc' = 0
         /\ \A kind \in Kind : Return(kind) => TypeInv' /\ pc' = 0
         /\ \A v \in Value : AnyValue(v) => TypeInv' /\ pc' = 0
         /\ Divide => TypeInv' /\ pc' = 0
<1> StashTypeOK
  BY DEF TypeInv
<1>1. ASSUME NEW site \in prog.sites, Call(site) PROVE TypeInv' /\ pc' = 0
  <2> DEFINE n == Len(site.actual)
             s == If(has_abstract_arg(site), Stashes(n))
             t == If(function_has_abstract_arg(site.callee), Unstashes(n))
  <2>1. n \in Nat
    BY ProgramFacts
  <2>2. sent' \in Seq(Pair) /\ Len(sent') = n
    BY <1>1, ArgumentsType DEF Call
  <2>3. /\ s \in Seq(RuntimeCall) /\ Coupled(s, n)
        /\ t \in Seq(RuntimeCall) /\ Coupled(t, n)
    BY <2>1, IfFacts
  <2>4. s \o t \in Seq(RuntimeCall) /\ Coupled(s \o t, n)
    BY <2>1, <2>3, CoupledJoined
  <2>5. calls' \in Seq(Function) /\ calls' # << >>
    BY <1>1 DEF Call, StashTypeOK
  <2>6. Transfer(s \o t, n)
    BY <1>1 DEF Call
  <2> QED
    BY <2>1, <2>2, <2>4, <2>5, <2>6, TransferFacts
<1>2. ASSUME NEW site \in prog.sites, CallIntrinsic(site) PROVE TypeInv' /\ pc' = 0
  <2> DEFINE n == Len(site.actual)
  <2>1. n \in Nat
    BY ProgramFacts
  <2>2. sent' \in Seq(Pair) /\ Len(sent') = n
    BY <1>2, ArgumentsType DEF CallIntrinsic
  <2>3. Stashes(n) \in Seq(RuntimeCall) /\ Coupled(Stashes(n), n)
    BY <2>1, InsertedFacts, InsertedCoupled
  <2>4. calls' \in Seq(Function) /\ calls' # << >> /\ Transfer(Stashes(n), 0)
    BY <1>2 DEF CallIntrinsic, StashTypeOK
  <2> QED
    BY <2>2, <2>3, <2>4, TransferFacts
<1>3. ASSUME NEW kind \in Kind, Return(kind) PROVE TypeInv' /\ pc' = 0
  <2> DEFINE n == IF abstract_result(Current) THEN 1 ELSE 0
             s == If(kind = "abs", Stashes(1))
  <2>1. /\ \E pair \in Given(kind) : sent' = [i \in 1 .. n |-> pair]
        /\ Transfer(s \o Unstashes(n), n)
    BY <1>3 DEF Return
  <2>2. n \in Nat /\ n \in {0, 1}
    OBVIOUS
  <2>3. kind = "abs" => n = 1
    BY <1>3 DEF Return, abstract_result
  <2> HIDE DEF n
  <2>4. sent' \in Seq(Pair) /\ Len(sent') = n
    <3>1. PICK pair \in Pair : sent' = [i \in 1 .. n |-> pair]
      BY <2>1, GivenType
    <3>2. sent' \in [1 .. n -> Pair]
      BY <3>1
    <3> QED
      BY <2>2, <3>2
  <2>5. s \in Seq(RuntimeCall) /\ Coupled(s, n)
    <3>1. CASE kind = "abs"
      BY <2>3, <3>1, IfFacts
    <3>2. CASE kind # "abs"
      BY <3>2 DEF If, Coupled
    <3> QED
      BY <3>1, <3>2
  <2>6. Unstashes(n) \in Seq(RuntimeCall) /\ Coupled(Unstashes(n), n)
    BY <2>2, InsertedFacts, InsertedCoupled
  <2> HIDE DEF s
  <2>7. s \o Unstashes(n) \in Seq(RuntimeCall) /\ Coupled(s \o Unstashes(n), n)
    BY <2>2, <2>5, <2>6, CoupledJoined
  <2>8. calls' \in Seq(Function) /\ calls' # << >>
    BY <1>3, ShorterType DEF Return, StashTypeOK
  <2> QED
    BY <2>1, <2>2, <2>4, <2>7, <2>8, TransferFacts
<1>4. ASSUME sent' \in Seq(Pair), Len(sent') = 1, UNCHANGED calls,
             Transfer(Stashes(1) \o Unstashes(1), 1)
      PROVE  TypeInv' /\ pc' = 0
  <2>1. Stashes(1) \in Seq(RuntimeCall) /\ Unstashes(1) \in Seq(RuntimeCall)
    BY InsertedFacts
  <2>2. Stashes(1) \o Unstashes(1) \in Seq(RuntimeCall)
        /\ Coupled(Stashes(1) \o Unstashes(1), 1)
    BY <2>1, InsertedCoupled, CoupledJoined
  <2>3. calls' \in Seq(Function) /\ calls' # << >>
    BY <1>4 DEF StashTypeOK
  <2> QED
    BY <1>4, <2>2, <2>3, TransferFacts
<1>5. ASSUME NEW v \in Value, AnyValue(v) PROVE TypeInv' /\ pc' = 0
  <2>1. sent' \in Seq(Pair) /\ Len(sent') = 1
    BY <1>5 DEF AnyValue, Pair
  <2> QED
    BY <1>4, <1>5, <2>1 DEF AnyValue
<1>6. ASSUME Divide PROVE TypeInv' /\ pc' = 0
  <2>1. PICK pair \in Given("abs") : sent' = <<pair>>
    BY <1>6 DEF Divide
  <2>2. sent' \in Seq(Pair) /\ Len(sent') = 1
    BY <2>1, GivenType
  <2> QED
    BY <1>4, <1>6, <2>2 DEF Divide
<1> QED
  BY <1>1, <1>2, <1>3, <1>5, <1>6

\* The runtime keeps the types of the stacks and of what arrives.
LEMMA RuntimeType ==
  ASSUME TypeInv, NEW at \in 1 .. StackSize,
         Stash(at) \/ StashTaint(at) \/ Unstash(at) \/ UnstashTaint(at)
  PROVE  TypeInv'
<1>1. /\ pc' \in 0 .. Len(steps') /\ steps' = steps /\ sent' = sent
      /\ (Running' => pc' % 2 = 0)
  <2>1. PICK op : Turn(op, at)
    BY DEF Stash, StashTaint, Unstash, UnstashTaint
  <2>2. pc \in Nat /\ Len(steps) \in Nat /\ pc < Len(steps)
    BY <2>1 DEF Turn, TypeInv, StashTypeOK
  <2>3. pc % 2 = 0 \/ pc % 2 = 1
    BY <2>2
  <2> QED
    BY <2>1, <2>2, <2>3, TurnFacts
<1>Q. ASSUME stash_stack' \in [Slot -> Value \cup {Null}], taint_stack' \in [Slot -> BOOLEAN],
             stash_stack_top' \in Slot, taint_stack_top' \in Slot, got' \in Seq(Pair),
             UNCHANGED <<prog, calls>>
      PROVE  TypeInv'
  BY <1>1, <1>Q DEF TypeInv, StashTypeOK
<1>2. /\ Moved(stash_stack_top, 1) \in Slot /\ Moved(stash_stack_top, -1) \in Slot
      /\ Moved(taint_stack_top, 1) \in Slot /\ Moved(taint_stack_top, -1) \in Slot
  BY MovedType DEF TypeInv, StashTypeOK
<1>P. \A x \in Pair : /\ x.value \in Value \cup {Null} /\ x.taint \in BOOLEAN
                      /\ \A v \in Value \cup {Null} : [x EXCEPT !.value = v] \in Pair
                      /\ \A t \in BOOLEAN : [x EXCEPT !.taint = t] \in Pair
  BY DEF Pair
<1>T. /\ sent \in Seq(Pair) /\ got \in Seq(Pair)
      /\ \A i \in DOMAIN sent : sent[i] \in Pair
      /\ \A i \in DOMAIN got : got[i] \in Pair
  BY DEF TypeInv, StashTypeOK
<1>Z. \A n \in Nat : \A s \in [1 .. n -> Pair] : s \in Seq(Pair)
  OBVIOUS
<1>3. \A i \in DOMAIN sent : sent[i].value \in Value \cup {Null} /\ sent[i].taint \in BOOLEAN
  BY <1>P, <1>T
<1>4. ASSUME NEW v \in Value \cup {Null} PROVE [got EXCEPT ![at].value = v] \in Seq(Pair)
  <2>1. [got EXCEPT ![at].value = v]
          = [i \in DOMAIN got |-> IF i = at THEN [got[i] EXCEPT !.value = v] ELSE got[i]]
    OBVIOUS
  <2>2. DOMAIN got = 1 .. Len(got) /\ Len(got) \in Nat
    BY <1>T
  <2>3. [got EXCEPT ![at].value = v] \in [1 .. Len(got) -> Pair]
    BY <1>P, <1>T, <2>1, <2>2
  <2> QED
    BY <1>Z, <2>2, <2>3
<1>5. ASSUME NEW t \in BOOLEAN PROVE [got EXCEPT ![at].taint = t] \in Seq(Pair)
  <2>1. [got EXCEPT ![at].taint = t]
          = [i \in DOMAIN got |-> IF i = at THEN [got[i] EXCEPT !.taint = t] ELSE got[i]]
    OBVIOUS
  <2>2. DOMAIN got = 1 .. Len(got) /\ Len(got) \in Nat
    BY <1>T
  <2>3. [got EXCEPT ![at].taint = t] \in [1 .. Len(got) -> Pair]
    BY <1>P, <1>T, <2>1, <2>2
  <2> QED
    BY <1>Z, <2>2, <2>3
<1>6. CASE Stash(at)
  <2>1. at \in DOMAIN sent /\ UNCHANGED <<prog, calls>>
    <3>1. Turn("stash", at)
      BY <1>6 DEF Stash
    <3>2. pc % 2 = 0 \/ pc % 2 = 1
      BY <3>1, TurnFacts
    <3> QED
      BY <3>1, <3>2, TurnFacts DEF Turn
  <2> QED
    BY <1>2, <1>3, <1>6, <1>Q, <2>1 DEF Stash, TypeInv, StashTypeOK
<1>7. CASE StashTaint(at)
  <2>1. at \in DOMAIN sent /\ UNCHANGED <<prog, calls>>
    <3>1. Turn("stash_taint", at)
      BY <1>7 DEF StashTaint
    <3>2. pc % 2 = 0 \/ pc % 2 = 1
      BY <3>1, TurnFacts
    <3> QED
      BY <3>1, <3>2, TurnFacts DEF Turn
  <2> QED
    BY <1>2, <1>3, <1>7, <1>Q, <2>1 DEF StashTaint, TypeInv, StashTypeOK
<1>8. CASE Unstash(at)
  <2>1. stash_stack[stash_stack_top'] \in Value \cup {Null} /\ UNCHANGED <<prog, calls>>
    BY <1>2, <1>8 DEF Unstash, Turn, TypeInv, StashTypeOK
  <2> QED
    BY <1>2, <1>4, <1>8, <1>Q, <2>1 DEF Unstash, TypeInv, StashTypeOK
<1>9. CASE UnstashTaint(at)
  <2>1. taint_stack[taint_stack_top'] \in BOOLEAN /\ UNCHANGED <<prog, calls>>
    BY <1>2, <1>9 DEF UnstashTaint, Turn, TypeInv, StashTypeOK
  <2> QED
    BY <1>2, <1>5, <1>9, <1>Q, <2>1 DEF UnstashTaint, TypeInv, StashTypeOK
<1> QED
  BY <1>6, <1>7, <1>8, <1>9

\* Every step keeps the types.
LEMMA StashTypeStep == ASSUME TypeInv, [Next]_vars PROVE TypeInv'
<1>1. CASE UNCHANGED vars
  BY <1>1 DEF vars, stacks, TypeInv, StashTypeOK, Running
<1>2. CASE Runtime
  BY <1>2, RuntimeType DEF Runtime
<1> QED
  BY <1>1, <1>2, BeginFacts DEF Next

\* The initial state is well typed.
LEMMA StashTypeInit == ASSUME Init PROVE TypeInv
<1>1. StashTypeOK
  BY MainAssumption, SlotFacts DEF Init, StashTypeOK
<1> QED
  BY <1>1 DEF Init, TypeInv, Coupled

\* They hold in every run.
LEMMA TypeInvariant == Spec => []TypeInv
BY StashTypeInit, StashTypeStep, PTL DEF Spec

\* The tops of both stacks stay indices, and what is handed over is made of
\* values, whatever the calls and returns.
THEOREM StashTypeCorrect == Spec => []StashTypeOK
<1>1. TypeInv => StashTypeOK
  BY DEF TypeInv
<1> QED
  BY <1>1, TypeInvariant, PTL

-----------------------------------------------------------------------------
(***************************************************************************)
(* Values and taints stay together, in every program.                      *)
(***************************************************************************)

\* A tainted pair has a value.
Whole(pair) == pair.taint => pair.value # Null

\* Every slot but those excepted holds a value where it holds a taint.
SlotsWhole(excepted) == \A i \in Slot \ excepted : taint_stack[i] => stash_stack[i] # Null
GotWhole(excepted) == \A i \in DOMAIN got \ excepted : Whole(got[i])

\* Between two pairs of runtime calls both tops agree.  After the first call of
\* a pair one top is ahead, and the slot or the position it is about is open.
Together ==
  /\ \A i \in DOMAIN sent : Whole(sent[i])
  /\ pc % 2 = 0 =>
       stash_stack_top = taint_stack_top /\ SlotsWhole({}) /\ GotWhole({})
  /\ pc % 2 = 1 =>
       LET at == steps[pc].at
       IN  /\ steps[pc].op = "stash" =>
                /\ stash_stack_top = Moved(taint_stack_top, 1)
                /\ stash_stack[taint_stack_top] = sent[at].value
                /\ SlotsWhole({taint_stack_top}) /\ GotWhole({})
           /\ steps[pc].op = "unstash" =>
                /\ taint_stack_top = Moved(stash_stack_top, 1)
                /\ at \in DOMAIN got => got[at].value = stash_stack[stash_stack_top]
                /\ SlotsWhole({}) /\ GotWhole({at})

\* What a call or a return hands over is whole, and so is what waits for it.
LEMMA BeginTogether ==
  ASSUME TypeInv, Together, pc % 2 = 0, pc' = 0, UNCHANGED stacks,
         NEW inserted, NEW n \in Nat, Transfer(inserted, n),
         \A i \in DOMAIN sent' : Whole(sent'[i])
  PROVE  Together'
<1>1. GotWhole({})'
  BY DEF Transfer, GotWhole, Whole, Concrete
<1>2. stash_stack_top' = taint_stack_top' /\ SlotsWhole({})'
  BY DEF Together, stacks, SlotsWhole
<1>3. pc' % 2 = 0
  OBVIOUS
<1> QED
  BY <1>1, <1>2, <1>3 DEF Together

\* All that a program passes is whole.
LEMMA GivenWhole == \A kind : \A pair \in Given(kind) : Whole(pair)
<1>1. Whole(Concrete)
  BY DEF Whole, Concrete
<1>2. \A pair \in [taint : {TRUE}, value : Value] : Whole(pair)
  BY NullAssumption DEF Whole
<1> QED
  BY <1>1, <1>2 DEF Given

\* Every call and return begins with values and taints together.
LEMMA CallsTogether ==
  ASSUME TypeInv, Together,
         \/ \E site \in prog.sites : Call(site) \/ CallIntrinsic(site)
         \/ \E kind \in Kind : Return(kind)
         \/ \E v \in Value : AnyValue(v)
         \/ Divide
  PROVE  Together'
<1>1. Running /\ pc % 2 = 0
  BY DEF Call, CallIntrinsic, Return, AnyValue, Divide, TypeInv
<1>Q. ASSUME NEW inserted, NEW n \in Nat, Transfer(inserted, n),
             \A i \in DOMAIN sent' : Whole(sent'[i])
      PROVE  Together'
  BY <1>1, <1>Q, BeginTogether DEF Transfer
<1>2. ASSUME NEW site \in prog.sites, sent' \in Arguments(site)
      PROVE  /\ Len(site.actual) \in Nat
             /\ \A i \in DOMAIN sent' : Whole(sent'[i])
  <2>1. Len(site.actual) \in Nat
    BY ProgramFacts DEF TypeInv
  <2>2. \A i \in DOMAIN sent' : sent'[i] \in Given(site.actual[i])
    BY <1>2 DEF Arguments
  <2> QED
    BY <2>1, <2>2, GivenWhole
<1>3. ASSUME NEW site \in prog.sites, Call(site) \/ CallIntrinsic(site) PROVE Together'
  <2>1. sent' \in Arguments(site) /\ \E inserted, n : n \in {0, Len(site.actual)} /\ Transfer(inserted, n)
    BY <1>3 DEF Call, CallIntrinsic
  <2> QED
    BY <1>2, <1>Q, <2>1
<1>4. ASSUME NEW kind \in Kind, Return(kind) PROVE Together'
  <2> DEFINE n == IF abstract_result(Current) THEN 1 ELSE 0
  <2>1. /\ \E pair \in Given(kind) : sent' = [i \in 1 .. n |-> pair]
        /\ Transfer(If(kind = "abs", Stashes(1)) \o Unstashes(n), n)
    BY <1>4 DEF Return
  <2>2. n \in Nat
    OBVIOUS
  <2> HIDE DEF n
  <2>3. \A i \in DOMAIN sent' : Whole(sent'[i])
    BY <2>1, GivenWhole
  <2> QED
    BY <1>Q, <2>1, <2>2, <2>3
<1>5. ASSUME NEW v \in Value, AnyValue(v) PROVE Together'
  <2>1. \A i \in DOMAIN sent' : Whole(sent'[i])
    BY <1>5, NullAssumption DEF AnyValue, Whole
  <2> QED
    BY <1>5, <1>Q, <2>1 DEF AnyValue
<1>6. CASE Divide
  <2>1. \A i \in DOMAIN sent' : Whole(sent'[i])
    BY <1>6, GivenWhole DEF Divide
  <2> QED
    BY <1>6, <1>Q, <2>1 DEF Divide
<1> QED
  BY <1>3, <1>4, <1>5, <1>6

\* A pair of runtime calls is about one slot of both rings.
LEMMA RuntimeTogether ==
  ASSUME TypeInv, Together, NEW at \in 1 .. StackSize,
         Stash(at) \/ StashTaint(at) \/ Unstash(at) \/ UnstashTaint(at)
  PROVE  Together'
<1>P. pc % 2 = 0 \/ pc % 2 = 1
  BY DEF TypeInv, StashTypeOK
<1>T. /\ stash_stack_top \in Slot /\ taint_stack_top \in Slot
      /\ DOMAIN stash_stack = Slot /\ DOMAIN taint_stack = Slot
      /\ sent \in Seq(Pair) /\ got \in Seq(Pair)
  BY DEF TypeInv, StashTypeOK
<1>R. \A x \in Pair : \A v, t : /\ [x EXCEPT !.value = v].taint = x.taint
                                /\ [x EXCEPT !.value = v].value = v
                                /\ [x EXCEPT !.taint = t].taint = t
                                /\ [x EXCEPT !.taint = t].value = x.value
  BY DEF Pair
<1>1. CASE Stash(at)
  <2>1. /\ Turn("stash", at) /\ UNCHANGED <<got, taint_stack, taint_stack_top, sent>>
        /\ stash_stack' = [stash_stack EXCEPT ![stash_stack_top] = sent[at].value]
        /\ stash_stack_top' = Moved(stash_stack_top, 1)
    BY <1>1 DEF Stash, Turn
  <2>2. pc % 2 = 0 /\ pc' % 2 = 1 /\ pc' = pc + 1 /\ steps' = steps
    BY <1>P, <2>1, TurnFacts
  <2>3. steps'[pc'] = [op |-> "stash", at |-> at]
    BY <2>1, <2>2 DEF Turn
  <2>4. stash_stack_top = taint_stack_top /\ SlotsWhole({}) /\ GotWhole({})
    BY <2>2 DEF Together
  <2>5. stash_stack'[taint_stack_top'] = sent'[at].value
    BY <1>T, <2>1, <2>4
  <2>6. SlotsWhole({taint_stack_top})'
    BY <1>T, <2>1, <2>4 DEF SlotsWhole
  <2>7. GotWhole({})'
    BY <2>1, <2>4 DEF GotWhole
  <2>8. \A i \in DOMAIN sent' : Whole(sent'[i])
    BY <2>1 DEF Together
  <2> QED
    BY <2>1, <2>2, <2>3, <2>4, <2>5, <2>6, <2>7, <2>8 DEF Together
<1>2. CASE StashTaint(at)
  <2>1. /\ Turn("stash_taint", at) /\ UNCHANGED <<got, stash_stack, stash_stack_top, sent>>
        /\ taint_stack' = [taint_stack EXCEPT ![taint_stack_top] = sent[at].taint]
        /\ taint_stack_top' = Moved(taint_stack_top, 1)
    BY <1>2 DEF StashTaint, Turn
  <2>2. /\ pc % 2 = 1 /\ pc' % 2 = 0 /\ at \in DOMAIN sent
        /\ steps[pc].op = "stash" /\ steps[pc].at = at
    BY <1>P, <2>1, TurnFacts
  <2>3. /\ stash_stack_top = Moved(taint_stack_top, 1)
        /\ stash_stack[taint_stack_top] = sent[at].value
        /\ SlotsWhole({taint_stack_top}) /\ GotWhole({})
    BY <2>2 DEF Together
  <2>4. Whole(sent[at])
    BY <2>2 DEF Together
  <2>5. SlotsWhole({})'
    BY <1>T, <2>1, <2>3, <2>4 DEF SlotsWhole, Whole
  <2>6. GotWhole({})' /\ \A i \in DOMAIN sent' : Whole(sent'[i])
    BY <2>1, <2>3 DEF GotWhole, Together
  <2> QED
    BY <2>1, <2>2, <2>3, <2>5, <2>6 DEF Together
<1>3. CASE Unstash(at)
  <2>1. /\ Turn("unstash", at) /\ UNCHANGED <<stash_stack, taint_stack, taint_stack_top, sent>>
        /\ stash_stack_top' = Moved(stash_stack_top, -1)
        /\ got' = [got EXCEPT ![at].value = stash_stack[stash_stack_top']]
    BY <1>3 DEF Unstash, Turn
  <2>2. pc % 2 = 0 /\ pc' % 2 = 1 /\ pc' = pc + 1 /\ steps' = steps
    BY <1>P, <2>1, TurnFacts
  <2>3. steps'[pc'] = [op |-> "unstash", at |-> at]
    BY <2>1, <2>2 DEF Turn
  <2>4. stash_stack_top = taint_stack_top /\ SlotsWhole({}) /\ GotWhole({})
    BY <2>2 DEF Together
  <2>5. taint_stack_top' = Moved(stash_stack_top', 1)
    BY <1>T, <2>1, <2>4, PopPush
  <2>6. DOMAIN got' = DOMAIN got
        /\ \A i \in DOMAIN got \ {at} : got'[i] = got[i]
    BY <2>1
  <2>7. at \in DOMAIN got' => got'[at].value = stash_stack'[stash_stack_top']
    <3> SUFFICES ASSUME at \in DOMAIN got PROVE got'[at].value = stash_stack[stash_stack_top']
      BY <2>1, <2>6
    <3>1. got'[at] = [got[at] EXCEPT !.value = stash_stack[stash_stack_top']]
      BY <2>1
    <3>2. got[at] \in Pair
      BY <1>T
    <3> QED
      BY <1>R, <3>1, <3>2
  <2>8. GotWhole({at})' /\ SlotsWhole({})'
    BY <2>1, <2>4, <2>6 DEF GotWhole, SlotsWhole
  <2>9. \A i \in DOMAIN sent' : Whole(sent'[i])
    BY <2>1 DEF Together
  <2> QED
    BY <2>2, <2>3, <2>5, <2>7, <2>8, <2>9 DEF Together
<1>4. CASE UnstashTaint(at)
  <2>1. /\ Turn("unstash_taint", at) /\ UNCHANGED <<stash_stack, taint_stack, stash_stack_top, sent>>
        /\ taint_stack_top' = Moved(taint_stack_top, -1)
        /\ got' = [got EXCEPT ![at].taint = taint_stack[taint_stack_top']]
    BY <1>4 DEF UnstashTaint, Turn
  <2>2. /\ pc % 2 = 1 /\ pc' % 2 = 0
        /\ steps[pc].op = "unstash" /\ steps[pc].at = at
    BY <1>P, <2>1, TurnFacts
  <2>3. /\ taint_stack_top = Moved(stash_stack_top, 1)
        /\ at \in DOMAIN got => got[at].value = stash_stack[stash_stack_top]
        /\ SlotsWhole({}) /\ GotWhole({at})
    BY <2>2 DEF Together
  <2>4. taint_stack_top' = stash_stack_top'
    BY <1>T, <2>1, <2>3, PushPop
  <2>5. DOMAIN got' = DOMAIN got
        /\ \A i \in DOMAIN got \ {at} : got'[i] = got[i]
    BY <2>1
  <2>6. at \in DOMAIN got => Whole(got'[at])
    <3> SUFFICES ASSUME at \in DOMAIN got PROVE Whole(got'[at])
      OBVIOUS
    <3>1. got'[at] = [got[at] EXCEPT !.taint = taint_stack[taint_stack_top']]
      BY <2>1
    <3>2. got[at] \in Pair
      BY <1>T
    <3>3. got'[at].value = stash_stack[stash_stack_top] /\ got'[at].taint = taint_stack[stash_stack_top]
      <4>1. taint_stack[taint_stack_top'] = taint_stack[stash_stack_top]
        BY <2>1, <2>4
      <4>2. got'[at].value = got[at].value /\ got'[at].taint = taint_stack[taint_stack_top']
        BY <1>R, <3>1, <3>2
      <4> QED
        BY <2>3, <4>1, <4>2
    <3> QED
      BY <1>T, <2>3, <3>3 DEF SlotsWhole, Whole
  <2>7. GotWhole({})' /\ SlotsWhole({})'
    BY <2>1, <2>3, <2>5, <2>6 DEF GotWhole, SlotsWhole
  <2>8. \A i \in DOMAIN sent' : Whole(sent'[i])
    BY <2>1 DEF Together
  <2> QED
    BY <2>2, <2>4, <2>7, <2>8 DEF Together
<1> QED
  BY <1>1, <1>2, <1>3, <1>4

\* Values and taints are together in every run.
LEMMA TogetherInvariant == Spec => []Together
<1>1. Init => Together
  BY SlotFacts DEF Init, Together, SlotsWhole, GotWhole
<1>2. TypeInv /\ Together /\ [Next]_vars => Together'
  <2> SUFFICES ASSUME TypeInv, Together, [Next]_vars PROVE Together'
    OBVIOUS
  <2>1. CASE UNCHANGED vars
    BY <2>1 DEF vars, stacks, Together, SlotsWhole, GotWhole
  <2>2. CASE Runtime
    BY <2>2, RuntimeTogether DEF Runtime
  <2> QED
    BY <2>1, <2>2, CallsTogether DEF Next
<1> QED
  BY <1>1, <1>2, TypeInvariant, PTL DEF Spec

\* In any program, whether its stashes and unstashes match or not, and however
\* often the rings wrap: an operand taken for abstract has an abstract value.
THEOREM TaintedHaveValuesAlways == Spec => []TaintedHaveValues
<1>1. TypeInv /\ Together => TaintedHaveValues
  BY DEF TypeInv, Together, GotWhole, Whole, TaintedHaveValues
<1> QED
  BY <1>1, TypeInvariant, TogetherInvariant, PTL

-----------------------------------------------------------------------------
(***************************************************************************)
(* Transfers in matched programs.                                          *)
(***************************************************************************)

\* The runtime calls of a transfer of n values that all arrive.
Both(n) == Stashes(n) \o Unstashes(n)

\* How many values and how many taints are on the stacks after m of them.
Values(m, n) == IF m <= 2 * n THEN (m + 1) \div 2 ELSE 2 * n - ((m + 1) \div 2)
Taints(m, n) == IF m <= 2 * n THEN m \div 2 ELSE 2 * n - (m \div 2)

\* The next call, and what it does to these numbers.
LEMMA BothFacts ==
  ASSUME NEW n \in Nat
  PROVE  /\ Both(n) \in Seq(RuntimeCall) /\ Len(Both(n)) = 4 * n
         /\ \A m \in 0 .. 4 * n : Values(m, n) \in 0 .. n /\ Taints(m, n) \in 0 .. n
         /\ Values(0, n) = 0 /\ Taints(0, n) = 0
         /\ Values(4 * n, n) = 0 /\ Taints(4 * n, n) = 0
         /\ \A m \in 0 .. 4 * n - 1 :
              LET v == Values(m, n)  w == Values(m + 1, n)
                  t == Taints(m, n)  u == Taints(m + 1, n)
                  call == Both(n)[m + 1]
              IN  \/ /\ m < 2 * n /\ call = [op |-> "stash", at |-> v + 1]
                     /\ w = v + 1 /\ v < n /\ u = t
                  \/ /\ m < 2 * n /\ call = [op |-> "stash_taint", at |-> t + 1]
                     /\ w = v /\ u = t + 1 /\ t < n
                  \/ /\ m >= 2 * n /\ call = [op |-> "unstash", at |-> v]
                     /\ w = v - 1 /\ v > 0 /\ u = t
                  \/ /\ m >= 2 * n /\ call = [op |-> "unstash_taint", at |-> t]
                     /\ w = v /\ u = t - 1 /\ t > 0
<1>1. /\ Stashes(n) \in Seq(RuntimeCall) /\ Len(Stashes(n)) = 2 * n
      /\ Unstashes(n) \in Seq(RuntimeCall) /\ Len(Unstashes(n)) = 2 * n
  BY InsertedFacts
<1>2. /\ Both(n) \in Seq(RuntimeCall) /\ Len(Both(n)) = 4 * n
      /\ \A k \in 1 .. 2 * n : Both(n)[k] = Stashes(n)[k]
      /\ \A k \in 2 * n + 1 .. 4 * n : Both(n)[k] = Unstashes(n)[k - 2 * n]
  BY <1>1 DEF Both
<1>3. ASSUME NEW m \in 0 .. 4 * n PROVE Values(m, n) \in 0 .. n /\ Taints(m, n) \in 0 .. n
  BY DEF Values, Taints
<1>4. /\ Values(0, n) = 0 /\ Taints(0, n) = 0
      /\ Values(4 * n, n) = 0 /\ Taints(4 * n, n) = 0
  BY DEF Values, Taints
<1>5. ASSUME NEW m \in 0 .. 4 * n - 1, m < 2 * n, m % 2 = 0
      PROVE  /\ Both(n)[m + 1] = [op |-> "stash", at |-> Values(m, n) + 1]
             /\ Values(m + 1, n) = Values(m, n) + 1 /\ Values(m, n) < n
             /\ Taints(m + 1, n) = Taints(m, n)
  <2>1. m + 1 \in 1 .. 2 * n /\ (m + 1) % 2 = 1
    BY <1>5
  <2>2. /\ Place(m + 1) = Values(m, n) + 1
        /\ Values(m + 1, n) = Values(m, n) + 1 /\ Values(m, n) < n
        /\ Taints(m + 1, n) = Taints(m, n)
    BY <1>5 DEF Place, Values, Taints
  <2>3. Both(n)[m + 1] = [op |-> "stash", at |-> Place(m + 1)]
    BY <1>2, <2>1, InsertedFacts DEF Half
  <2> QED
    BY <2>2, <2>3
<1>6. ASSUME NEW m \in 0 .. 4 * n - 1, m < 2 * n, m % 2 # 0
      PROVE  /\ Both(n)[m + 1] = [op |-> "stash_taint", at |-> Taints(m, n) + 1]
             /\ Taints(m + 1, n) = Taints(m, n) + 1 /\ Taints(m, n) < n
             /\ Values(m + 1, n) = Values(m, n)
  <2>1. m + 1 \in 1 .. 2 * n /\ (m + 1) % 2 # 1
    BY <1>6
  <2>2. /\ Place(m + 1) = Taints(m, n) + 1
        /\ Taints(m + 1, n) = Taints(m, n) + 1 /\ Taints(m, n) < n
        /\ Values(m + 1, n) = Values(m, n)
    BY <1>6 DEF Place, Values, Taints
  <2>3. Both(n)[m + 1] = [op |-> "stash_taint", at |-> Place(m + 1)]
    BY <1>2, <2>1, InsertedFacts DEF Half
  <2> QED
    BY <2>2, <2>3
<1>7. ASSUME NEW m \in 0 .. 4 * n - 1, m >= 2 * n, m % 2 = 0
      PROVE  /\ Both(n)[m + 1] = [op |-> "unstash", at |-> Values(m, n)]
             /\ Values(m + 1, n) = Values(m, n) - 1 /\ Values(m, n) > 0
             /\ Taints(m + 1, n) = Taints(m, n)
  <2> DEFINE k == m + 1 - 2 * n
  <2>1. /\ m + 1 \in 2 * n + 1 .. 4 * n /\ k \in 1 .. 2 * n /\ k % 2 = 1
    BY <1>7
  <2>2. /\ n + 1 - Place(k) = Values(m, n)
        /\ Values(m + 1, n) = Values(m, n) - 1 /\ Values(m, n) > 0
        /\ Taints(m + 1, n) = Taints(m, n)
    BY <1>7 DEF Place, Values, Taints
  <2>3. Both(n)[m + 1] = Unstashes(n)[k]
    BY <1>2, <2>1
  <2> HIDE DEF k
  <2>4. Unstashes(n)[k] = [op |-> "unstash", at |-> n + 1 - Place(k)]
    BY <2>1, InsertedFacts DEF Half
  <2> QED
    BY <2>2, <2>3, <2>4
<1>8. ASSUME NEW m \in 0 .. 4 * n - 1, m >= 2 * n, m % 2 # 0
      PROVE  /\ Both(n)[m + 1] = [op |-> "unstash_taint", at |-> Taints(m, n)]
             /\ Taints(m + 1, n) = Taints(m, n) - 1 /\ Taints(m, n) > 0
             /\ Values(m + 1, n) = Values(m, n)
  <2> DEFINE k == m + 1 - 2 * n
  <2>1. /\ m + 1 \in 2 * n + 1 .. 4 * n /\ k \in 1 .. 2 * n /\ k % 2 # 1
    BY <1>8
  <2>2. /\ n + 1 - Place(k) = Taints(m, n)
        /\ Taints(m + 1, n) = Taints(m, n) - 1 /\ Taints(m, n) > 0
        /\ Values(m + 1, n) = Values(m, n)
    BY <1>8 DEF Place, Values, Taints
  <2>3. Both(n)[m + 1] = Unstashes(n)[k]
    BY <1>2, <2>1
  <2> HIDE DEF k
  <2>4. Unstashes(n)[k] = [op |-> "unstash_taint", at |-> n + 1 - Place(k)]
    BY <2>1, InsertedFacts DEF Half
  <2> QED
    BY <2>2, <2>3, <2>4
<1>9. \A m \in 0 .. 4 * n - 1 : m < 2 * n \/ m >= 2 * n
  OBVIOUS
<1> QED
  BY <1>2, <1>3, <1>4, <1>5, <1>6, <1>7, <1>8, <1>9

\* Nothing is to be handed over by the stacks, and they are at their start.
Idle ==
  /\ steps = << >> /\ pc = 0
  /\ stash_stack_top = 0 /\ taint_stack_top = 0
  /\ Len(got) = Len(sent)
  /\ \A i \in DOMAIN got : Same(got[i], sent[i])

\* Values are handed over: as many of them are on each stack as were pushed and
\* not yet popped, from its start, and those popped have arrived.
Handing ==
  LET n == Len(sent)
  IN  /\ steps = Both(n) /\ pc \in 0 .. 4 * n /\ Len(got) = n /\ n <= StackSize
      /\ stash_stack_top = Moved(0, Values(pc, n))
      /\ taint_stack_top = Moved(0, Taints(pc, n))
      /\ \A i \in 1 .. n :
           /\ pc >= 2 * n \/ i <= Values(pc, n) => stash_stack[i - 1] = sent[i].value
           /\ pc >= 2 * n \/ i <= Taints(pc, n) => taint_stack[i - 1] = sent[i].taint
           /\ pc >= 2 * n /\ i > Values(pc, n) => got[i].value = sent[i].value
           /\ pc >= 2 * n /\ i > Taints(pc, n) => got[i].taint = sent[i].taint

\* The invariant of matched programs.
Transit == Matched => Idle \/ Handing

\* Both lie idle, or hold nothing any more, while the function runs.
LEMMA RunningIdle ==
  ASSUME TypeInv, Idle \/ Handing, Running
  PROVE  stash_stack_top = 0 /\ taint_stack_top = 0 /\ Handed
<1>1. CASE Idle
  BY <1>1 DEF Idle, Handed
<1>2. CASE Handing
  <2> DEFINE n == Len(sent)
  <2>1. n \in Nat /\ pc = 4 * n /\ pc >= 2 * n
    <3>1. n \in Nat /\ steps = Both(n) /\ pc = Len(steps)
      BY <1>2 DEF Handing, Running, TypeInv, StashTypeOK
    <3>2. Len(Both(n)) = 4 * n
      BY <3>1, BothFacts
    <3> HIDE DEF n
    <3> QED
      BY <3>1, <3>2
  <2>2. Values(pc, n) = 0 /\ Taints(pc, n) = 0
    BY <2>1, BothFacts
  <2>3. stash_stack_top = 0 /\ taint_stack_top = 0
    <3>1. stash_stack_top = Moved(0, Values(pc, n)) /\ taint_stack_top = Moved(0, Taints(pc, n))
      BY <1>2 DEF Handing
    <3> QED
      BY <2>2, <3>1, MovedFacts, SlotFacts
  <2>4. \A i \in 1 .. n : got[i].value = sent[i].value /\ got[i].taint = sent[i].taint
    BY <1>2, <2>1, <2>2 DEF Handing
  <2>5. DOMAIN got = 1 .. n /\ Len(got) = n
    BY <1>2 DEF Handing, TypeInv, StashTypeOK
  <2> QED
    BY <2>3, <2>4, <2>5 DEF Handed, Same
<1> QED
  BY <1>1, <1>2

\* A transfer that begins at the start of the stacks, with both or without.
LEMMA BeginHanding ==
  ASSUME TypeInv, stash_stack_top = 0, taint_stack_top = 0, NEW n \in 0 .. StackSize,
         Transfer(Both(n), n), Len(sent') = n
  PROVE  Handing'
<1>1. /\ steps' = Both(n) /\ pc' = 0 /\ Len(got') = n
      /\ stash_stack_top' = 0 /\ taint_stack_top' = 0
  BY DEF Transfer, stacks
<1>2. n \in Nat /\ pc' \in 0 .. 4 * n /\ Values(pc', n) = 0 /\ Taints(pc', n) = 0
      /\ n <= StackSize
  BY <1>1, BothFacts, StackSizeAssumption
<1>3. \A i \in 1 .. n : ~(i <= 0) /\ (pc' >= 2 * n => FALSE)
  BY <1>1, <1>2
<1>4. Moved(0, 0) = 0
  BY MovedFacts, SlotFacts
<1> QED
  BY <1>1, <1>2, <1>3, <1>4 DEF Handing

\* A call whose arguments are all concrete.
LEMMA BeginIdle ==
  ASSUME stash_stack_top = 0, taint_stack_top = 0, Transfer(<< >>, Len(sent')),
         sent' \in Seq(Pair), \A i \in DOMAIN sent' : sent'[i] = Concrete
  PROVE  Idle'
<1>1. /\ steps' = << >> /\ pc' = 0 /\ got' = [i \in 1 .. Len(sent') |-> Concrete]
      /\ stash_stack_top' = 0 /\ taint_stack_top' = 0
  BY DEF Transfer, stacks
<1>2. Len(sent') \in Nat /\ DOMAIN sent' = 1 .. Len(sent')
  OBVIOUS
<1>3. Len(got') = Len(sent') /\ DOMAIN got' = DOMAIN sent'
  BY <1>1, <1>2
<1> QED
  BY <1>1, <1>3 DEF Idle, Same

\* Every call and return of a matched program begins one of the two.
LEMMA CallsTransit ==
  ASSUME TypeInv, Matched, Idle \/ Handing,
         \/ \E site \in prog.sites : Call(site) \/ CallIntrinsic(site)
         \/ \E kind \in Kind : Return(kind)
         \/ \E v \in Value : AnyValue(v)
         \/ Divide
  PROVE  Idle' \/ Handing'
<1> StashTypeOK
  BY DEF TypeInv
<1>1. stash_stack_top = 0 /\ taint_stack_top = 0
  BY RunningIdle DEF Call, CallIntrinsic, Return, AnyValue, Divide
<1>E. << >> \o << >> = << >> /\ Stashes(0) = << >> /\ Unstashes(0) = << >>
  <2>1. \A s \in Seq(RuntimeCall) : Len(s) = 0 => s = << >>
    OBVIOUS
  <2> QED
    BY <2>1, InsertedFacts
<1>2. ASSUME NEW site \in prog.sites, Call(site) PROVE Idle' \/ Handing'
  <2> DEFINE n == Len(site.actual)
  <2>1. n \in 0 .. StackSize /\ sent' \in Seq(Pair) /\ Len(sent') = n
    BY <1>2, ProgramFacts, ArgumentsType DEF Call
  <2>2. Transfer(If(has_abstract_arg(site), Stashes(n))
                   \o If(function_has_abstract_arg(site.callee), Unstashes(n)), n)
    BY <1>2 DEF Call
  <2>3. function_has_abstract_arg(site.callee) <=> has_abstract_arg(site)
    BY DEF Matched, function_has_abstract_arg
  <2> HIDE DEF n
  <2>4. CASE has_abstract_arg(site)
    <3>1. Transfer(Both(n), n)
      BY <2>2, <2>3, <2>4 DEF If, Both
    <3> QED
      BY <1>1, <2>1, <3>1, BeginHanding
  <2>5. CASE ~has_abstract_arg(site)
    <3>1. Transfer(<< >>, n)
      BY <1>E, <2>2, <2>3, <2>5 DEF If
    <3>2. \A i \in DOMAIN sent' : sent'[i] = Concrete
      <4> SUFFICES ASSUME NEW i \in DOMAIN sent' PROVE sent'[i] = Concrete
        OBVIOUS
      <4>1. site.actual \in Seq(Kind)
        BY ProgramFacts
      <4>2. DOMAIN site.actual = DOMAIN sent'
        BY <2>1, <4>1 DEF n
      <4>3. site.actual[i] # "abs"
        BY <2>5, <4>2 DEF has_abstract_arg
      <4>4. sent'[i] \in Given(site.actual[i])
        BY <1>2, <4>2 DEF Call, Arguments
      <4> QED
        BY <4>3, <4>4 DEF Given
    <3> QED
      BY <1>1, <2>1, <3>1, <3>2, BeginIdle
  <2> QED
    BY <2>4, <2>5
<1>3. ASSUME NEW site \in prog.sites, CallIntrinsic(site) PROVE FALSE
  BY <1>3 DEF CallIntrinsic, Matched
<1>4. ASSUME NEW kind \in Kind, Return(kind) PROVE Idle' \/ Handing'
  <2>1. kind \in prog.returns[Current]
    BY <1>4 DEF Return
  <2>2. Current \in Function
    BY DEF Current, StashTypeOK
  <2>3. abstract_result(Current) <=> kind = "abs"
    BY <2>1, <2>2 DEF Matched, abstract_result
  <2>4. CASE kind = "abs"
    <3>1. PICK pair \in Given(kind) : sent' = [i \in 1 .. 1 |-> pair]
      BY <1>4, <2>3, <2>4 DEF Return
    <3>2. Transfer(Both(1), 1)
      BY <1>4, <2>3, <2>4 DEF Return, If, Both
    <3>3. Len(sent') = 1 /\ 1 \in 0 .. StackSize
      BY <3>1, StackSizeAssumption
    <3> QED
      BY <1>1, <3>2, <3>3, BeginHanding
  <2>5. CASE kind # "abs"
    <3>1. PICK pair \in Given(kind) : sent' = [i \in 1 .. 0 |-> pair]
      BY <1>4, <2>3, <2>5 DEF Return
    <3>2. sent' = << >> /\ Len(sent') = 0 /\ sent' \in Seq(Pair) /\ DOMAIN sent' = {}
      BY <3>1
    <3>3. Transfer(<< >>, 0)
      BY <1>4, <1>E, <2>3, <2>5 DEF Return, If
    <3> QED
      BY <1>1, <3>2, <3>3, BeginIdle
  <2> QED
    BY <2>4, <2>5
<1>5. ASSUME Len(sent') = 1, Transfer(Stashes(1) \o Unstashes(1), 1) PROVE Handing'
  <2>1. 1 \in 0 .. StackSize /\ Transfer(Both(1), 1)
    BY <1>5, StackSizeAssumption DEF Both
  <2> QED
    BY <1>1, <1>5, <2>1, BeginHanding
<1>6. ASSUME NEW v \in Value, AnyValue(v) PROVE Handing'
  BY <1>5, <1>6 DEF AnyValue
<1>7. ASSUME Divide PROVE Handing'
  BY <1>5, <1>7 DEF Divide
<1> QED
  BY <1>2, <1>3, <1>4, <1>6, <1>7

\* Each runtime call moves one of the stacks, and what arrives.
LEMMA RuntimeTransit ==
  ASSUME TypeInv, Handing, NEW at \in 1 .. StackSize,
         Stash(at) \/ StashTaint(at) \/ Unstash(at) \/ UnstashTaint(at)
  PROVE  Handing'
<1> DEFINE n == Len(sent)
           v == Values(pc, n)
           t == Taints(pc, n)
           w == Values(pc + 1, n)
           u == Taints(pc + 1, n)
<1>1. /\ steps = Both(n) /\ pc \in 0 .. 4 * n /\ Len(got) = n /\ n <= StackSize
      /\ stash_stack_top = Moved(0, v) /\ taint_stack_top = Moved(0, t)
      /\ \A i \in 1 .. n :
           /\ pc >= 2 * n \/ i <= v => stash_stack[i - 1] = sent[i].value
           /\ pc >= 2 * n \/ i <= t => taint_stack[i - 1] = sent[i].taint
           /\ pc >= 2 * n /\ i > v => got[i].value = sent[i].value
           /\ pc >= 2 * n /\ i > t => got[i].taint = sent[i].taint
  BY DEF Handing
<1>2. /\ n \in Nat /\ sent \in Seq(Pair) /\ got \in Seq(Pair) /\ DOMAIN got = 1 .. n
      /\ DOMAIN stash_stack = Slot /\ DOMAIN taint_stack = Slot
      /\ \A i \in 1 .. n : got[i] \in Pair
  BY <1>1 DEF TypeInv, StashTypeOK
<1>3. /\ pc < Len(steps) /\ pc' = pc + 1 /\ steps' = steps /\ sent' = sent
      /\ \/ Stash(at) /\ steps[pc + 1] = [op |-> "stash", at |-> at]
         \/ StashTaint(at) /\ steps[pc + 1] = [op |-> "stash_taint", at |-> at]
         \/ Unstash(at) /\ steps[pc + 1] = [op |-> "unstash", at |-> at]
         \/ UnstashTaint(at) /\ steps[pc + 1] = [op |-> "unstash_taint", at |-> at]
  BY DEF Stash, StashTaint, Unstash, UnstashTaint, Turn
<1>4. pc \in 0 .. 4 * n - 1 /\ pc' \in 0 .. 4 * n /\ pc + 1 \in 0 .. 4 * n
  <2>1. Len(steps) = 4 * n
    BY <1>1, <1>2, BothFacts
  <2> HIDE DEF n
  <2> QED
    BY <1>1, <1>2, <1>3, <2>1
<1>5. /\ v \in 0 .. n /\ t \in 0 .. n /\ w \in 0 .. n /\ u \in 0 .. n
      /\ \/ Stash(at) /\ pc < 2 * n /\ at = v + 1 /\ w = v + 1 /\ v < n /\ u = t
         \/ StashTaint(at) /\ pc < 2 * n /\ at = t + 1 /\ w = v /\ u = t + 1 /\ t < n
         \/ Unstash(at) /\ pc >= 2 * n /\ at = v /\ w = v - 1 /\ v > 0 /\ u = t
         \/ UnstashTaint(at) /\ pc >= 2 * n /\ at = t /\ w = v /\ u = t - 1 /\ t > 0
  <2>1. v \in 0 .. n /\ t \in 0 .. n /\ w \in 0 .. n /\ u \in 0 .. n
    <3>1. \A m \in 0 .. 4 * n : Values(m, n) \in 0 .. n /\ Taints(m, n) \in 0 .. n
      BY <1>2, BothFacts
    <3> QED
      BY <1>1, <1>4, <3>1
  <2>2. \/ steps[pc + 1] = [op |-> "stash", at |-> v + 1]
           /\ pc < 2 * n /\ w = v + 1 /\ v < n /\ u = t
        \/ steps[pc + 1] = [op |-> "stash_taint", at |-> t + 1]
           /\ pc < 2 * n /\ w = v /\ u = t + 1 /\ t < n
        \/ steps[pc + 1] = [op |-> "unstash", at |-> v]
           /\ pc >= 2 * n /\ w = v - 1 /\ v > 0 /\ u = t
        \/ steps[pc + 1] = [op |-> "unstash_taint", at |-> t]
           /\ pc >= 2 * n /\ w = v /\ u = t - 1 /\ t > 0
    BY <1>1, <1>2, <1>4, BothFacts
  <2>3. \A a, b : /\ [op |-> "stash", at |-> a] # [op |-> "stash_taint", at |-> b]
                  /\ [op |-> "stash", at |-> a] # [op |-> "unstash", at |-> b]
                  /\ [op |-> "stash", at |-> a] # [op |-> "unstash_taint", at |-> b]
                  /\ [op |-> "stash_taint", at |-> a] # [op |-> "unstash", at |-> b]
                  /\ [op |-> "stash_taint", at |-> a] # [op |-> "unstash_taint", at |-> b]
                  /\ [op |-> "unstash", at |-> a] # [op |-> "unstash_taint", at |-> b]
    OBVIOUS
  <2>4. \A o : \A a, b : [op |-> o, at |-> a] = [op |-> o, at |-> b] => a = b
    OBVIOUS
  <2> HIDE DEF n, v, t, w, u
  <2> QED
    BY <1>3, <2>1, <2>2, <2>3, <2>4
<1>6. pc >= 2 * n => pc' >= 2 * n
  BY <1>2, <1>3, <1>4
<1>7. pc < 2 * n => pc' < 2 * n \/ (pc' >= 2 * n /\ w = n /\ u = n)
  <2> SUFFICES ASSUME pc < 2 * n, pc' >= 2 * n PROVE w = n /\ u = n
    BY <1>2, <1>4
  <2>1. pc + 1 = 2 * n
    BY <1>2, <1>3, <1>4
  <2> QED
    BY <1>2, <2>1 DEF Values, Taints
<1>8. \A i \in 1 .. n : i - 1 \in Slot /\ (i - 1 \in Slot => i \in 1 .. StackSize)
  BY <1>1, <1>2, StackSizeAssumption DEF Slot
<1>R. \A x \in Pair : \A a, b : /\ [x EXCEPT !.value = a].taint = x.taint
                                 /\ [x EXCEPT !.value = a].value = a
                                 /\ [x EXCEPT !.taint = b].taint = b
                                 /\ [x EXCEPT !.taint = b].value = x.value
  BY DEF Pair
<1>Q. ASSUME Len(got') = n,
             stash_stack_top' = Moved(0, w), taint_stack_top' = Moved(0, u),
             \A i \in 1 .. n :
               /\ pc' >= 2 * n \/ i <= w => stash_stack'[i - 1] = sent[i].value
               /\ pc' >= 2 * n \/ i <= u => taint_stack'[i - 1] = sent[i].taint
               /\ pc' >= 2 * n /\ i > w => got'[i].value = sent[i].value
               /\ pc' >= 2 * n /\ i > u => got'[i].taint = sent[i].taint
      PROVE  Handing'
  BY <1>1, <1>3, <1>4, <1>Q DEF Handing
<1> HIDE DEF n, v, t, w, u
<1>9. CASE Stash(at) /\ pc < 2 * n /\ at = v + 1 /\ w = v + 1 /\ v < n /\ u = t
  <2>1. /\ stash_stack' = [stash_stack EXCEPT ![stash_stack_top] = sent[at].value]
        /\ stash_stack_top' = Moved(stash_stack_top, 1)
        /\ UNCHANGED <<got, taint_stack, taint_stack_top>>
    BY <1>9 DEF Stash
  <2>2. v + 1 \in 1 .. n /\ v + 1 \in 1 .. StackSize /\ v \in Slot /\ (v + 1) - 1 = v
    BY <1>1, <1>2, <1>5, <1>9, StackSizeAssumption DEF Slot
  <2>3. stash_stack_top = v /\ stash_stack_top' = Moved(0, w)
    BY <1>1, <1>9, <2>1, <2>2, MovedFacts, PushPop
  <2>4. \A i \in 1 .. n : i <= w => stash_stack'[i - 1] = sent[i].value
    <3> SUFFICES ASSUME NEW i \in 1 .. n, i <= w PROVE stash_stack'[i - 1] = sent[i].value
      OBVIOUS
    <3>1. CASE i = at
      BY <1>2, <1>9, <2>1, <2>2, <2>3, <3>1
    <3>2. CASE i # at
      <4>1. i <= v /\ i - 1 # v
        BY <1>2, <1>5, <1>9, <3>2
      <4> QED
        BY <1>1, <2>1, <2>3, <4>1
    <3> QED
      BY <3>1, <3>2
  <2>5. pc' >= 2 * n => \A i \in 1 .. n : i <= w /\ i <= u /\ ~(i > w) /\ ~(i > u)
    BY <1>2, <1>5, <1>7, <1>9, <1>4
  <2>6. \A i \in 1 .. n : i <= u => taint_stack'[i - 1] = sent[i].taint
    BY <1>1, <1>9, <2>1
  <2>7. Len(got') = n /\ taint_stack_top' = Moved(0, u)
    BY <1>1, <1>9, <2>1
  <2> QED
    BY <1>Q, <2>3, <2>4, <2>5, <2>6, <2>7
<1>10. CASE StashTaint(at) /\ pc < 2 * n /\ at = t + 1 /\ w = v /\ u = t + 1 /\ t < n
  <2>1. /\ taint_stack' = [taint_stack EXCEPT ![taint_stack_top] = sent[at].taint]
        /\ taint_stack_top' = Moved(taint_stack_top, 1)
        /\ UNCHANGED <<got, stash_stack, stash_stack_top>>
    BY <1>10 DEF StashTaint
  <2>2. t + 1 \in 1 .. n /\ t + 1 \in 1 .. StackSize /\ t \in Slot /\ (t + 1) - 1 = t
    BY <1>1, <1>2, <1>5, <1>10, StackSizeAssumption DEF Slot
  <2>3. taint_stack_top = t /\ taint_stack_top' = Moved(0, u)
    BY <1>1, <1>10, <2>1, <2>2, MovedFacts, PushPop
  <2>4. \A i \in 1 .. n : i <= u => taint_stack'[i - 1] = sent[i].taint
    <3> SUFFICES ASSUME NEW i \in 1 .. n, i <= u PROVE taint_stack'[i - 1] = sent[i].taint
      OBVIOUS
    <3>1. CASE i = at
      BY <1>2, <1>10, <2>1, <2>2, <2>3, <3>1
    <3>2. CASE i # at
      <4>1. i <= t /\ i - 1 # t
        BY <1>2, <1>5, <1>10, <3>2
      <4> QED
        BY <1>1, <2>1, <2>3, <4>1
    <3> QED
      BY <3>1, <3>2
  <2>5. pc' >= 2 * n => \A i \in 1 .. n : i <= w /\ i <= u /\ ~(i > w) /\ ~(i > u)
    BY <1>2, <1>5, <1>7, <1>10, <1>4
  <2>6. \A i \in 1 .. n : i <= w => stash_stack'[i - 1] = sent[i].value
    BY <1>1, <1>10, <2>1
  <2>7. Len(got') = n /\ stash_stack_top' = Moved(0, w)
    BY <1>1, <1>10, <2>1
  <2> QED
    BY <1>Q, <2>3, <2>4, <2>5, <2>6, <2>7
<1>11. CASE Unstash(at) /\ pc >= 2 * n /\ at = v /\ w = v - 1 /\ v > 0 /\ u = t
  <2>1. /\ stash_stack_top' = Moved(stash_stack_top, -1)
        /\ got' = [got EXCEPT ![at].value = stash_stack[stash_stack_top']]
        /\ UNCHANGED <<stash_stack, taint_stack, taint_stack_top>>
    BY <1>11 DEF Unstash
  <2>2. v \in 1 .. n /\ v \in 1 .. StackSize /\ w \in Slot
    BY <1>1, <1>2, <1>5, <1>11, StackSizeAssumption DEF Slot
  <2>3. stash_stack_top' = w /\ stash_stack_top' = Moved(0, w)
    BY <1>1, <1>11, <2>1, <2>2, MovedFacts, PushPop
  <2>4. /\ DOMAIN got' = DOMAIN got /\ \A i \in 1 .. n \ {at} : got'[i] = got[i]
        /\ got'[at] = [got[at] EXCEPT !.value = stash_stack[v - 1]]
    BY <1>2, <1>11, <2>1, <2>2, <2>3
  <2>5. got'[at].value = sent[at].value /\ got'[at].taint = got[at].taint
    BY <1>1, <1>2, <1>11, <1>R, <2>2, <2>4
  <2>6. \A i \in 1 .. n : i > w => i = at \/ i > v
    BY <1>2, <1>5, <1>11
  <2>7. \A i \in 1 .. n : i > w => got'[i].value = sent[i].value
    BY <1>1, <1>11, <2>4, <2>5, <2>6
  <2>8. \A i \in 1 .. n : got'[i].taint = got[i].taint
    BY <2>4, <2>5
  <2>9. Len(got') = n
    BY <1>1, <1>2, <2>1
  <2> QED
    BY <1>1, <1>11, <1>Q, <2>1, <2>3, <2>7, <2>8, <2>9
<1>12. CASE UnstashTaint(at) /\ pc >= 2 * n /\ at = t /\ w = v /\ u = t - 1 /\ t > 0
  <2>1. /\ taint_stack_top' = Moved(taint_stack_top, -1)
        /\ got' = [got EXCEPT ![at].taint = taint_stack[taint_stack_top']]
        /\ UNCHANGED <<stash_stack, taint_stack, stash_stack_top>>
    BY <1>12 DEF UnstashTaint
  <2>2. t \in 1 .. n /\ t \in 1 .. StackSize /\ u \in Slot
    BY <1>1, <1>2, <1>5, <1>12, StackSizeAssumption DEF Slot
  <2>3. taint_stack_top' = u /\ taint_stack_top' = Moved(0, u)
    BY <1>1, <1>12, <2>1, <2>2, MovedFacts, PushPop
  <2>4. /\ DOMAIN got' = DOMAIN got /\ \A i \in 1 .. n \ {at} : got'[i] = got[i]
        /\ got'[at] = [got[at] EXCEPT !.taint = taint_stack[t - 1]]
    BY <1>2, <1>12, <2>1, <2>2, <2>3
  <2>5. got'[at].taint = sent[at].taint /\ got'[at].value = got[at].value
    BY <1>1, <1>2, <1>12, <1>R, <2>2, <2>4
  <2>6. \A i \in 1 .. n : i > u => i = at \/ i > t
    BY <1>2, <1>5, <1>12
  <2>7. \A i \in 1 .. n : i > u => got'[i].taint = sent[i].taint
    BY <1>1, <1>12, <2>4, <2>5, <2>6
  <2>8. \A i \in 1 .. n : got'[i].value = got[i].value
    BY <2>4, <2>5
  <2>9. Len(got') = n
    BY <1>1, <1>2, <2>1
  <2> QED
    BY <1>1, <1>12, <1>Q, <2>1, <2>3, <2>7, <2>8, <2>9
<1> QED
  BY <1>5, <1>9, <1>10, <1>11, <1>12

\* No step changes the program.
LEMMA ProgConstant == ASSUME [Next]_vars PROVE prog' = prog
BY DEF Next, Call, CallIntrinsic, Return, AnyValue, Divide, Transfer, Runtime, Stash,
       StashTaint, Unstash, UnstashTaint, Turn, vars

\* A matched program follows every stash by the unstash it is for.
LEMMA TransitInvariant == Spec => []Transit
<1>1. Init => Transit
  BY DEF Init, Transit, Idle
<1>2. TypeInv /\ Transit /\ [Next]_vars => Transit'
  <2> SUFFICES ASSUME TypeInv, Transit, [Next]_vars, Matched' PROVE Idle' \/ Handing'
    BY DEF Transit
  <2>1. Matched
    BY ProgConstant DEF Matched, function_has_abstract_arg, abstract_result
  <2>2. Idle \/ Handing
    BY <2>1 DEF Transit
  <2>3. CASE UNCHANGED vars
    <3>1. Idle => Idle'
      BY <2>3 DEF vars, stacks, Idle
    <3>2. Handing => Handing'
      BY <2>3 DEF vars, stacks, Handing
    <3> QED
      BY <2>2, <3>1, <3>2
  <2>4. ASSUME NEW at \in 1 .. StackSize,
               Stash(at) \/ StashTaint(at) \/ Unstash(at) \/ UnstashTaint(at)
        PROVE  Handing'
    <3>1. steps # << >> /\ pc < Len(steps)
      BY <2>4 DEF Stash, StashTaint, Unstash, UnstashTaint, Turn, TypeInv, StashTypeOK
    <3>2. ~Idle
      BY <3>1 DEF Idle
    <3> QED
      BY <2>2, <2>4, <3>2, RuntimeTransit
  <2> QED
    BY <2>1, <2>2, <2>3, <2>4, CallsTransit DEF Next, Runtime
<1> QED
  BY <1>1, <1>2, TypeInvariant, PTL DEF Spec

\* In a matched program every abstract argument arrives at its own formal, and
\* every result at its call, for stacks of any size that holds the arguments
\* of one call.
THEOREM ValuesArriveAlways == Spec => []ValuesArrive
<1>1. TypeInv /\ Transit => ValuesArrive
  BY RunningIdle DEF Transit, ValuesArrive, Handed
<1> QED
  BY <1>1, TypeInvariant, TransitInvariant, PTL

\* In a matched program the stacks are empty whenever a function runs its own
\* code: calls of any depth use no more of them than one call does.
THEOREM NothingLeftAlways == Spec => []NothingLeft
<1>1. TypeInv /\ Transit => NothingLeft
  BY RunningIdle DEF Transit, NothingLeft
<1> QED
  BY <1>1, TypeInvariant, TransitInvariant, PTL

=============================================================================
