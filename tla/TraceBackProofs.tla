--------------------------- MODULE TraceBackProofs ---------------------------
(***************************************************************************)
(* Proofs about TraceBack for every depth of the array, every set of       *)
(* stacks, every unwinder and every pattern of failures.                   *)
(***************************************************************************)
EXTENDS TraceBack, SequenceTheorems, FiniteSetTheorems, TLAPS

-----------------------------------------------------------------------------
(* Arithmetic                                                              *)

\* The smaller of two numbers.
LEMMA MinLemma ==
  ASSUME NEW a \in Int, NEW b \in Int
  PROVE  Min({a, b}) = IF a <= b THEN a ELSE b
<1>1. ASSUME NEW x \in {a, b}, \A y \in {a, b} : x <= y
      PROVE  x = IF a <= b THEN a ELSE b
  BY <1>1
<1>2. \E x \in {a, b} : \A y \in {a, b} : x <= y
  <2>1. CASE a <= b
    BY <2>1
  <2>2. CASE ~(a <= b)
    BY <2>2
  <2> QED BY <2>1, <2>2
<1> QED BY <1>1, <1>2 DEF Min

\* The predecessor of an address is an address.
LEMMA BeforeType ==
  ASSUME NEW pc \in 0 .. M - 1, NEW n \in 0 .. 8
  PROVE  Before(pc, n) \in 0 .. M - 1
<1>1. M \in Nat /\ M > 16
  BY BoundsAssumption
<1>2. pc + M - n \in Nat
  BY <1>1
<1> QED BY <1>1, <1>2 DEF Before

\* The predecessor of the address of a call is not NULL, nor is that of NULL.
LEMMA BeforeNotNull ==
  ASSUME NEW pc \in 0 .. M - 1, pc # 1
  PROVE  Before(pc, 1) # NULL
<1>1. M \in Nat /\ M > 16
  BY BoundsAssumption
<1>2. CASE pc = 0
  BY <1>1, <1>2 DEF Before, NULL
<1>3. CASE pc # 0
  <2>1. (pc + M - 1) % M = pc - 1
    BY <1>1, <1>3
  <2> QED BY <2>1 DEF Before, NULL
<1> QED BY <1>2, <1>3
-----------------------------------------------------------------------------
(* The inductive invariant                                                 *)

\* What holds at the beginning, in the loop, and when the array is filled.
Progress ==
  /\ phase = "call" => i = 1 /\ at = 0 /\ live /\ count = 0
  /\ phase = "loop" => build # "backtrace" /\ count <= i - 1
  /\ phase = "done" /\ i = 1 => build = "backtrace" \/ arr[1] = NULL
  /\ phase = "done" /\ i # 1 => i > Depth /\ build # "backtrace"
  /\ build # "setjmp" => \A k \in 1 .. Len(stack) : stack[k] # NULL

\* Cursor and frame pointer move one frame per slot, up to the end of the stack.
Position ==
  phase = "loop" /\ live =>
    \/ build = "setjmp" /\ at = i /\ at <= Len(stack)
    \/ build # "setjmp" /\ i - 1 <= Len(stack) /\ at = i - 1
    \/ build # "setjmp" /\ i - 1 > Len(stack) /\ at = Len(stack) + 1

\* A slot filled is NULL, or has its frame of the stack, or its end.
SlotOfStack(k) ==
  OfStack(k) \/ (build = "libunwind" /\ k > Len(stack) /\ arr[k] = End)

Filled ==
  build # "backtrace" =>
    \A k \in Frames : k < i /\ arr[k] # NULL => SlotOfStack(k)

\* Without failures libunwind fills the slots up to the one behind the stack.
Complete ==
  build = "libunwind" /\ ~failed =>
    /\ \A k \in Frames : k < i /\ k <= Len(stack) + 1 => arr[k] # NULL
    /\ ~live => i > Len(stack) + 1
    /\ phase = "done" => i > Depth

IInv == TypeOK /\ Progress /\ Position /\ Filled /\ Complete

-----------------------------------------------------------------------------
\* A stack is not empty, and its frames are addresses; NULL is none of a call.
LEMMA StackLemma ==
  ASSUME TypeOK
  PROVE  /\ Len(stack) \in Nat /\ Len(stack) >= 1
         /\ \A k \in 1 .. Len(stack) : /\ stack[k] \in 0 .. M - 1
                                       /\ stack[k] # 1
<1>1. stack \in Seq(0 .. M - 1) /\ stack # <<>>
  BY StacksAssumption DEF TypeOK
<1>2. \A k \in 1 .. Len(stack) : stack[k] > 16 \/ stack[k] = 0
  BY StacksAssumption DEF TypeOK
<1>3. Len(stack) \in Nat /\ Len(stack) >= 1
  BY <1>1
<1>4. ASSUME NEW k \in 1 .. Len(stack)
      PROVE  stack[k] \in 0 .. M - 1 /\ stack[k] # 1
  <2>1. stack[k] \in 0 .. M - 1
    BY <1>1, ElementOfSeq
  <2> QED BY <2>1, <1>2, BoundsAssumption
<1> QED BY <1>3, <1>4

\* The slots are numbered from 1, and an array has one more than frames.
LEMMA SlotLemma ==
  ASSUME TypeOK, NEW v \in 0 .. M - 1, NEW j \in Frames
  PROVE  /\ [arr EXCEPT ![j] = v] \in [Slots -> 0 .. M - 1]
         /\ [arr EXCEPT ![j] = v][j] = v
         /\ \A k \in Slots : k # j => [arr EXCEPT ![j] = v][k] = arr[k]
BY BoundsAssumption DEF TypeOK, Frames, Slots

\* The initial states.
LEMMA InitIInv == Init => IInv
<1> SUFFICES ASSUME Init PROVE IInv
  OBVIOUS
<1> USE BoundsAssumption DEF Init
<1>1. TypeOK
  <2>1. arr \in [Slots -> 0 .. M - 1]
    BY StaleAssumption DEF Slots, NULL
  <2>2. Len(stack) \in Nat
    BY StacksAssumption
  <2>3. at \in 0 .. Len(stack) + 1 /\ i \in 1 .. Depth + 1 /\ count \in 0 .. Depth
    BY <2>2
  <2>4. failed \in BOOLEAN /\ live \in BOOLEAN /\ phase \in {"call", "loop", "done"}
    BY Zenon
  <2> QED BY <2>1, <2>3, <2>4, Zenon DEF TypeOK
<1>2. Progress
  BY DEF Progress
<1>3. Position /\ Filled
  BY DEF Position, Filled, Frames
<1>4. Complete
  BY DEF Complete, Frames
<1> QED BY <1>1, <1>2, <1>3, <1>4 DEF IInv
-----------------------------------------------------------------------------
(* Each action preserves the invariant                                     *)

\* What an iteration leaves in a slot it fills: an address, and it is NULL, or
\* that of the slot's frame, or the end of the stack behind it.  The iterations
\* of both loops are instances.
LEMMA FillLemma ==
  ASSUME IInv, build # "backtrace", phase = "loop", i <= Depth,
         NEW v \in 0 .. M - 1,
         arr' = [arr EXCEPT ![i] = v], i' = i + 1,
         build' = build, stack' = stack, phase' = phase,
         \/ v = NULL
         \/ i <= Len(stack) /\ v = Before(stack[i], 1)
         \/ build = "libunwind" /\ i > Len(stack) /\ v = End
  PROVE  /\ (arr \in [Slots -> 0 .. M - 1])'
         /\ (i \in 1 .. Depth + 1)'
         /\ i' # 1
         /\ Filled'
         /\ \A k \in Frames : k < i => arr'[k] = arr[k]
         /\ arr'[i] = v
<1> USE BoundsAssumption
<1>1. TypeOK /\ Filled /\ i \in Frames
  BY DEF IInv, TypeOK, Frames
<1>2. /\ arr' \in [Slots -> 0 .. M - 1]
      /\ arr'[i] = v
      /\ \A k \in Slots : k # i => arr'[k] = arr[k]
  BY <1>1, SlotLemma
<1>3. \A k \in Frames : k < i => arr'[k] = arr[k]
  BY <1>2 DEF Frames, Slots
<1>4. i' \in 1 .. Depth + 1 /\ i' # 1
  BY <1>1 DEF Frames
<1>5. ASSUME NEW k \in Frames, k < i', arr'[k] # NULL
      PROVE  SlotOfStack(k)'
  <2>1. CASE k = i
    BY <1>2, <1>5, <2>1 DEF SlotOfStack, OfStack, Back, End
  <2>2. CASE k # i
    <3>1. k < i /\ arr'[k] = arr[k]
      BY <1>1, <1>3, <1>5, <2>2 DEF Frames
    <3>2. SlotOfStack(k)
      BY <1>1, <1>5, <3>1 DEF Filled
    <3> QED BY <3>1, <3>2 DEF SlotOfStack, OfStack, Back, End
  <2> QED BY <2>1, <2>2
<1>6. Filled'
  BY <1>5 DEF Filled
<1> QED BY <1>2, <1>3, <1>4, <1>6

\* libunwind starts, or does not.
LEMMA StartUnwindIInv ==
  ASSUME IInv, StartUnwind
  PROVE  IInv'
<1> USE BoundsAssumption
<1>1. /\ TypeOK /\ phase = "call" /\ build = "libunwind"
      /\ i = 1 /\ at = 0 /\ live /\ count = 0
  BY DEF IInv, Progress, StartUnwind
<1>2. /\ build' = build /\ stack' = stack /\ at' = at /\ live' = live
      /\ i' = i /\ count' = count /\ arr' = [arr EXCEPT ![1] = NULL]
      /\ \/ phase' = "loop" /\ failed' = failed
         \/ phase' = "done" /\ failed' = TRUE
  BY DEF StartUnwind
<1>3. arr' \in [Slots -> 0 .. M - 1] /\ arr'[1] = NULL
  <2>1. NULL \in 0 .. M - 1 /\ 1 \in Frames
    BY DEF NULL, Frames
  <2> QED BY <1>1, <1>2, <2>1, SlotLemma
<1>4. TypeOK'
  <2>1. failed' \in BOOLEAN /\ phase' \in {"call", "loop", "done"}
    BY <1>1, <1>2 DEF TypeOK
  <2> QED BY <1>1, <1>2, <1>3, <2>1 DEF TypeOK
<1>5. Progress'
  BY <1>1, <1>2, <1>3 DEF IInv, Progress
<1>6. Position'
  BY <1>1, <1>2, StackLemma DEF Position
<1>7. Filled'
  BY <1>1, <1>2 DEF Filled, Frames
<1>8. Complete'
  BY <1>1, <1>2 DEF Complete, Frames
<1> QED BY <1>4, <1>5, <1>6, <1>7, <1>8 DEF IInv

\* An iteration of the libunwind loop in which the cursor steps.
LEMMA UnwindFrameIInv ==
  ASSUME IInv, UnwindFrame
  PROVE  IInv'
<1> USE BoundsAssumption
<1> DEFINE pc == IF at + 1 <= Len(stack) THEN stack[at + 1] ELSE NULL
<1>1. /\ TypeOK /\ Progress /\ Position /\ Filled /\ Complete
      /\ build = "libunwind" /\ phase = "loop" /\ i <= Depth /\ live
      /\ build' = build /\ phase' = phase /\ stack' = stack /\ live' = live
      /\ i' = i + 1 /\ count' = count + 1
      /\ at' = Min({at + 1, Len(stack) + 1})
      /\ \/ arr' = [arr EXCEPT ![i] = Before(pc, 1)] /\ failed' = failed
         \/ arr' = [arr EXCEPT ![i] = NULL] /\ failed' = TRUE
  BY DEF IInv, UnwindFrame, Store
<1>2. /\ Len(stack) \in Nat /\ at \in Nat /\ at <= Len(stack) + 1
      /\ i \in Nat /\ i >= 1 /\ count \in Nat /\ count <= i - 1
  BY <1>1, StackLemma DEF TypeOK, Progress
<1>3. pc \in 0 .. M - 1 /\ pc # 1
  <2>1. CASE at + 1 <= Len(stack)
    BY <1>1, <1>2, <2>1, StackLemma
  <2>2. CASE ~(at + 1 <= Len(stack))
    BY <2>2 DEF NULL
  <2> QED BY <2>1, <2>2
<1>4. pc = IF i <= Len(stack) THEN stack[i] ELSE NULL
  BY <1>1, <1>2 DEF Position
<1> HIDE DEF pc
<1>5. PICK v \in 0 .. M - 1 :
        /\ arr' = [arr EXCEPT ![i] = v]
        /\ \/ v = Before(pc, 1) /\ failed' = failed
           \/ v = NULL /\ failed' = TRUE
  <2>1. Before(pc, 1) \in 0 .. M - 1 /\ NULL \in 0 .. M - 1
    BY <1>3, BeforeType DEF NULL
  <2> QED BY <1>1, <2>1
<1>6. \/ v = NULL
      \/ i <= Len(stack) /\ v = Before(stack[i], 1)
      \/ build = "libunwind" /\ i > Len(stack) /\ v = End
  BY <1>1, <1>2, <1>4, <1>5 DEF End
<1>7. /\ arr' \in [Slots -> 0 .. M - 1] /\ i' \in 1 .. Depth + 1 /\ i' # 1
      /\ Filled'
      /\ \A k \in Frames : k < i => arr'[k] = arr[k]
      /\ arr'[i] = v
  BY <1>1, <1>5, <1>6, FillLemma
<1>8. at' = IF at + 1 <= Len(stack) + 1 THEN at + 1 ELSE Len(stack) + 1
  BY <1>1, <1>2, MinLemma
<1>9. TypeOK'
  <2>1. failed' \in BOOLEAN
    BY <1>1 DEF TypeOK
  <2>2. at' \in 0 .. Len(stack) + 1 /\ count' \in 0 .. Depth
    BY <1>1, <1>2, <1>8
  <2> QED BY <1>1, <1>7, <2>1, <2>2 DEF TypeOK
<1>10. Progress'
  BY <1>1, <1>2, <1>7 DEF Progress
<1>11. Position'
  BY <1>1, <1>2, <1>8 DEF Position
<1>12. Complete'
  <2> SUFFICES ASSUME ~failed', NEW k \in Frames, k < i', k <= Len(stack) + 1
               PROVE  arr'[k] # NULL
    BY <1>1 DEF Complete
  <2>1. failed' = failed /\ v = Before(pc, 1)
    BY <1>5
  <2>2. CASE k = i
    BY <1>3, <1>7, <2>1, <2>2, BeforeNotNull
  <2>3. CASE k # i
    <3>1. k < i
      BY <1>1, <1>2, <2>3 DEF Frames
    <3> QED BY <1>1, <1>7, <2>1, <3>1 DEF Complete
  <2> QED BY <2>2, <2>3
<1> QED BY <1>7, <1>9, <1>10, <1>11, <1>12 DEF IInv
\* An iteration of the libunwind loop in which it does not.
LEMMA UnwindFailsIInv ==
  ASSUME IInv, UnwindFails
  PROVE  IInv'
<1> USE BoundsAssumption
<1>1. /\ TypeOK /\ Progress /\ Position /\ Filled /\ Complete
      /\ build = "libunwind" /\ phase = "loop" /\ i <= Depth
      /\ build' = build /\ phase' = phase /\ stack' = stack /\ live' = FALSE
      /\ at' = at /\ i' = i + 1 /\ count' = count
      /\ arr' = [arr EXCEPT ![i] = NULL]
      /\ failed' = (failed \/ (live /\ at <= Len(stack)))
  BY DEF IInv, UnwindFails
<1>2. /\ Len(stack) \in Nat /\ at \in Nat /\ at <= Len(stack) + 1
      /\ i \in Nat /\ i >= 1 /\ count \in Nat /\ count <= i - 1
  BY <1>1, StackLemma DEF TypeOK, Progress
<1>3. NULL \in 0 .. M - 1
  BY DEF NULL
<1>4. /\ arr' \in [Slots -> 0 .. M - 1] /\ i' \in 1 .. Depth + 1 /\ i' # 1
      /\ Filled'
      /\ \A k \in Frames : k < i => arr'[k] = arr[k]
      /\ arr'[i] = NULL
  BY <1>1, <1>3, FillLemma
<1>5. TypeOK'
  <2>1. failed' \in BOOLEAN /\ live' \in BOOLEAN
    BY <1>1 DEF TypeOK
  <2> QED BY <1>1, <1>4, <2>1 DEF TypeOK
<1>6. Progress'
  BY <1>1, <1>2, <1>4 DEF Progress
<1>7. Position'
  BY <1>1 DEF Position
<1>8. Complete'
  <2> SUFFICES ASSUME ~failed' PROVE Complete'
    BY DEF Complete
  <2>1. ~failed /\ ~(live /\ at <= Len(stack))
    BY <1>1
  <2>2. i > Len(stack) + 1
    <3>1. CASE live
      BY <1>1, <1>2, <2>1, <3>1 DEF Position
    <3>2. CASE ~live
      BY <1>1, <2>1, <3>2 DEF Complete
    <3> QED BY <3>1, <3>2
  <2>3. ASSUME NEW k \in Frames, k < i', k <= Len(stack) + 1
        PROVE  arr'[k] # NULL
    <3>1. k < i
      BY <1>2, <2>2, <2>3 DEF Frames
    <3> QED BY <1>1, <1>4, <2>1, <2>3, <3>1 DEF Complete
  <2> QED BY <1>1, <1>2, <2>2, <2>3 DEF Complete
<1> QED BY <1>4, <1>5, <1>6, <1>7, <1>8 DEF IInv

\* The walk of the frame pointers begins.
LEMMA StartFpIInv ==
  ASSUME IInv, StartFp
  PROVE  IInv'
<1> USE BoundsAssumption
<1>1. /\ TypeOK /\ Progress /\ build = "setjmp" /\ phase = "call"
      /\ i = 1 /\ count = 0
      /\ build' = build /\ failed' = failed /\ phase' = "loop" /\ stack' = stack
      /\ at' = 1 /\ live' = live /\ i' = i /\ count' = count /\ arr' = arr
  BY DEF IInv, Progress, StartFp
<1>2. Len(stack) \in Nat /\ Len(stack) >= 1
  BY <1>1, StackLemma
<1>3. TypeOK'
  BY <1>1, <1>2 DEF TypeOK
<1>4. Progress' /\ Position'
  BY <1>1, <1>2 DEF Progress, Position
<1>5. Filled' /\ Complete'
  BY <1>1 DEF Filled, Complete, Frames
<1> QED BY <1>3, <1>4, <1>5 DEF IInv

\* An iteration of the frame-pointer loop with a frame.
LEMMA FpFrameIInv ==
  ASSUME IInv, FpFrame
  PROVE  IInv'
<1> USE BoundsAssumption
<1> DEFINE v == IF stack[at] # NULL THEN Before(stack[at], 1) ELSE NULL
           last == stack[at] # NULL /\ at + 1 <= Len(stack)
<1>1. /\ TypeOK /\ Progress /\ Position
      /\ build = "setjmp" /\ phase = "loop" /\ i <= Depth /\ live
      /\ build' = build /\ phase' = phase /\ stack' = stack /\ failed' = failed
      /\ at' = at + 1 /\ i' = i + 1
      /\ count' = IF stack[at] # NULL THEN count + 1 ELSE count
      /\ arr' = [arr EXCEPT ![i] = v]
      /\ live' = last
  BY DEF IInv, FpFrame
<1>2. /\ Len(stack) \in Nat /\ i \in Nat /\ i >= 1
      /\ count \in Nat /\ count <= i - 1
  BY <1>1, StackLemma DEF TypeOK, Progress
<1>3. at = i /\ at <= Len(stack)
  BY <1>1 DEF Position
<1>4. v \in 0 .. M - 1
  <2>1. stack[at] \in 0 .. M - 1 /\ NULL \in 0 .. M - 1
    BY <1>1, <1>2, <1>3, StackLemma DEF NULL
  <2> QED BY <2>1, BeforeType
<1>5. v = NULL \/ (i <= Len(stack) /\ v = Before(stack[i], 1))
  BY <1>3
<1> HIDE DEF v
<1>6. /\ arr' \in [Slots -> 0 .. M - 1] /\ i' \in 1 .. Depth + 1 /\ i' # 1
      /\ Filled'
  BY <1>1, <1>4, <1>5, FillLemma
<1>7. TypeOK'
  <2>1. live' \in BOOLEAN /\ failed' \in BOOLEAN
    BY <1>1 DEF TypeOK
  <2>2. at' \in 0 .. Len(stack) + 1 /\ count' \in 0 .. Depth
    BY <1>1, <1>2, <1>3
  <2> QED BY <1>1, <1>6, <2>1, <2>2 DEF TypeOK
<1>8. Progress'
  BY <1>1, <1>2, <1>6 DEF Progress
<1>9. Position'
  BY <1>1, <1>3 DEF Position
<1>10. Complete'
  BY <1>1 DEF Complete
<1> QED BY <1>6, <1>7, <1>8, <1>9, <1>10 DEF IInv

\* An iteration of the frame-pointer loop without one.
LEMMA FpPadIInv ==
  ASSUME IInv, FpPad
  PROVE  IInv'
<1> USE BoundsAssumption
<1>1. /\ TypeOK /\ Progress
      /\ build = "setjmp" /\ phase = "loop" /\ i <= Depth /\ ~live
      /\ build' = build /\ phase' = phase /\ stack' = stack /\ failed' = failed
      /\ at' = at /\ live' = live /\ i' = i + 1 /\ count' = count
      /\ arr' = [arr EXCEPT ![i] = NULL]
  BY DEF IInv, FpPad
<1>2. /\ i \in Nat /\ i >= 1 /\ count \in Nat /\ count <= i - 1
  BY <1>1 DEF TypeOK, Progress
<1>3. NULL \in 0 .. M - 1
  BY DEF NULL
<1>4. /\ arr' \in [Slots -> 0 .. M - 1] /\ i' \in 1 .. Depth + 1 /\ i' # 1
      /\ Filled'
  BY <1>1, <1>3, FillLemma
<1>5. TypeOK'
  BY <1>1, <1>4 DEF TypeOK
<1>6. Progress'
  BY <1>1, <1>2, <1>4 DEF Progress
<1>7. Position' /\ Complete'
  BY <1>1 DEF Position, Complete
<1> QED BY <1>4, <1>5, <1>6, <1>7 DEF IInv

\* Either loop ends with the array filled.
LEMMA EndLoopIInv ==
  ASSUME IInv, EndLoop
  PROVE  IInv'
<1> USE BoundsAssumption
<1>1. /\ TypeOK /\ Progress /\ Filled /\ Complete
      /\ phase = "loop" /\ i > Depth /\ build # "backtrace"
      /\ build' = build /\ phase' = "done" /\ stack' = stack /\ failed' = failed
      /\ at' = at /\ live' = live /\ i' = i /\ count' = count /\ arr' = arr
  BY DEF IInv, Progress, EndLoop
<1>2. TypeOK'
  BY <1>1 DEF TypeOK
<1>3. Progress' /\ Position'
  BY <1>1 DEF Progress, Position, TypeOK
<1>4. Filled'
  BY <1>1 DEF Filled, SlotOfStack, OfStack, Back, End
<1>5. Complete'
  BY <1>1 DEF Complete
<1> QED BY <1>2, <1>3, <1>4, <1>5 DEF IInv

\* backtrace() fills as many slots as there are frames, and wraps no address
\* beyond those there are.
LEMMA BacktraceIInv ==
  ASSUME IInv, Backtrace
  PROVE  IInv'
<1> USE BoundsAssumption
<1>1. /\ TypeOK /\ Progress /\ build = "backtrace" /\ phase = "call"
      /\ i = 1 /\ count = 0
      /\ build' = build /\ phase' = "done" /\ stack' = stack /\ failed' = failed
      /\ at' = at /\ live' = live /\ i' = i
      /\ \/ count' = count /\ arr' = arr
         \/ count' = All /\ arr' = Shifted(Copied)
  BY DEF IInv, Progress, Backtrace
<1>2. All \in Nat /\ All <= Depth /\ All - 1 <= Len(stack)
  BY <1>1, StackLemma, MinLemma DEF All
<1>3. Copied \in [Slots -> 0 .. M - 1]
  <2> SUFFICES ASSUME NEW k \in Slots
               PROVE  (IF k <= All - 1 THEN stack[k]
                       ELSE IF k = All + 1 THEN NULL ELSE arr[k]) \in 0 .. M - 1
    BY DEF Copied
  <2>1. CASE k <= All - 1
    BY <1>1, <1>2, <2>1, StackLemma DEF Slots
  <2>2. CASE ~(k <= All - 1)
    BY <1>1, <2>2 DEF TypeOK, NULL
  <2> QED BY <2>1, <2>2
<1>4. Shifted(Copied) \in [Slots -> 0 .. M - 1]
  <2> SUFFICES ASSUME NEW a \in [Slots -> 0 .. M - 1]
               PROVE  Shifted(a) \in [Slots -> 0 .. M - 1]
    BY <1>3
  <2>1. \A k \in Slots : Before(a[k], 8) \in 0 .. M - 1
    BY BeforeType
  <2> QED BY <2>1 DEF Shifted
<1>5. TypeOK'
  BY <1>1, <1>2, <1>4 DEF TypeOK
<1>6. Progress' /\ Position' /\ Filled' /\ Complete'
  BY <1>1 DEF Progress, Position, Filled, Complete
<1> QED BY <1>5, <1>6 DEF IInv

\* Every step.
LEMMA NextIInv == IInv /\ [Next]_vars => IInv'
<1> SUFFICES ASSUME IInv, [Next]_vars PROVE IInv'
  OBVIOUS
<1>1. CASE UNCHANGED vars
  BY <1>1 DEF vars, IInv, TypeOK, Progress, Position, Filled, Complete,
              SlotOfStack, OfStack, Back, End
<1>2. CASE Next
  BY <1>2, StartUnwindIInv, UnwindFrameIInv, UnwindFailsIInv, StartFpIInv,
     FpFrameIInv, FpPadIInv, EndLoopIInv, BacktraceIInv DEF Next
<1> QED BY <1>1, <1>2

-----------------------------------------------------------------------------
(* Theorems                                                                *)

\* The inductive invariant holds for every depth, stack, build and failure.
THEOREM Invariance == Spec => []IInv
<1>1. Init => IInv
  BY InitIInv
<1>2. IInv /\ [Next]_vars => IInv'
  BY NextIInv
<1> QED BY <1>1, <1>2, PTL DEF Spec

\* Every variable keeps its type; the loop counter stays within the array and
\* the result within the depth (record_stack.c:70, 189-257).
THEOREM TypeCorrect == Spec => []TypeOK
<1>1. IInv => TypeOK
  BY DEF IInv
<1> QED BY <1>1, Invariance, PTL

\* Neither the libunwind nor the setjmp loop writes the slot behind the array,
\* the first file name of the record (record_stack.c:70-91, 234-257).  Of the
\* backtrace() build it says nothing: that one does (record_stack.c:177).
THEOREM ArrayIsNotOverrun == Spec => InBounds
<1>1. IInv /\ [Next]_vars =>
        [build # "backtrace" => arr'[Depth + 1] = arr[Depth + 1]]_vars
  <2> SUFFICES ASSUME IInv, Next, build # "backtrace"
               PROVE  arr'[Depth + 1] = arr[Depth + 1]
    BY DEF vars
  <2> USE BoundsAssumption
  <2>1. ASSUME NEW j \in Frames, NEW v, arr' = [arr EXCEPT ![j] = v]
        PROVE  arr'[Depth + 1] = arr[Depth + 1]
    BY <2>1 DEF IInv, TypeOK, Frames, Slots
  <2>2. i \in Frames \/ i = Depth + 1
    BY DEF IInv, TypeOK, Frames
  <2>3. 1 \in Frames
    BY DEF Frames
  <2>4. CASE StartUnwind
    BY <2>1, <2>3, <2>4 DEF StartUnwind
  <2>5. CASE UnwindFrame
    BY <2>1, <2>2, <2>5 DEF UnwindFrame, Store
  <2>6. CASE UnwindFails
    BY <2>1, <2>2, <2>6 DEF UnwindFails
  <2>7. CASE FpFrame
    BY <2>1, <2>2, <2>7 DEF FpFrame
  <2>8. CASE FpPad
    BY <2>1, <2>2, <2>8 DEF FpPad
  <2>9. CASE StartFp \/ EndLoop
    BY <2>9 DEF StartFp, EndLoop
  <2>10. ~Backtrace
    BY DEF Backtrace
  <2> QED BY <2>4, <2>5, <2>6, <2>7, <2>8, <2>9, <2>10 DEF Next
<1> QED BY <1>1, Invariance, PTL DEF Spec, InBounds

\* Whatever fails and whatever an earlier callsite left in the array, a caller
\* sees a gapless beginning of the stack and at most its end behind it.
THEOREM OnlyTheStackIsSeen == Spec => []TraceIsOfStack
<1>1. IInv => TraceIsOfStack
  <2> SUFFICES ASSUME IInv, build # "backtrace", phase = "done", NEW k \in Used
               PROVE  SlotOfStack(k)
    BY DEF TraceIsOfStack, OnlyStackIsSeen, SlotOfStack, Done
  <2>1. k \in Frames /\ arr[1] # NULL /\ arr[k] # NULL
    BY BoundsAssumption DEF Used, Frames
  <2>2. i > Depth
    BY <2>1 DEF IInv, Progress
  <2>3. k < i
    BY <2>1, <2>2, BoundsAssumption DEF Frames, IInv, TypeOK
  <2> QED BY <2>1, <2>3 DEF IInv, Filled
<1> QED BY <1>1, Invariance, PTL

\* Once the loop of libunwind or of the frame pointers has begun, it leaves
\* nothing of an earlier callsite anywhere in the array, behind the first NULL
\* included: it pads to the end (record_stack.c:70-91, 234-257).  Of the
\* backtrace() build it says nothing: that one leaves old addresses there
\* (record_stack.c:176-177).
THEOREM NothingIsLeftOver == Spec => []NothingLeftOver
<1>1. IInv => NothingLeftOver
  <2> SUFFICES ASSUME IInv, build # "backtrace", phase = "done", i > 1,
                      NEW k \in Frames, arr[k] # NULL
               PROVE  OfStack(k) \/ arr[k] = End
    BY DEF NothingLeftOver, Done
  <2>1. i > Depth
    BY DEF IInv, Progress
  <2>2. k < i
    BY <2>1, BoundsAssumption DEF Frames, IInv, TypeOK
  <2> QED BY <2>2 DEF IInv, Filled, SlotOfStack
<1> QED BY <1>1, Invariance, PTL

\* If libunwind does not fail, a trace fills the array or has the predecessor of
\* NULL behind the last frame of the stack, so that no deeper stack is recorded
\* as the beginning of it.  How often it has it, two traces of one stack may
\* differ in (record_stack.c:70-91).
THEOREM TracesEndAtTheRoot == Spec => []EndsAtRoot
<1>1. IInv => EndsAtRoot
  <2> SUFFICES ASSUME IInv, phase = "done", build = "libunwind", ~failed,
                      Used # Frames
               PROVE  \E k \in Used : k > Len(stack) /\ arr[k] = End
    BY DEF EndsAtRoot, Done
  <2> DEFINE e == Len(stack) + 1
  <2>1. e \in Nat /\ e > Len(stack) /\ e >= 1
    BY StackLemma DEF IInv
  <2>2. i > Depth
    BY DEF IInv, Complete
  <2>3. \A k \in Frames : k < i
    BY <2>2, BoundsAssumption DEF Frames, IInv, TypeOK
  <2>4. \A k \in Frames : k <= e => arr[k] # NULL
    BY <2>3 DEF IInv, Complete
  <2>5. PICK f \in Frames : arr[f] = NULL
    <3> SUFFICES ASSUME \A f \in Frames : arr[f] # NULL PROVE Used = Frames
      OBVIOUS
    <3> QED BY BoundsAssumption DEF Used, Frames
  <2>6. e < f
    BY <2>1, <2>4, <2>5, BoundsAssumption DEF Frames
  <2>7. e \in Used
    BY <2>1, <2>4, <2>5, <2>6, BoundsAssumption DEF Used, Frames
  <2>8. e \in Frames /\ arr[e] # NULL
    BY <2>4, <2>7, <2>1 DEF Used
  <2>9. SlotOfStack(e)
    BY <2>3, <2>8 DEF IInv, Filled
  <2>10. arr[e] = End
    BY <2>1, <2>9 DEF SlotOfStack, OfStack
  <2> QED BY <2>1, <2>7, <2>10
<1> QED BY <1>1, Invariance, PTL
-----------------------------------------------------------------------------
(* Counting                                                                *)

\* Without failures the result counts the addresses before the first NULL; a
\* walk that has stopped has left no frame out.  What backtrace() recorded is
\* the stack, moved back into the calls.
Counted ==
  /\ build # "backtrace" /\ ~failed =>
       /\ phase = "done" => i > Depth
       /\ \A k \in Frames : k < i => (arr[k] # NULL <=> k <= count)
       /\ live => count = i - 1
       /\ ~live => \A k \in 1 .. Len(stack) : stack[k] # NULL => k <= count
  /\ build = "backtrace" /\ count > 0 =>
       \A k \in 1 .. All - 1 : arr[k] = Before(stack[k], 8)

\* An array of which only the i-th slot is filled, with an address if and only
\* if it is counted.
LEMMA CountLemma ==
  ASSUME IInv, i \in Frames, ~failed, ~failed', build # "backtrace",
         \A k \in Frames : k < i => (arr[k] # NULL <=> k <= count),
         NEW v \in 0 .. M - 1,
         arr' = [arr EXCEPT ![i] = v], i' = i + 1, build' = build,
         count <= i - 1,
         \/ v = NULL /\ count' = count
         \/ v # NULL /\ count = i - 1 /\ count' = i
  PROVE  \A k \in Frames : k < i' => (arr'[k] # NULL <=> k <= count')
<1> USE BoundsAssumption
<1>1. TypeOK /\ i \in Nat /\ count \in Nat
  BY DEF IInv, TypeOK
<1>2. arr'[i] = v /\ \A k \in Slots : k # i => arr'[k] = arr[k]
  BY <1>1, SlotLemma
<1> SUFFICES ASSUME NEW k \in Frames, k < i'
             PROVE  arr'[k] # NULL <=> k <= count'
  OBVIOUS
<1>3. CASE k = i
  BY <1>1, <1>2, <1>3
<1>4. CASE k # i
  <2>1. k < i /\ k \in Slots /\ k \in Nat
    BY <1>1, <1>4 DEF Frames, Slots
  <2>2. arr'[k] = arr[k] /\ (arr[k] # NULL <=> k <= count)
    BY <1>2, <1>4, <2>1
  <2>3. k <= count <=> k <= count'
    BY <1>1, <2>1
  <2> QED BY <2>2, <2>3
<1> QED BY <1>3, <1>4

\* The initial states have counted nothing.
LEMMA InitCounted == Init => Counted
BY BoundsAssumption DEF Init, Counted, Frames

\* The count goes on with the walk: libunwind.
LEMMA UnwindCounted ==
  ASSUME IInv, IInv', Counted, UnwindFrame \/ UnwindFails
  PROVE  Counted'
<1> USE BoundsAssumption
<1> DEFINE pc == IF at + 1 <= Len(stack) THEN stack[at + 1] ELSE NULL
<1>1. /\ TypeOK /\ Progress /\ Position /\ Complete
      /\ build = "libunwind" /\ phase = "loop" /\ i \in Frames
      /\ build' = build /\ phase' = phase /\ stack' = stack /\ i' = i + 1
      /\ count \in Nat /\ i \in Nat /\ count <= i - 1
  BY DEF IInv, TypeOK, Progress, UnwindFrame, UnwindFails, Frames
<1> SUFFICES ASSUME ~failed'
             PROVE  /\ \A k \in Frames : k < i' => (arr'[k] # NULL <=> k <= count')
                    /\ live' => count' = i' - 1
                    /\ ~live' => \A k \in 1 .. Len(stack) : stack[k] # NULL => k <= count'
  BY <1>1 DEF Counted
<1>2. Len(stack) \in Nat /\ at \in Nat
  BY <1>1, StackLemma DEF TypeOK
<1>3. CASE UnwindFrame
  <2>1. /\ live /\ live' = live /\ count' = count + 1 /\ ~failed
        /\ arr' = [arr EXCEPT ![i] = Before(pc, 1)]
    BY <1>1, <1>3 DEF UnwindFrame, Store
  <2>2. pc \in 0 .. M - 1 /\ pc # 1
    <3>1. CASE at + 1 <= Len(stack)
      BY <1>1, <1>2, <3>1, StackLemma
    <3>2. CASE ~(at + 1 <= Len(stack))
      BY <3>2 DEF NULL
    <3> QED BY <3>1, <3>2
  <2> HIDE DEF pc
  <2>3. PICK v \in 0 .. M - 1 : v = Before(pc, 1) /\ v # NULL
    BY <2>2, BeforeType, BeforeNotNull
  <2>4. count = i - 1 /\ \A k \in Frames : k < i => (arr[k] # NULL <=> k <= count)
    BY <1>1, <2>1 DEF Counted
  <2>5. count' = i
    BY <1>1, <2>1, <2>4
  <2>6. \A k \in Frames : k < i' => (arr'[k] # NULL <=> k <= count')
    BY <1>1, <2>1, <2>3, <2>4, <2>5, CountLemma
  <2> QED BY <1>1, <2>1, <2>5, <2>6
<1>4. CASE UnwindFails
  <2>1. /\ ~live' /\ count' = count /\ ~failed /\ ~(live /\ at <= Len(stack))
        /\ arr' = [arr EXCEPT ![i] = NULL]
    BY <1>1, <1>4 DEF UnwindFails
  <2>2. NULL \in 0 .. M - 1
    BY DEF NULL
  <2>3. \A k \in Frames : k < i => (arr[k] # NULL <=> k <= count)
    BY <1>1, <2>1 DEF Counted
  <2>4. \A k \in Frames : k < i' => (arr'[k] # NULL <=> k <= count')
    BY <1>1, <2>1, <2>2, <2>3, CountLemma
  <2>5. \A k \in 1 .. Len(stack) : stack[k] # NULL => k <= count
    <3>1. CASE live
      <4>1. count = i - 1
        BY <1>1, <2>1, <3>1 DEF Counted
      <4>2. i - 1 > Len(stack)
        BY <1>1, <1>2, <2>1, <3>1 DEF Position
      <4> QED BY <1>1, <1>2, <4>1, <4>2
    <3>2. CASE ~live
      BY <1>1, <2>1, <3>2 DEF Counted
    <3> QED BY <3>1, <3>2
  <2> QED BY <2>1, <2>4, <2>5
<1> QED BY <1>3, <1>4

\* The count goes on with the walk: frame pointers.  The frame without a return
\* address is the last one, and is not counted.
LEMMA FpCounted ==
  ASSUME IInv, IInv', Counted, FpFrame \/ FpPad
  PROVE  Counted'
<1> USE BoundsAssumption
<1>1. /\ TypeOK /\ Progress /\ Position
      /\ build = "setjmp" /\ phase = "loop" /\ i \in Frames
      /\ build' = build /\ phase' = phase /\ stack' = stack /\ i' = i + 1
      /\ failed' = failed
      /\ count \in Nat /\ i \in Nat /\ count <= i - 1
  BY DEF IInv, TypeOK, Progress, FpFrame, FpPad, Frames
<1> SUFFICES ASSUME ~failed
             PROVE  /\ \A k \in Frames : k < i' => (arr'[k] # NULL <=> k <= count')
                    /\ live' => count' = i' - 1
                    /\ ~live' => \A k \in 1 .. Len(stack) : stack[k] # NULL => k <= count'
  BY <1>1 DEF Counted
<1>2. Len(stack) \in Nat
  BY <1>1, StackLemma
<1>3. NULL \in 0 .. M - 1
  BY DEF NULL
<1>4. \A k \in Frames : k < i => (arr[k] # NULL <=> k <= count)
  BY <1>1 DEF Counted
<1>5. CASE FpFrame
  <2>1. /\ live /\ at = i /\ i <= Len(stack) /\ count = i - 1
        /\ live' = (stack[i] # NULL /\ i + 1 <= Len(stack))
        /\ count' = IF stack[i] # NULL THEN count + 1 ELSE count
        /\ arr' = [arr EXCEPT ![i] = IF stack[i] # NULL THEN Before(stack[i], 1) ELSE NULL]
    BY <1>1, <1>5 DEF FpFrame, Position, Counted
  <2>2. stack[i] \in 0 .. M - 1 /\ stack[i] # 1
    BY <1>1, <1>2, <2>1, StackLemma
  <2>3. CASE stack[i] # NULL
    <3> DEFINE v == Before(stack[i], 1)
    <3>1. v \in 0 .. M - 1 /\ v # NULL
      <4>1. PICK s : s = stack[i]
        OBVIOUS
      <4>2. Before(s, 1) \in 0 .. M - 1 /\ Before(s, 1) # NULL
        BY <2>2, <4>1, BeforeType, BeforeNotNull
      <4> QED BY <4>1, <4>2
    <3>2. count' = i /\ arr' = [arr EXCEPT ![i] = v]
      BY <1>1, <2>1, <2>3
    <3> HIDE DEF v
    <3>3. \A k \in Frames : k < i' => (arr'[k] # NULL <=> k <= count')
      BY <1>1, <1>4, <2>1, <3>1, <3>2, CountLemma
    <3>4. count' = i' - 1
      BY <1>1, <3>2
    <3>5. ~live' => \A k \in 1 .. Len(stack) : k <= count'
      <4>1. ~live' => ~(i + 1 <= Len(stack))
        BY <2>1, <2>3, Zenon
      <4>2. ~live' => i = Len(stack)
        BY <1>1, <1>2, <2>1, <4>1
      <4> QED BY <1>1, <3>2, <4>2
    <3> QED BY <3>3, <3>4, <3>5
  <2>4. CASE stack[i] = NULL
    <3>1. count' = count /\ arr' = [arr EXCEPT ![i] = NULL] /\ ~live'
      BY <2>1, <2>4
    <3>2. \A k \in Frames : k < i' => (arr'[k] # NULL <=> k <= count')
      BY <1>1, <1>3, <1>4, <3>1, CountLemma
    <3>3. i = Len(stack)
      BY <1>1, <1>2, <2>1, <2>4, StacksAssumption DEF TypeOK, NULL
    <3>4. \A k \in 1 .. Len(stack) : stack[k] # NULL => k <= count'
      BY <1>1, <2>1, <2>4, <3>1, <3>3
    <3> QED BY <3>1, <3>2, <3>4
  <2> QED BY <2>3, <2>4
<1>6. CASE FpPad
  <2>1. ~live /\ live' = live /\ count' = count /\ arr' = [arr EXCEPT ![i] = NULL]
    BY <1>6 DEF FpPad
  <2>2. \A k \in Frames : k < i' => (arr'[k] # NULL <=> k <= count')
    BY <1>1, <1>3, <1>4, <2>1, CountLemma
  <2> QED BY <1>1, <2>1, <2>2 DEF Counted
<1> QED BY <1>5, <1>6

\* backtrace(): every frame that fits but one is there, moved back.
LEMMA BacktraceCounted ==
  ASSUME IInv, Backtrace
  PROVE  Counted'
<1> USE BoundsAssumption
<1>1. /\ TypeOK /\ Progress /\ build = "backtrace" /\ build' = build
      /\ stack' = stack /\ count = 0
      /\ \/ count' = count
         \/ count' = All /\ arr' = Shifted(Copied)
  BY DEF IInv, Progress, Backtrace
<1>2. All \in Nat /\ All <= Depth /\ All - 1 <= Len(stack) /\ Len(stack) \in Nat
  BY <1>1, StackLemma, MinLemma DEF All
<1>3. ASSUME NEW k \in 1 .. All - 1
      PROVE  Shifted(Copied)[k] = Before(stack[k], 8)
  <2>1. \A j \in 1 .. k : j \in Slots /\ j <= All - 1 /\ j \in 1 .. Len(stack)
    BY <1>2 DEF Slots
  <2>2. \A j \in 1 .. k : Copied[j] = stack[j] /\ stack[j] # NULL
    BY <1>1, <2>1 DEF Copied, Progress
  <2>3. k \in 1 .. k /\ k \in Slots
    BY <1>2, <2>1
  <2> QED BY <2>2, <2>3 DEF Shifted
<1>4. All' = All
  BY <1>1 DEF All
<1> QED BY <1>1, <1>3, <1>4 DEF Counted

\* Every step.
LEMMA NextCounted == IInv /\ IInv' /\ Counted /\ [Next]_vars => Counted'
<1> SUFFICES ASSUME IInv, IInv', Counted, [Next]_vars PROVE Counted'
  OBVIOUS
<1> USE BoundsAssumption
<1>1. CASE UNCHANGED vars
  BY <1>1 DEF vars, Counted, All
<1>2. CASE StartUnwind
  <2>1. /\ build = "libunwind" /\ build' = build /\ i = 1 /\ i' = i /\ count = 0
        /\ count' = count /\ live /\ live' = live /\ stack' = stack
        /\ \/ phase' = "loop"
           \/ phase' = "done" /\ failed' = TRUE
    BY <1>2 DEF IInv, Progress, StartUnwind
  <2> QED BY <2>1 DEF Counted, Frames
<1>3. CASE StartFp
  <2>1. /\ build = "setjmp" /\ build' = build /\ i = 1 /\ i' = i /\ count = 0
        /\ count' = count /\ live /\ live' = live /\ stack' = stack
        /\ phase' = "loop"
    BY <1>3 DEF IInv, Progress, StartFp
  <2> QED BY <2>1 DEF Counted, Frames
<1>4. CASE EndLoop
  BY <1>4 DEF Counted, EndLoop, IInv, Progress
<1>5. CASE UnwindFrame \/ UnwindFails
  BY <1>5, UnwindCounted
<1>6. CASE FpFrame \/ FpPad
  BY <1>6, FpCounted
<1>7. CASE Backtrace
  BY <1>7, BacktraceCounted
<1> QED BY <1>1, <1>2, <1>3, <1>4, <1>5, <1>6, <1>7 DEF Next

\* Counting is an invariant too.
LEMMA CountedAlways == Spec => [](IInv /\ Counted)
<1>1. Init => Counted
  BY InitCounted
<1>2. IInv /\ IInv' /\ Counted /\ [Next]_vars => Counted'
  BY NextCounted
<1> QED BY <1>1, <1>2, Invariance, PTL DEF Spec

\* If libunwind does not fail, or the frame pointers are walked (of backtrace()
\* it says nothing, which returns one more, record_stack.c:184), the result is
\* the number of addresses a caller sees before the first NULL, and these are
\* all frames of the stack or as many as fit (record_stack.c:57-94, 224-259).
THEOREM ResultIsFrameCount == Spec => []CountIsFrames
<1>1. IInv /\ Counted => CountIsFrames
  <2> SUFFICES ASSUME IInv, Counted, phase = "done", build # "backtrace", ~failed
               PROVE  /\ Used = 1 .. count
                      /\ count >= Min({Depth, Cardinality({k \in 1 .. Len(stack) : stack[k] # NULL})})
    BY DEF CountIsFrames, Done
  <2> USE BoundsAssumption
  <2> DEFINE Returns == {k \in 1 .. Len(stack) : stack[k] # NULL}
  <2>1. count \in 0 .. Depth /\ i \in Nat /\ i > Depth /\ Len(stack) \in Nat
    BY StackLemma DEF IInv, TypeOK, Counted
  <2>2. \A k \in Frames : arr[k] # NULL <=> k <= count
    BY <2>1 DEF Counted, Frames
  <2>3. Used = 1 .. count
    BY <2>1, <2>2 DEF Used, Frames
  <2>4. IsFiniteSet(Returns) /\ Cardinality(Returns) \in Nat
    <3>1. IsFiniteSet(1 .. Len(stack))
      BY <2>1, FS_Interval
    <3>2. Returns \subseteq 1 .. Len(stack)
      OBVIOUS
    <3> QED BY <3>1, <3>2, FS_Subset, FS_CardinalityType
  <2>5. count = Depth \/ Cardinality(Returns) <= count
    <3>1. CASE live
      BY <2>1, <3>1 DEF Counted
    <3>2. CASE ~live
      <4>1. Returns \subseteq 1 .. count
        BY <2>1, <3>2 DEF Counted
      <4>2. IsFiniteSet(1 .. count) /\ Cardinality(1 .. count) = count
        BY <2>1, FS_Interval
      <4> HIDE DEF Returns
      <4>3. Cardinality(Returns) <= Cardinality(1 .. count)
        BY <4>1, <4>2, FS_Subset
      <4> QED BY <4>2, <4>3
    <3> QED BY <3>1, <3>2
  <2> HIDE DEF Returns
  <2>6. count >= Min({Depth, Cardinality(Returns)})
    BY <2>1, <2>4, <2>5, MinLemma
  <2> QED BY <2>3, <2>6 DEF Returns
<1> QED BY <1>1, CountedAlways, PTL

\* With every unwinder the innermost frames are in the array, none left out: all
\* of the stack, or one less than fit (record_stack.c:57-94, 145-222, 224-259).
THEOREM InnermostAreRecorded == Spec => []InnermostRecorded
<1>1. IInv /\ Counted => InnermostRecorded
  <2> SUFFICES ASSUME IInv, Counted, phase = "done", count > 0, ~failed,
                      NEW k \in 1 .. Min({Len(stack), Depth - 1}), stack[k] # NULL
               PROVE  OfStack(k)
    BY DEF InnermostRecorded, Done
  <2> USE BoundsAssumption
  <2>1. count \in 0 .. Depth /\ i \in Nat /\ Len(stack) \in Nat
    BY StackLemma DEF IInv, TypeOK
  <2>2. k \in Nat /\ k >= 1 /\ k <= Len(stack) /\ k <= Depth - 1 /\ k \in Frames
    <3>1. Min({Len(stack), Depth - 1}) = IF Len(stack) <= Depth - 1 THEN Len(stack) ELSE Depth - 1
      BY <2>1, MinLemma
    <3> QED BY <2>1, <3>1 DEF Frames
  <2>3. CASE build = "backtrace"
    <3>1. All = IF Len(stack) + 1 <= Depth THEN Len(stack) + 1 ELSE Depth
      BY <2>1, MinLemma DEF All
    <3>2. k \in 1 .. All - 1
      BY <2>1, <2>2, <3>1
    <3> QED BY <2>2, <2>3, <3>2 DEF Counted, OfStack, Back
  <2>4. CASE build # "backtrace"
    <3>1. i > Depth /\ k < i
      BY <2>1, <2>2, <2>4 DEF Counted
    <3>2. k <= count
      BY <2>1, <2>2, <2>4, <3>1 DEF Counted
    <3>3. arr[k] # NULL
      BY <2>2, <2>4, <3>1, <3>2 DEF Counted
    <3>4. SlotOfStack(k)
      BY <2>2, <2>4, <3>1, <3>3 DEF IInv, Filled
    <3> QED BY <2>1, <2>2, <3>4 DEF SlotOfStack
  <2> QED BY <2>3, <2>4
<1> QED BY <1>1, CountedAlways, PTL
=============================================================================
