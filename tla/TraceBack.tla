------------------------------ MODULE TraceBack ------------------------------
(***************************************************************************)
(* codecti_RecordTraceBack (record_stack.c) and the call of it in          *)
(* codecti_record_callsite: filling the address array of a callsite from   *)
(* the stack of the calling thread, in the builds that walk the stack with *)
(* libunwind (the configured one), with frame pointers from a jmp_buf, and *)
(* with backtrace() of the C library.  The unwinders themselves are the    *)
(* environment: what they answer is chosen nondeterministically.           *)
(***************************************************************************)
EXTENDS Integers, Sequences, FiniteSets, FiniteSetsExt

\* A name with an underscore, such as UnwindFrame_Positive, is a mutant: a bug the
\* definition after it could have had, and that some property must catch.
CONSTANTS
  Builds,    \* the unwinders built in: "libunwind", "setjmp", "backtrace"
  Depth,     \* max_back = fullStackDepth
  Internal,  \* CODECT_INTERNAL_STACK_DEPTH
  M,         \* addresses are integers modulo M (2^64); NULL is 0
  Stacks,    \* the stacks recorded: return addresses, innermost first
  Stale      \* what the slots hold before

ASSUME BuildsAssumption == Builds \subseteq {"libunwind", "setjmp", "backtrace"}
ASSUME BoundsAssumption == /\ Depth \in Nat \ {0} /\ Internal \in Nat
                           /\ M \in Nat /\ M > 16
ASSUME StacksAssumption ==
  \A s \in Stacks : /\ s \in Seq(0 .. M - 1) /\ s # <<>>
                    /\ \A k \in 1 .. Len(s) : s[k] > 16 \/ (s[k] = 0 /\ k = Len(s))
ASSUME StaleAssumption == Stale \in 0 .. M - 1

VARIABLES
  build,  \* the unwinder of this build
  failed, \* history: has a call of libunwind failed within the stack?
  phase,  \* "call", "loop", "done"
  stack,  \* the frames above codecti_RecordTraceBack
  at,     \* the frame the cursor or fp is at; beyond the stack: its end
  live,   \* valid_cursor; for setjmp: fp and pc are not NULL
  i,      \* the loop counter, from 1
  count,  \* frame_count, the result
  arr     \* pc_array, and behind it the slot of filename[0]

vars == <<build, failed, phase, stack, at, live, i, count, arr>>

NULL == 0
Frames == 1 .. Depth
Slots == 1 .. Depth + 1

\* Pointer arithmetic wraps around.
Before(pc, n) == (pc + M - n) % M

\* The slots a caller visits in the array: those before the first NULL.
Used == {k \in Frames : \A j \in 1 .. k : arr[j] # NULL}

\* The address a walk off the stack leaves: the predecessor of NULL.
End == Before(NULL, 1)

-----------------------------------------------------------------------------
\* codecti_record_callsite clears one pointer of the record, pc[0].
Init == /\ phase = "call"
        /\ build \in Builds
        /\ failed = FALSE
        /\ stack \in Stacks
        /\ build # "setjmp" => \A k \in 1 .. Len(stack) : stack[k] # NULL
        /\ at = 0 /\ i = 1 /\ count = 0
        /\ live = TRUE
        /\ arr = [k \in Slots |-> IF k = 1 THEN NULL ELSE Stale]

\* libunwind: pc_array[0] = NULL, unw_getcontext, unw_init_local.
StartUnwind ==
  /\ build = "libunwind" /\ phase = "call"
  /\ arr' = [arr EXCEPT ![1] = NULL]
  /\ \/ phase' = "loop" /\ UNCHANGED failed
     \/ phase' = "done" /\ failed' = TRUE
  /\ UNCHANGED <<build, stack, at, live, i, count>>

\* The stored address, or NULL where unw_get_reg fails.
Store(pc) == \/ arr' = [arr EXCEPT ![i] = Before(pc, 1)] /\ UNCHANGED failed
             \/ arr' = [arr EXCEPT ![i] = NULL] /\ failed' = TRUE

\* Counting only the frames for which unw_step returns a positive number.
UnwindFrame_Positive ==
  /\ build = "libunwind" /\ phase = "loop" /\ i <= Depth
  /\ live
  /\ at' = Min({at + 1, Len(stack) + 1})
  /\ live' = (at < Len(stack))
  /\ IF at < Len(stack) THEN Store(stack[at + 1]) /\ count' = count + 1
                        ELSE /\ arr' = [arr EXCEPT ![i] = NULL]
                             /\ UNCHANGED <<count, failed>>
  /\ i' = i + 1
  /\ UNCHANGED <<build, phase, stack>>

\* Reading the register before stepping.
UnwindFrame_Unstepped ==
  /\ build = "libunwind" /\ phase = "loop" /\ i <= Depth
  /\ live
  /\ at' = Min({at + 1, Len(stack) + 1})
  /\ Store(IF at \in 1 .. Len(stack) THEN stack[at] ELSE NULL)
  /\ count' = count + 1
  /\ i' = i + 1
  /\ UNCHANGED <<build, phase, stack, live>>

\* unw_step to a caller returns a positive number, to the end of the stack 0
\* (there the instruction pointer reads 0): both count as a frame.
UnwindFrame ==
  /\ build = "libunwind" /\ phase = "loop" /\ i <= Depth
  /\ live
  /\ at' = Min({at + 1, Len(stack) + 1})
  /\ Store(IF at + 1 <= Len(stack) THEN stack[at + 1] ELSE NULL)
  /\ count' = count + 1
  /\ i' = i + 1
  /\ UNCHANGED <<build, phase, stack, live>>

\* A loop bound one too high; a slot skipped where it has to be padded.
UnwindFails_TooFar ==
  /\ build = "libunwind" /\ phase = "loop" /\ i <= Depth + 1
  /\ failed' = (failed \/ (live /\ at <= Len(stack)))
  /\ live' = FALSE
  /\ arr' = [arr EXCEPT ![i] = NULL]
  /\ i' = i + 1
  /\ UNCHANGED <<build, phase, stack, at, count>>
UnwindFails_Skips ==
  /\ build = "libunwind" /\ phase = "loop" /\ i <= Depth
  /\ failed' = (failed \/ (live /\ at <= Len(stack)))
  /\ live' = FALSE
  /\ i' = i + 1
  /\ UNCHANGED <<build, phase, stack, at, count, arr>>

\* unw_step fails: NULLs from here on.  Beyond the end of the stack it may
\* fail or return 0 again.
UnwindFails ==
  /\ build = "libunwind" /\ phase = "loop" /\ i <= Depth
  /\ failed' = (failed \/ (live /\ at <= Len(stack)))
  /\ live' = FALSE
  /\ arr' = [arr EXCEPT ![i] = NULL]
  /\ i' = i + 1
  /\ UNCHANGED <<build, phase, stack, at, count>>

-----------------------------------------------------------------------------
\* setjmp: fp is the frame of the function that called codecti_record_callsite.
StartFp ==
  /\ build = "setjmp" /\ phase = "call"
  /\ phase' = "loop"
  /\ at' = 1
  /\ UNCHANGED <<build, failed, stack, live, i, count, arr>>

\* Leaving out the frame whose fp is the last of the chain.
FpFrame_Early ==
  /\ build = "setjmp" /\ phase = "loop" /\ i <= Depth
  /\ live
  /\ arr' = [arr EXCEPT ![i] = IF stack[at] # NULL THEN Before(stack[at], 1) ELSE NULL]
  /\ count' = IF stack[at] # NULL THEN count + 1 ELSE count
  /\ at' = at + 1
  /\ live' = (stack[at] # NULL /\ at + 1 < Len(stack))
  /\ i' = i + 1
  /\ UNCHANGED <<build, failed, phase, stack>>

\* A chain of frame pointers ends in a NULL fp, or in a frame without a return
\* address.
FpFrame ==
  /\ build = "setjmp" /\ phase = "loop" /\ i <= Depth
  /\ live
  /\ arr' = [arr EXCEPT ![i] = IF stack[at] # NULL THEN Before(stack[at], 1) ELSE NULL]
  /\ count' = IF stack[at] # NULL THEN count + 1 ELSE count
  /\ at' = at + 1
  /\ live' = (stack[at] # NULL /\ at + 1 <= Len(stack))
  /\ i' = i + 1
  /\ UNCHANGED <<build, failed, phase, stack>>

\* Padding.
FpPad ==
  /\ build = "setjmp" /\ phase = "loop" /\ i <= Depth
  /\ ~live
  /\ arr' = [arr EXCEPT ![i] = NULL]
  /\ i' = i + 1
  /\ UNCHANGED <<build, failed, phase, stack, at, live, count>>

\* Either loop ends.
EndLoop ==
  /\ phase = "loop" /\ i > Depth
  /\ phase' = "done"
  /\ UNCHANGED <<build, failed, stack, at, live, i, count, arr>>

-----------------------------------------------------------------------------
\* backtrace() reports the current function first, at most Depth frames.
All == Min({Len(stack) + 1, Depth})

\* Not dropping the current function.
Copied_WithSelf == [k \in Slots |-> IF k <= All - 1
                                      THEN IF k = 1 THEN M - 1 ELSE stack[k - 1]
                                    ELSE IF k = All + 1 THEN NULL ELSE arr[k]]

\* memcpy of all but the first, and the NULL where the code puts it.
Copied == [k \in Slots |-> IF k <= All - 1 THEN stack[k]
                           ELSE IF k = All + 1 THEN NULL ELSE arr[k]]

\* The last loop runs to the first NULL from the start of the array.
Shifted(a) == [k \in Slots |-> IF \A j \in 1 .. k : a[j] # NULL
                                THEN Before(a[k], 8) ELSE a[k]]

Backtrace ==
  /\ build = "backtrace" /\ phase = "call"
  /\ \/ /\ All <= Internal
        /\ UNCHANGED <<count, arr>>
     \/ /\ All > Internal
        /\ arr' = Shifted(Copied)
        /\ count' = All
  /\ phase' = "done"
  /\ UNCHANGED <<build, failed, stack, at, live, i>>

-----------------------------------------------------------------------------
Next == \/ StartUnwind \/ UnwindFrame \/ UnwindFails
        \/ StartFp \/ FpFrame \/ FpPad
        \/ EndLoop
        \/ Backtrace

Spec == Init /\ [][Next]_vars

-----------------------------------------------------------------------------
\* Types, and the loop counter within the array.
TypeOK ==
  /\ build \in Builds
  /\ failed \in BOOLEAN
  /\ phase \in {"call", "loop", "done"}
  /\ stack \in Stacks
  /\ at \in 0 .. Len(stack) + 1
  /\ live \in BOOLEAN
  /\ i \in 1 .. Depth + 1
  /\ count \in 0 .. Depth
  /\ arr \in [Slots -> 0 .. M - 1]

Done == phase = "done"

\* How far a build goes back from a return address into the call.
Back == IF build = "backtrace" THEN 8 ELSE 1

\* The k-th address is that of the k-th frame of the stack.
OfStack(k) == k <= Len(stack) /\ arr[k] = Before(stack[k], Back)

\* A caller sees the calls of the stack, innermost first and without gaps, and
\* then at most the predecessors of NULL that unw_step leaves at the end of the
\* stack.
OnlyStackIsSeen ==
  Done => \A k \in Used :
            OfStack(k) \/ (build = "libunwind" /\ k > Len(stack) /\ arr[k] = End)

\* Whatever fails, no address of an earlier callsite is seen, although the array
\* is not cleared before (codecti.c:57): libunwind and setjmp.
TraceIsOfStack == build # "backtrace" => OnlyStackIsSeen

\* In the libunwind and setjmp builds, once their loop has started, nothing an
\* earlier callsite left is in the array, behind the first NULL included: the
\* caches hash and compare records that are reused (codecti.c:365-401).  Where
\* libunwind cannot start only the first slot is written (record_stack.c:44-60),
\* and the backtrace() build leaves old addresses behind its frames, one of them
\* before its NULL (record_stack.c:176-177, run backtrace_stale).
NothingLeftOver ==
  build # "backtrace" /\ Done /\ i > 1 =>
    \A k \in Frames : arr[k] # NULL => OfStack(k) \/ arr[k] = End

\* pc_array[max_back] is filename[0] of the same record: the libunwind and setjmp
\* loops write no slot but those of the array.  The backtrace() build is excluded:
\* when the array is full its NULL goes to that slot (record_stack.c:177).
InBounds == [][build # "backtrace" => arr'[Depth + 1] = arr[Depth + 1]]_vars

\* If nothing fails, the result of the libunwind and setjmp builds is the number
\* of addresses a caller sees, and they are the whole stack or as much as fits.
\* The backtrace() build is excluded: it returns one more than the frames it
\* leaves, the one it removes included (record_stack.c:176-184).
CountIsFrames ==
  Done /\ build # "backtrace" /\ ~failed =>
    /\ Used = 1 .. count
    /\ count >= Min({Depth, Cardinality({k \in 1 .. Len(stack) : stack[k] # NULL})})

\* Every build records the innermost frames, none left out and the recording
\* function not among them: all of the stack, or as many as any has room for.
InnermostRecorded ==
  Done /\ count > 0 /\ ~failed =>
    \A k \in 1 .. Min({Len(stack), Depth - 1}) : stack[k] # NULL => OfStack(k)

\* libunwind: a stack that fits is recorded with the predecessor of NULL behind
\* its last frame.  That tells it from every deeper stack that begins with it,
\* which the PC cache's comparator does not (codecti.c:254).  Two traces of one
\* stack may still differ, and one begin the other, in how often the end of the
\* stack is recorded: beyond it unw_step fails or returns 0 again (UnwindFails).
EndsAtRoot ==
  Done /\ build = "libunwind" /\ ~failed =>
    Used = Frames \/ \E k \in Used : k > Len(stack) /\ arr[k] = End
=============================================================================
