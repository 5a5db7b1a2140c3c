-------------------------- MODULE Stepping_proofs ---------------------------
(***************************************************************************)
(* Theorems about Stepping for any contexts, documents, lines and bounds.  *)
(***************************************************************************)
EXTENDS Stepping, SequenceTheorems, TLAPS

\* The types, and: a halt ends a step, and a step belongs to a context.
StackInv ==
  /\ TypeOK
  /\ pc = "halted" => state # "stepState"
  /\ state = "stepState" => stepInfo.context \in Contexts

-----------------------------------------------------------------------------
(***************************************************************************)
(* What the virtual machine does to a stack.                               *)
(***************************************************************************)

\* A stack that is not empty has a top frame.
LEMMA TopIsFrame ==
  ASSUME NEW stack \in Seq(Frames), stack # <<>>
  PROVE  Len(stack) \in Nat \ {0} /\ Top(stack) \in Frames
<1>1. Len(stack) \in Nat \ {0}
  BY EmptySeq
<1>2. stack[Len(stack)] \in Frames
  BY <1>1, ElementOfSeq
<1>3. QED
  BY <1>1, <1>2 DEF Top

\* Another frame in the place of the top one.
LEMMA ReplacedTop ==
  ASSUME NEW stack \in Seq(Frames), stack # <<>>, NEW frame \in Frames
  PROVE  LET s == [stack EXCEPT ![Len(stack)] = frame]
         IN  /\ s \in Seq(Frames) /\ s # <<>> /\ Len(s) = Len(stack)
             /\ \A i \in 1..(Len(stack) - 1) : s[i] = stack[i]
             /\ Top(s) = frame
<1> DEFINE s == [stack EXCEPT ![Len(stack)] = frame]
<1>1. Len(stack) \in Nat \ {0}
  BY TopIsFrame
<1>2. Len(stack) \in 1..Len(stack)
  BY <1>1
<1>3. /\ s \in Seq(Frames) /\ Len(s) = Len(stack)
      /\ \A j \in 1..Len(stack) : s[j] = IF j = Len(stack) THEN frame ELSE stack[j]
  BY <1>2, ExceptSeq
<1> HIDE DEF s
<1>4. s # <<>>
  BY <1>1, <1>3, EmptySeq
<1>5. s[Len(stack)] = frame /\ \A i \in 1..(Len(stack) - 1) : s[i] = stack[i]
  BY <1>1, <1>2, <1>3
<1>6. QED
  BY <1>3, <1>4, <1>5 DEF s, Top

\* Moving the top frame leaves the frames below alone.
LEMMA MovedStack ==
  ASSUME NEW stack \in Seq(Frames), stack # <<>>, NEW line \in Lines,
         NEW operator \in Operators
  PROVE  LET s == MovedTo(stack, line, operator)
         IN  /\ s \in Seq(Frames) /\ s # <<>> /\ Len(s) = Len(stack)
             /\ \A i \in 1..(Len(stack) - 1) : s[i] = stack[i]
<1>1. [file |-> Top(stack).file, line |-> line, operator |-> operator] \in Frames
  BY TopIsFrame DEF Frames
<1>2. QED
  BY <1>1, ReplacedTop DEF MovedTo

\* Opening a frame puts one more on the stack.
LEMMA OpenedStack ==
  ASSUME NEW stack \in Seq(Frames), stack # <<>>, NEW operator \in Operators,
         NEW frame \in Frames
  PROVE  LET s == Opened(stack, operator, frame)
         IN  /\ s \in Seq(Frames) /\ s # <<>> /\ Len(s) = Len(stack) + 1
             /\ \A i \in 1..(Len(stack) - 1) : s[i] = stack[i]
<1> DEFINE below == [file |-> Top(stack).file, line |-> Top(stack).line,
                     operator |-> operator]
           t == [stack EXCEPT ![Len(stack)] = below]
           s == Append(t, frame)
<1>1. Len(stack) \in Nat \ {0} /\ below \in Frames
  BY TopIsFrame DEF Frames
<1>2. /\ t \in Seq(Frames) /\ Len(t) = Len(stack)
      /\ \A i \in 1..(Len(stack) - 1) : t[i] = stack[i]
  BY <1>1, ReplacedTop
<1> HIDE DEF t
<1>3. /\ s \in Seq(Frames) /\ Len(s) = Len(stack) + 1
      /\ \A i \in 1..Len(stack) : s[i] = t[i]
  BY <1>1, <1>2, AppendProperties
<1> HIDE DEF s
<1>4. \A i \in 1..(Len(stack) - 1) : s[i] = stack[i]
  BY <1>1, <1>2, <1>3
<1>5. s # <<>>
  BY <1>1, <1>3, EmptySeq
<1>6. QED
  BY <1>3, <1>4, <1>5 DEF s, t, Opened

\* Returning cuts the stack off.
LEMMA CutStack ==
  ASSUME NEW stack \in Seq(Frames), NEW depth \in 1..(Len(stack) - 1)
  PROVE  LET s == SubSeq(stack, 1, depth)
         IN  /\ s \in Seq(Frames) /\ s # <<>> /\ Len(s) = depth
             /\ \A i \in 1..depth : s[i] = stack[i]
<1> DEFINE s == SubSeq(stack, 1, depth)
<1>1. Len(stack) \in Nat /\ depth \in Nat \ {0} /\ depth <= Len(stack)
  BY EmptySeq, LenProperties
<1>2. \A i \in 1..depth : stack[i] \in Frames
  BY <1>1, ElementOfSeq
<1>3. /\ s \in Seq(Frames) /\ Len(s) = depth
      /\ \A i \in 1..depth : s[i] = stack[i]
  BY <1>1, <1>2, SubSeqProperties
<1> HIDE DEF s
<1>4. s # <<>>
  BY <1>1, <1>3, EmptySeq
<1>5. QED
  BY <1>3, <1>4 DEF s

-----------------------------------------------------------------------------
(***************************************************************************)
(* The moves of the virtual machine, told by what they do to the frames    *)
(* that have opened another one.                                           *)
(***************************************************************************)

\* If there is a frame above the one at index i, either it was there before and
\* the instruction that opened it is the same, or it has just been opened.
OpenedBy(old, new, i) ==
  Len(new) > i => \/ Len(old) > i /\ new[i] = old[i]
                  \/ Len(new) = i + 1

ShowsNext(c, stack) ==
  /\ stack \in Seq(Frames) /\ stack # <<>>
  /\ Len(stack) <= MaxDepth[c]
  /\ Shows(c, stack)
  /\ \A i \in Nat \ {0} : OpenedBy(callstack[c], stack, i)

\* What is shown is a frame like any other.
LEMMA TopFrame == TopOperators \subseteq Operators /\ Calls \subseteq Operators /\ TopFrames \subseteq Frames
BY DEF TopFrames, Frames, TopOperators, Operators, Calls

\* A frame opened on a stack leaves room for no other, and the frames below are
\* as they were.
LEMMA OpenShows ==
  ASSUME StackInv, NEW c \in Contexts, callstack[c] # <<>>, Len(callstack[c]) < MaxDepth[c],
         NEW operator \in Operators, NEW frame \in Frames,
         Shows(c, Opened(callstack[c], operator, frame))
  PROVE  ShowsNext(c, Opened(callstack[c], operator, frame))
<1> DEFINE old == callstack[c]
           new == Opened(old, operator, frame)
<1>1. old \in Seq(Frames)
  BY DEF StackInv, TypeOK
<1>2. Len(old) \in Nat \ {0} /\ MaxDepth[c] \in Nat
  BY <1>1, TopIsFrame, SteppingAssumption
<1>3. /\ new \in Seq(Frames) /\ new # <<>> /\ Len(new) = Len(old) + 1
      /\ \A i \in 1..(Len(old) - 1) : new[i] = old[i]
  BY <1>1, OpenedStack
<1> HIDE DEF new
<1>4. \A i \in Nat \ {0} : OpenedBy(old, new, i)
  BY <1>2, <1>3 DEF OpenedBy
<1>5. Len(new) <= MaxDepth[c]
  BY <1>2, <1>3
<1>6. QED
  BY <1>3, <1>4, <1>5 DEF ShowsNext, new

\* Every move but the end of a script shows an instruction on such a stack.
LEMMA MoveShows ==
  ASSUME StackInv, NEW c \in Contexts,
         Start(c) \/ Advance(c) \/ Call(c) \/ Scope(c) \/ Return(c)
  PROVE  \E stack : ShowsNext(c, stack)
<1> DEFINE old == callstack[c]
<1>1. old \in Seq(Frames)
  BY DEF StackInv, TypeOK
<1>2. /\ old # <<>> => Len(old) \in Nat \ {0}
      /\ Len(old) \in Nat /\ Len(old) <= MaxDepth[c] /\ MaxDepth[c] \in Nat \ {0}
  BY <1>1, TopIsFrame, SteppingAssumption DEF StackInv, TypeOK
<1>3. CASE Start(c)
  <2>1. PICK frame \in Frames : Shows(c, <<frame>>)
    BY <1>3, TopFrame DEF Start
  <2>2. <<frame>> \in Seq(Frames) /\ Len(<<frame>>) = 1 /\ <<frame>> # <<>>
    OBVIOUS
  <2>3. \A i \in Nat \ {0} : OpenedBy(old, <<frame>>, i)
    BY <2>2 DEF OpenedBy
  <2>4. Len(<<frame>>) <= MaxDepth[c]
    BY <1>2, <2>2
  <2>5. QED
    BY <2>1, <2>2, <2>3, <2>4 DEF ShowsNext
<1>4. CASE Advance(c)
  <2>1. PICK line \in Lines, operator \in Operators : Shows(c, MovedTo(old, line, operator))
    BY <1>4, TopFrame DEF Advance
  <2> DEFINE new == MovedTo(old, line, operator)
  <2>2. /\ new \in Seq(Frames) /\ new # <<>> /\ Len(new) = Len(old)
        /\ \A i \in 1..(Len(old) - 1) : new[i] = old[i]
    BY <1>1, <1>4, MovedStack DEF Advance
  <2>3. \A i \in Nat \ {0} : OpenedBy(old, new, i)
    BY <1>2, <1>4, <2>2 DEF OpenedBy, Advance
  <2>4. Len(new) <= MaxDepth[c]
    BY <1>2, <2>2
  <2>5. QED
    BY <2>1, <2>2, <2>3, <2>4 DEF ShowsNext
<1>5. CASE Call(c)
  <2>1. PICK operator \in Operators, frame \in Frames : Shows(c, Opened(old, operator, frame))
    BY <1>5, TopFrame DEF Call
  <2>2. QED
    BY <1>5, <2>1, OpenShows DEF Call
<1>6. CASE Scope(c)
  <2>1. PICK frame \in Frames : Shows(c, Opened(old, "other", frame))
    BY <1>6, TopFrame DEF Scope
  <2>2. "other" \in Operators
    BY DEF Operators
  <2>3. QED
    BY <1>6, <2>1, <2>2, OpenShows DEF Scope
<1>7. CASE Return(c)
  <2>1. PICK depth \in 1..(Len(old) - 1), line \in Lines, operator \in Operators :
          Shows(c, MovedTo(SubSeq(old, 1, depth), line, operator))
    BY <1>7, TopFrame DEF Return
  <2> DEFINE cut == SubSeq(old, 1, depth)
             new == MovedTo(cut, line, operator)
  <2>2. /\ cut \in Seq(Frames) /\ cut # <<>> /\ Len(cut) = depth
        /\ \A i \in 1..depth : cut[i] = old[i]
    BY <1>1, CutStack
  <2>3. /\ new \in Seq(Frames) /\ new # <<>> /\ Len(new) = Len(cut)
        /\ \A i \in 1..(Len(cut) - 1) : new[i] = cut[i]
    BY <2>2, MovedStack
  <2>4. Len(old) \in Nat
    BY <1>1
  <2> HIDE DEF new, cut
  <2>5. \A i \in Nat \ {0} : OpenedBy(old, new, i)
    <3> SUFFICES ASSUME NEW i \in Nat \ {0}, Len(new) > i
                 PROVE  Len(old) > i /\ new[i] = old[i]
      BY DEF OpenedBy
    <3>1. depth \in Nat /\ depth < Len(old) /\ Len(new) = depth
      BY <2>2, <2>3, <2>4
    <3>2. i \in 1..(Len(cut) - 1) /\ i \in 1..depth
      BY <2>2, <3>1
    <3>3. QED
      BY <2>2, <2>3, <3>1, <3>2
  <2>6. Len(new) <= MaxDepth[c]
    BY <1>2, <2>2, <2>3
  <2>7. QED
    BY <2>1, <2>3, <2>5, <2>6 DEF ShowsNext, new, cut
<1>8. QED
  BY <1>3, <1>4, <1>5, <1>6, <1>7

-----------------------------------------------------------------------------
(***************************************************************************)
(* Types, and to which context a step belongs.                             *)
(***************************************************************************)

\* At a shown instruction or a halt there is a top frame, and Here is its line.
LEMMA HereIsLocation ==
  ASSUME StackInv, callstack[current] # <<>>
  PROVE  Top(callstack[current]) \in Frames /\ Here \in Locations
BY TopIsFrame DEF StackInv, TypeOK, Here, Locations

\* Letting the instruction go on keeps the types.
LEMMA ExecutedTypes ==
  ASSUME StackInv, pc # "run", Executed
  PROVE  lastContext' \in Contexts \cup {"null"} /\ lastInstruction' \in Locations
BY HereIsLocation DEF StackInv, TypeOK, Executed

\* What fits in a uint8_t.
LEMMA Width == ASSUME NEW n \in Nat PROVE n % 256 \in 0..255 /\ (n < 256 => n % 256 = n)
  BY SMT

\* A step records a frame.
LEMMA StepFrameIsNat == ASSUME StackInv PROVE stepInfo.stepFrame \in Nat
<1>1. stepInfo \in StepInfos
  BY DEF StackInv, TypeOK
<1>2. stepInfo.stepFrame \in 0..255
  BY <1>1 DEF StepInfos
<1>3. QED
  BY <1>2

\* An armed step has the line and the context of the instruction it stops at.
LEMMA ArmedTypes ==
  ASSUME StackInv, callstack[current] # <<>>, NEW type \in StepTypes
  PROVE  Armed(type) \in StepInfos /\ Armed(type).context \in Contexts
<1>1. Len(callstack[current]) \in Nat \ {0} /\ Top(callstack[current]) \in Frames
  BY TopIsFrame DEF StackInv, TypeOK
<1>2. Len(callstack[current]) - 1 \in Nat
  BY <1>1
<1> DEFINE frame == Frame % 256
<1>3. frame \in 0..255
  BY <1>2, Width DEF Frame
<1> HIDE DEF frame
<1>4. Here.line \in Lines
  BY <1>1 DEF Here, Location, Frames
<1>5. Armed(type) = [stepType |-> type, stepLine |-> Here.line, context |-> current,
                     stepFrame |-> frame]
  BY DEF Armed, frame
<1>6. QED
  BY <1>3, <1>4, <1>5 DEF StackInv, TypeOK, StepInfos

\* No step disturbs the invariant of the stacks.
LEMMA StackStep == ASSUME StackInv, [Next]_vars PROVE StackInv'
<1>1. CASE \E c \in Contexts : Start(c) \/ Advance(c) \/ Call(c) \/ Scope(c) \/ Return(c)
  <2>1. PICK c \in Contexts : \E t : ShowsNext(c, t)
    BY <1>1, MoveShows
  <2> PICK stack : ShowsNext(c, stack)
    BY <2>1
  <2>2. QED
    BY <2>1 DEF StackInv, TypeOK, ShowsNext, Shows, Filter
<1>2. CASE \E c \in Contexts : Finish(c)
  <2>1. PICK c \in Contexts : Finish(c)
    BY <1>2
  <2>2. <<>> \in Seq(Frames) /\ Len(<<>>) <= MaxDepth[c]
    BY EmptySeq, SteppingAssumption
  <2>3. QED
    BY <2>1, <2>2 DEF StackInv, TypeOK, Finish, Filter
<1>3. CASE HaltForPause \/ HaltForStep \/ HaltAtBreakpoint \/ HaltByScript
  BY <1>3 DEF StackInv, TypeOK, HaltForPause, HaltForStep, HaltAtBreakpoint, HaltByScript,
              Halt, VM, Filter
<1>4. CASE NoHalt
  BY <1>4, ExecutedTypes DEF StackInv, TypeOK, NoHalt, Executed, VM
<1>5. CASE PauseRequest
  BY <1>5 DEF StackInv, TypeOK, PauseRequest, VM, Filter
<1>6. CASE Continue
  BY <1>6, ExecutedTypes DEF StackInv, TypeOK, Continue, Executed, VM
<1>7. CASE StepCommand
  <2>1. PICK type \in StepTypes :
          IF instruction
          THEN state' = "stepState" /\ stepInfo' = Armed(type)
          ELSE state' = "running" /\ stepInfo' = [stepInfo EXCEPT !.stepType = type]
    BY <1>7 DEF StepCommand
  <2>2. /\ state' \in {"running", "stepState"} /\ stepInfo' \in StepInfos
        /\ state' = "stepState" => stepInfo'.context \in Contexts
    <3>1. CASE instruction
      BY <1>7, <2>1, <3>1, ArmedTypes DEF StackInv, TypeOK, StepCommand
    <3>2. CASE ~instruction
      <4>1. stepInfo \in StepInfos
        BY DEF StackInv, TypeOK
      <4>2. [stepInfo EXCEPT !.stepType = type] \in StepInfos
        BY <4>1 DEF StepInfos
      <4>3. QED
        BY <2>1, <3>2, <4>2
    <3>3. QED
      BY <3>1, <3>2
  <2>3. pc = "halted" /\ pc' = "run" /\ instruction' = FALSE /\ skipped' = FALSE /\ Executed
    BY <1>7 DEF StepCommand, Executed
  <2>4. UNCHANGED <<callstack, current>> /\ lastInstruction' = Here
    BY <2>3 DEF Executed, VM
  <2>5. lastContext' \in Contexts \cup {"null"} /\ Here \in Locations
    BY <2>3, HereIsLocation, ExecutedTypes DEF StackInv, TypeOK
  <2>6. instruction' \in BOOLEAN /\ skipped' \in BOOLEAN
    BY <2>3
  <2>7. QED
    BY <2>2, <2>3, <2>4, <2>5, <2>6 DEF StackInv, TypeOK
<1>8. CASE LateCommand
  <2>1. stepInfo \in StepInfos
    BY DEF StackInv, TypeOK
  <2>2. \A type \in StepTypes : [stepInfo EXCEPT !.stepType = type] \in StepInfos
    BY <2>1 DEF StepInfos
  <2>3. stepInfo' \in StepInfos
    BY <1>8, <2>1, <2>2 DEF LateCommand
  <2>4. QED
    BY <1>8, <2>3 DEF StackInv, TypeOK, LateCommand, VM, Filter
<1>9. CASE UNCHANGED vars
  BY <1>9 DEF StackInv, TypeOK, vars
<1>10. QED
  BY <1>1, <1>2, <1>3, <1>4, <1>5, <1>6, <1>7, <1>8, <1>9 DEF Next, Move

\* The debugger starts with empty stacks.
LEMMA StackInit == Init => StackInv
<1>1. <<>> \in Seq(Frames) /\ \A c \in Contexts : Len(<<>>) <= MaxDepth[c]
  BY EmptySeq, SteppingAssumption
<1>3. Init => stepInfo \in StepInfos
  BY DEF Init, StepInfos, StepTypes
<1>4. Init => callstack \in [Contexts -> Seq(Frames)]
  BY <1>1 DEF Init
<1>5. QED
  BY <1>1, <1>3, <1>4 DEF Init, StackInv, TypeOK

\* Callstacks, the filter, the armed step and the histories are well typed.
THEOREM TypeCorrect == Spec => []TypeOK
<1>1. StackInv => TypeOK
  BY DEF StackInv
<1>2. QED
  BY <1>1, StackInit, StackStep, PTL DEF Spec

-----------------------------------------------------------------------------
(***************************************************************************)
(* A step over and the code that the stepped line calls.                   *)
(***************************************************************************)

StepOver == state = "stepState" /\ stepInfo.stepType = "STOver"

\* What lies above the frame of a step over was called from it by an instruction
\* that allowStepInto knows, or has been opened just now, or has been skipped.
OverInv == StepOver =>
  LET c == stepInfo.context
      i == stepInfo.stepFrame + 1
  IN  Len(callstack[c]) > i =>
        \/ callstack[c][i].operator = "operator call"
        \/ pc = "hook" /\ current = c /\ Len(callstack[c]) = i + 1
        \/ skipped

\* No step but the client's own ends or disturbs a step over.
LEMMA OverStep ==
  ASSUME \A c \in Contexts : MaxDepth[c] <= 256, StackInv, OverInv, [Next]_vars
  PROVE  OverInv'
<1> DEFINE ctx == stepInfo.context
           i == stepInfo.stepFrame + 1
<1>1. stepInfo.stepFrame \in Nat /\ i \in Nat \ {0} /\ (StepOver => ctx \in Contexts)
  BY StepFrameIsNat DEF StackInv, StepOver
<1>2. CASE \E c \in Contexts : Start(c) \/ Advance(c) \/ Call(c) \/ Scope(c) \/ Return(c)
  <2>1. PICK c \in Contexts : \E t : ShowsNext(c, t)
    BY <1>2, MoveShows
  <2> PICK new : ShowsNext(c, new)
    BY <2>1
  <2>2. /\ pc = "run" /\ pc' = "hook" /\ current' = c
        /\ UNCHANGED <<state, stepInfo, skipped>>
        /\ callstack'[c] = new
        /\ \A d \in Contexts : d # c => callstack'[d] = callstack[d]
    BY <2>1 DEF ShowsNext, Shows, Filter, StackInv, TypeOK
  <2>3. CASE StepOver /\ ctx = c /\ Len(new) > i
    <3>1. OpenedBy(callstack[c], new, i)
      BY <1>1, <2>1 DEF ShowsNext
    <3>2. CASE Len(callstack[c]) > i /\ new[i] = callstack[c][i]
      BY <2>2, <2>3, <3>2 DEF OverInv
    <3>3. CASE Len(new) = i + 1
      BY <2>2, <2>3, <3>3 DEF OverInv
    <3>4. QED
      BY <2>3, <3>1, <3>2, <3>3 DEF OpenedBy
  <2>4. QED
    BY <1>1, <2>2, <2>3 DEF OverInv, StepOver
<1>3. CASE \E c \in Contexts : Finish(c)
  <2>1. PICK c \in Contexts : Finish(c)
    BY <1>3
  <2>2. /\ pc = "run" /\ pc' = "run" /\ UNCHANGED <<state, stepInfo, skipped>>
        /\ Len(callstack'[c]) = 0
        /\ \A d \in Contexts : d # c => callstack'[d] = callstack[d]
    BY <2>1 DEF Finish, Filter, StackInv, TypeOK
  <2>3. CASE StepOver /\ ctx = c
    <3>1. ~(Len(callstack'[stepInfo'.context]) > stepInfo'.stepFrame + 1)
      BY <1>1, <2>2, <2>3
    <3>2. QED
      BY <3>1 DEF OverInv
  <2>4. CASE StepOver /\ ctx # c
    BY <1>1, <2>2, <2>4 DEF OverInv
  <2>5. QED
    BY <2>2, <2>3, <2>4 DEF OverInv, StepOver
<1>4. CASE HaltForPause \/ HaltForStep \/ HaltAtBreakpoint \/ HaltByScript
  BY <1>4 DEF OverInv, StepOver, HaltForPause, HaltForStep, HaltAtBreakpoint,
              HaltByScript, Halt
<1>5. CASE NoHalt
  <2>1. UNCHANGED <<callstack, current, state, stepInfo>> /\ pc = "hook"
    BY <1>5 DEF NoHalt, Executed, VM
  <2>2. CASE StepOver /\ current = ctx /\ Len(callstack[ctx]) > i
    <3>1. Len(callstack[ctx]) \in Nat
      BY <1>1, <2>2 DEF StackInv, TypeOK
    <3>2. AboveStepFrame
      BY <1>1, <2>2, <3>1 DEF AboveStepFrame, StepOver, Frame
    <3>3. skipped' <=> skipped \/ ~Reported
      BY <1>5, <2>2, <3>2 DEF NoHalt
    <3>4. CASE Reported
      <4>1. ~StepTarget
        BY <1>5, <3>4 DEF NoHalt
      <4>2. ~AllowStepInto(current, stepInfo.stepFrame)
        BY <1>1, <2>2, <3>1, <4>1 DEF StepTarget, StepOver, Frame
      <4>3. callstack[ctx][i].operator = "operator call"
        BY <2>2, <4>2 DEF AllowStepInto
      <4>4. QED
        BY <2>1, <4>3 DEF OverInv
    <3>5. CASE ~Reported
      BY <2>1, <3>3, <3>5 DEF OverInv
    <3>6. QED
      BY <3>4, <3>5
  <2>3. CASE StepOver /\ current # ctx
    <3>1. skipped' = skipped
      BY <1>5, <2>3 DEF NoHalt
    <3>2. QED
      BY <2>1, <2>3, <3>1 DEF OverInv, StepOver
  <2>4. QED
    BY <2>1, <2>2, <2>3 DEF OverInv, StepOver
<1>6. CASE PauseRequest \/ Continue \/ LateCommand
  BY <1>6 DEF OverInv, StepOver, PauseRequest, Continue, LateCommand
<1>7. CASE StepCommand
  <2>1. /\ callstack' = callstack /\ Len(callstack[current]) \in Nat \ {0}
        /\ Len(callstack[current]) <= 256
    <3>1. callstack' = callstack /\ current \in Contexts /\ callstack[current] # <<>>
      BY <1>7 DEF StepCommand, Executed, VM, StackInv, TypeOK
    <3>2. Len(callstack[current]) \in Nat \ {0}
      BY <3>1, TopIsFrame DEF StackInv, TypeOK
    <3>3. Len(callstack[current]) <= MaxDepth[current] /\ MaxDepth[current] \in Nat
      BY <3>1, SteppingAssumption DEF StackInv, TypeOK
    <3>4. QED
      BY <3>1, <3>2, <3>3
  <2>2. Frame % 256 = Len(callstack[current]) - 1
    <3>1. Frame \in Nat /\ Frame < 256
      BY <2>1 DEF Frame
    <3>2. QED
      BY <3>1, Width DEF Frame
  <2>3. StepOver' => /\ stepInfo'.context = current
                     /\ stepInfo'.stepFrame = Len(callstack[current]) - 1
    <3>1. StepOver' => \E type \in StepTypes : stepInfo' = Armed(type)
      BY <1>7 DEF StepCommand, StepOver
    <3>2. \A type \in StepTypes : /\ Armed(type).context = current
                                  /\ Armed(type).stepFrame = Len(callstack[current]) - 1
      BY <2>2 DEF Armed
    <3>3. QED
      BY <3>1, <3>2
  <2>4. StepOver' => ~(Len(callstack'[stepInfo'.context]) > stepInfo'.stepFrame + 1)
    BY <2>1, <2>3
  <2>5. QED
    BY <2>4 DEF OverInv
<1>8. CASE UNCHANGED vars
  BY <1>8 DEF OverInv, StepOver, vars
<1>9. QED
  BY <1>2, <1>3, <1>4, <1>5, <1>6, <1>7, <1>8 DEF Next, Move

\* If no callstack is deeper than a uint8_t counts, a step over stops in code
\* that the stepped line has called only past an instruction allowStepInto does
\* not know, or past a scope the filter has hidden.
THEOREM StepOverIsSound ==
  ASSUME \A c \in Contexts : MaxDepth[c] <= 256
  PROVE  Spec => StepOverStaysOut
<1> DEFINE Inv == StackInv /\ OverInv
           Out == \/ NotCalled
                  \/ callstack[current][stepInfo.stepFrame + 1].operator = "function call"
                  \/ skipped
           Stays == HaltForStep /\ stepInfo.stepType = "STOver" => Out
<1>1. Init => Inv
  BY StackInit DEF Init, OverInv, StepOver
<1>2. Inv /\ [Next]_vars => Inv'
  BY StackStep, OverStep
<1>3. Inv => Stays
  <2> SUFFICES ASSUME Inv, HaltForStep, stepInfo.stepType = "STOver", ~skipped
               PROVE  \/ NotCalled
                      \/ callstack[current][stepInfo.stepFrame + 1].operator = "function call"
    OBVIOUS
  <2> DEFINE i == stepInfo.stepFrame + 1
  <2>1. current = stepInfo.context /\ StepOver /\ pc = "hook"
    BY DEF HaltForStep, StepTarget, StepOver
  <2>2. /\ i \in Nat \ {0} /\ stepInfo.stepFrame \in Nat
        /\ callstack[current] \in Seq(Frames)
        /\ Len(callstack[current]) \in Nat \ {0}
    BY <2>1, StepFrameIsNat, TopIsFrame DEF StackInv, TypeOK
  <2>3. CASE ~(i < Len(callstack[current]))
    <3>1. i..Frame = {}
      BY <2>2, <2>3 DEF Frame
    <3>2. QED
      BY <3>1 DEF NotCalled
  <2>4. CASE i < Len(callstack[current])
  <3> USE <2>4
  <3>4. AllowStepInto(current, stepInfo.stepFrame)
    <4>1. StepTarget
      BY DEF HaltForStep
    <4>2. ~(Frame < stepInfo.stepFrame) /\ Frame # stepInfo.stepFrame
      BY <2>2 DEF Frame
    <4>3. QED
      BY <4>1, <4>2 DEF StepTarget
  <3>5. callstack[current][i].operator # "operator call"
    <4>1. ~(Len(callstack[current]) <= 1)
      BY <2>2
    <4>2. QED
      BY <3>4, <4>1 DEF AllowStepInto
  <3>6. Len(callstack[current]) = i + 1
    BY <2>1, <3>5 DEF OverInv
  <3>7. callstack[current][i].operator \in Operators
    <4>1. callstack[current][i] \in Frames
      BY <2>2, ElementOfSeq
    <4>2. QED
      BY <4>1 DEF Frames
  <3>8. \A j \in i..Frame : j = i
    BY <2>2, <3>6 DEF Frame
  <3>9. callstack[current][i].operator = "other" => NotCalled
    BY <3>8 DEF NotCalled, Calls
  <3>10. QED
    BY <3>5, <3>7, <3>9 DEF Operators, Calls
  <2>5. QED
    BY <2>3, <2>4
<1>4. QED
  BY <1>1, <1>2, <1>3, PTL DEF Spec, StepOverStaysOut
=============================================================================
