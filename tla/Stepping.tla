------------------------------ MODULE Stepping ------------------------------
(***************************************************************************)
(* Where a step command stops: the filter that shows the debugger one      *)
(* instruction per line (EngineHook::_scriptInstruction), the decision of  *)
(* Debugger::checkForBreakpoint and allowStepInto, and the arming of a     *)
(* step in Debugger::commandContinue.  All of it runs on, or while waiting *)
(* for, the script thread; how the two threads meet is HaltProtocol.       *)
(*                                                                         *)
(* The script virtual machine is external.  Each context has a callstack;  *)
(* the top frame moves to some line, calls code, opens a scope of its own  *)
(* code (then, do, forEach), returns, or the script ends.                  *)
(***************************************************************************)
EXTENDS Integers, Sequences

CONSTANTS
  Contexts,    \* addresses of VM contexts
  Files,       \* compiled documents
  Lines,       \* source lines
  MaxDepth     \* bound: frames on the callstack of each context

ASSUME SteppingAssumption ==
  /\ Lines \subseteq Nat \ {0}
  /\ MaxDepth \in [Contexts -> Nat \ {0}]

\* "args call code" and "call code" are different instructions, and each calls.
Calls == {"operator call", "function call"}
\* "operator" is what allowStepInto reads of a frame: the name of the
\* instruction before its instruction pointer.  Below the top that is the
\* instruction which opened the next frame.  At the top it may be any: there
\* it is an instruction of the shown line or, with the pointer at 0, whatever
\* lies before the array; "other" stands for all that allowStepInto does not
\* compare with.  A frame that executes instructions is of a kind allowStepInto
\* knows; the bookkeeping items of loops count as part of the scope they open.
Operators == Calls \cup {"other"}
TopOperators == {"operator call", "other"}
Frames == [file : Files, line : Lines, operator : Operators]
TopFrames == [file : Files, line : Lines, operator : TopOperators]
StepTypes == {"STInto", "STOver", "STOut"}

VARIABLES
  callstack,        \* of each context; empty when no script runs in it
  current,          \* the context of the instruction executed or shown last
  pc,               \* "run", "hook": an instruction is shown, or "halted"
  state,            \* Debugger::state
  instruction,      \* the current halt has an instruction
  stepInfo,         \* Debugger::stepInfo
  lastInstruction,  \* lastInstructionLine and lastInstructionFile
  lastContext,      \* history: the context lastInstruction was executed in
  skipped           \* history: the filter has hidden an instruction above the
                    \* frame an armed step over was given in

vars == <<callstack, current, pc, state, instruction, stepInfo, lastInstruction,
          lastContext, skipped>>
VM == <<callstack, current>>
Filter == <<lastInstruction, lastContext, skipped>>

Nowhere == [line |-> 0, content |-> "null"]

Init ==
  /\ callstack = [c \in Contexts |-> <<>>]
  /\ current \in Contexts
  /\ pc = "run"
  /\ state = "running"
  /\ instruction = FALSE
  /\ stepInfo = [stepType |-> "STInto", stepLine |-> 0, stepFrame |-> 0, context |-> "null"]
  /\ lastInstruction = Nowhere
  /\ lastContext = "null"
  /\ skipped = FALSE

Top(stack) == stack[Len(stack)]
\* The address of a document's text and a line of it.  Contexts that execute
\* the same document, as one function called by two scripts, share its text.
Location(frame) == [line |-> frame.line, content |-> frame.file]

-----------------------------------------------------------------------------
(***************************************************************************)
(* The virtual machine goes on to an instruction and shows it.             *)
(***************************************************************************)

Shows(c, stack) ==
  /\ pc = "run" /\ pc' = "hook"
  /\ current' = c
  /\ callstack' = [callstack EXCEPT ![c] = stack]
  /\ UNCHANGED <<state, instruction, stepInfo, Filter>>

\* The stack with its top frame at another instruction.
MovedTo(stack, line, operator) ==
  [stack EXCEPT ![Len(stack)] = [file |-> Top(stack).file, line |-> line,
                                 operator |-> operator]]
\* The stack with a frame on top that the operator has opened.
Opened(stack, operator, frame) ==
  Append([stack EXCEPT ![Len(stack)] = [file |-> Top(stack).file,
                                        line |-> Top(stack).line,
                                        operator |-> operator]], frame)

\* A script starts; its context may have the address of a finished one.
Start(c) ==
  /\ callstack[c] = <<>>
  /\ \E frame \in TopFrames : Shows(c, <<frame>>)

Advance(c) ==
  /\ callstack[c] # <<>>
  /\ \E line \in Lines, operator \in TopOperators :
       Shows(c, MovedTo(callstack[c], line, operator))

Call(c) ==
  /\ callstack[c] # <<>> /\ Len(callstack[c]) < MaxDepth[c]
  /\ \E operator \in Calls, frame \in TopFrames :
       Shows(c, Opened(callstack[c], operator, frame))

\* Code written in place, on the line of its operator or on lines of its own.
Scope(c) ==
  /\ callstack[c] # <<>> /\ Len(callstack[c]) < MaxDepth[c]
  /\ \E frame \in TopFrames :
       /\ frame.file = Top(callstack[c]).file
       /\ Shows(c, Opened(callstack[c], "other", frame))

Return(c) ==
  \E depth \in 1..(Len(callstack[c]) - 1), line \in Lines, operator \in TopOperators :
    Shows(c, MovedTo(SubSeq(callstack[c], 1, depth), line, operator))

\* A script runs out, or is terminated by another.
Finish(c) ==
  /\ pc = "run" /\ callstack[c] # <<>>
  /\ callstack' = [callstack EXCEPT ![c] = <<>>]
  /\ UNCHANGED <<current, pc, state, instruction, stepInfo, Filter>>

-----------------------------------------------------------------------------
(***************************************************************************)
(* The hook.                                                               *)
(***************************************************************************)

Here == Location(Top(callstack[current]))
\* The frame of the shown instruction, counted from 0 as stepFrame is.
Frame == Len(callstack[current]) - 1

\* OnlyOneInstructionPerLine
Reported == Here # lastInstruction

\* Mutant: the stack of one called frame is taken for a stack of one frame.
AllowStepIntoShallow(c, lastStepFrame) ==
  Len(callstack[c]) <= 2 \/ callstack[c][lastStepFrame + 1].operator # "operator call"

AllowStepInto(c, lastStepFrame) ==
  Len(callstack[c]) <= 1 \/ callstack[c][lastStepFrame + 1].operator # "operator call"

\* The second test of checkForBreakpoint.
StepTarget ==
  /\ state = "stepState" /\ current = stepInfo.context
  /\ \/ stepInfo.stepType = "STInto"
     \/ Frame < stepInfo.stepFrame
     \/ /\ stepInfo.stepType = "STOver" /\ Frame >= stepInfo.stepFrame
        /\ \/ Frame = stepInfo.stepFrame /\ Here.line # stepInfo.stepLine
           \/ AllowStepInto(current, stepInfo.stepFrame)

Halt(withInstruction) ==
  /\ state' = "breakState"
  /\ instruction' = withInstruction
  /\ pc' = "halted"
  /\ UNCHANGED <<VM, stepInfo, Filter>>

\* The instruction is executed; the filter remembers what it has reported.
Executed ==
  /\ pc' = "run"
  /\ lastInstruction' = Here
  /\ lastContext' = current
  /\ UNCHANGED VM

HaltForPause ==
  /\ pc = "hook" /\ Reported /\ state = "waitForHalt"
  /\ Halt(FALSE)

HaltForStep ==
  /\ pc = "hook" /\ Reported /\ StepTarget
  /\ Halt(TRUE)

HaltAtBreakpoint ==
  /\ pc = "hook" /\ Reported /\ state # "waitForHalt" /\ ~StepTarget
  /\ Halt(TRUE)

\* A script error, or the commands halt and assert.
HaltByScript ==
  /\ pc = "run" /\ callstack[current] # <<>>
  /\ Halt(FALSE)

\* A step over that was given in this context is above its frame.
AboveStepFrame ==
  /\ state = "stepState" /\ stepInfo.stepType = "STOver"
  /\ current = stepInfo.context /\ Frame > stepInfo.stepFrame

NoHalt ==
  /\ pc = "hook"
  /\ Reported => state # "waitForHalt" /\ ~StepTarget
  /\ Executed
  /\ skipped' = IF current = stepInfo.context
                THEN AboveStepFrame /\ (skipped \/ ~Reported)
                ELSE skipped
  /\ UNCHANGED <<state, instruction, stepInfo>>

-----------------------------------------------------------------------------
(***************************************************************************)
(* Client commands.                                                        *)
(***************************************************************************)

PauseRequest ==
  /\ state' = "waitForHalt"
  /\ UNCHANGED <<VM, pc, instruction, stepInfo, Filter>>

Continue ==
  /\ pc = "halted"
  /\ state' = "running"
  /\ instruction' = FALSE
  /\ Executed
  /\ skipped' = FALSE
  /\ UNCHANGED stepInfo

\* Mutant: the frame recorded is the caller's.
ArmedInCaller(type) ==
  [stepType |-> type, stepLine |-> Here.line, context |-> current,
   stepFrame |-> Frame - 1]
\* stepFrame is a uint8_t.
Armed(type) ==
  [stepType |-> type, stepLine |-> Here.line, context |-> current,
   stepFrame |-> Frame % 256]

\* Without an instruction a step command is a continue.
StepCommand ==
  /\ pc = "halted"
  /\ \E type \in StepTypes :
       IF instruction
       THEN state' = "stepState" /\ stepInfo' = Armed(type)
       ELSE state' = "running" /\ stepInfo' = [stepInfo EXCEPT !.stepType = type]
  /\ instruction' = FALSE
  /\ Executed
  /\ skipped' = FALSE

\* A continue or step command that meets a running script.
LateCommand ==
  /\ pc # "halted" /\ state # "running"
  /\ state' = "running"
  /\ \/ UNCHANGED stepInfo
     \/ \E type \in StepTypes : stepInfo' = [stepInfo EXCEPT !.stepType = type]
  /\ UNCHANGED <<VM, pc, instruction, Filter>>

-----------------------------------------------------------------------------
Move == \E c \in Contexts :
  Start(c) \/ Advance(c) \/ Call(c) \/ Scope(c) \/ Return(c) \/ Finish(c)

Next ==
  \/ Move
  \/ HaltForPause \/ HaltForStep \/ HaltAtBreakpoint \/ HaltByScript \/ NoHalt
  \/ PauseRequest \/ Continue \/ StepCommand \/ LateCommand

Spec == Init /\ [][Next]_vars

-----------------------------------------------------------------------------
StepInfos == [stepType : StepTypes, stepLine : Lines \cup {0}, stepFrame : 0..255,
              context : Contexts \cup {"null"}]
Locations == {Location(frame) : frame \in Frames}

TypeOK ==
  /\ callstack \in [Contexts -> Seq(Frames)]
  /\ \A c \in Contexts : Len(callstack[c]) <= MaxDepth[c]
  /\ current \in Contexts
  /\ pc \in {"run", "hook", "halted"}
  /\ state \in {"running", "breakState", "stepState", "waitForHalt"}
  /\ instruction \in BOOLEAN
  /\ stepInfo \in StepInfos
  /\ lastInstruction \in Locations \cup {Nowhere}
  /\ lastContext \in Contexts \cup {"null"}
  /\ skipped \in BOOLEAN
  /\ pc # "run" => callstack[current] # <<>>

\* No frame from the one the step was given in upwards has called the next.
NotCalled ==
  \A i \in (stepInfo.stepFrame + 1)..Frame :
    callstack[current][i].operator \notin Calls

\* "Allow step into to non-call scopes only" (the comment on the test): a step
\* over does not stop in code that the stepped line has called, however many
\* scopes and calls lie in between.  Two ways remain: the frame stepped in has
\* called by "function call", which allowStepInto does not know; or it has
\* opened a scope that the filter has hidden (one that begins on the line shown
\* last), and the call comes from that scope.
StepOverStaysOut ==
  [][/\ HaltForStep /\ stepInfo.stepType = "STOver"
     => \/ NotCalled
        \/ callstack[current][stepInfo.stepFrame + 1].operator = "function call"
        \/ skipped]_vars

\* "Allow step into to non-call scopes only", without exceptions.
StepOverIsNoStepInto ==
  [][HaltForStep /\ stepInfo.stepType = "STOver" => NotCalled]_vars

\* "Allow step in same frame only onto another source line" (the comment on the
\* test): a step over that stops in the frame it was given in has left the line.
StepOverLeavesLine ==
  [][/\ HaltForStep /\ stepInfo.stepType = "STOver"
     /\ Frame = stepInfo.stepFrame
     => Here.line # stepInfo.stepLine]_vars

WantedStop ==
  \/ stepInfo.stepType = "STInto"
  \/ Frame < stepInfo.stepFrame
  \/ stepInfo.stepType = "STOver" /\ Frame = stepInfo.stepFrame
       /\ Here.line # stepInfo.stepLine

\* A wanted stop of a step is hidden by nothing but the line its own context
\* has executed last.  Not so: one filter serves all contexts, and another one
\* may have been on that line of the same document.
StepIsNeverMissed ==
  [][/\ NoHalt /\ state = "stepState" /\ current = stepInfo.context
     /\ WantedStop
     => lastContext = current]_vars
=============================================================================
