----------------------------- MODULE Stacktrace -----------------------------
(***************************************************************************)
(* What an event says of the place it was captured at (stacktrace.go):     *)
(* which frames are kept, which are the application's, the lines of source *)
(* around them, the name a message gets, and the two fingerprints.         *)
(*                                                                         *)
(* A frame is a record: its module and function, the line and the number   *)
(* of lines of the source file as deployed (0 without the source), and     *)
(* what isInApp and isBareRuntimeFrame look at, its place:                 *)
(*   "app"      a package of the application                               *)
(*   "pkgmod"   the same, in a directory like pkg/models                   *)
(*   "std"      the standard library                                       *)
(*   "runtime"  runtime, reflect, testing                                  *)
(*   "bare"     runtime.gopanic, goexit, sigpanic, morestack, newstack     *)
(*   "dep"      a dependency, in go/pkg/mod or in vendor                   *)
(*   "sdk"      this module                                                *)
(***************************************************************************)
EXTENDS Selection

Places == {"app", "pkgmod", "std", "runtime", "bare", "dep", "sdk"}

\* Mutant of IsInApp: the SDK's own frames are taken for the application's.
IsInAppOrSDK(place) == place \in {"app", "std", "sdk"}

\* isInApp.  A path with "pkg/mod" in it counts as the module cache.
IsInApp(place) == place \in {"app", "std"}

\* Mutant of SourceContext: the first line of a file is taken to be line 0.
SourceContextFromZero(lines, line, n) ==
  LET lower == IF line < n THEN 0 ELSE line - n
      upper == IF line + n > lines - 1 THEN lines - 1 ELSE line + n
  IN IF line < 0 \/ line >= lines THEN {}
     ELSE {[line |-> i + 1, current |-> i = line] : i \in lower .. upper}

\* readSourceContext.
SourceContext(lines, line, n) ==
  LET index == line - 1
      lower == IF index < n THEN 0 ELSE index - n
      upper == IF index + n > lines - 1 THEN lines - 1 ELSE index + n
  IN IF index < 0 \/ index >= lines THEN {}
     ELSE {[line |-> i + 1, current |-> i = index] : i \in lower .. upper}

\* One turn of the loop of captureStacktrace.
StackFrame(f) ==
  [module |-> f.module, function |-> f.function, line |-> f.line, inApp |-> IsInApp(f.place),
   context |-> IF IsInApp(f.place) /\ f.line > 0 THEN SourceContext(f.lines, f.line, 4) ELSE {}]

\* captureStacktrace, from the program counters that runtime.Callers gives.
CaptureStacktrace(pcs) ==
  LET kept == Select(pcs, {i \in DOMAIN pcs : pcs[i].place # "bare"})
  IN [i \in DOMAIN kept |-> StackFrame(kept[i])]

InAppFrames(frames) == Select(frames, {i \in DOMAIN frames : frames[i].inApp})

\* callerFunctionName.
CallerFunctionName(frames) ==
  IF InAppFrames(frames) = <<>> THEN "CaptureMessage" ELSE InAppFrames(frames)[1].function

\* What is hashed of the frames: a module and a function each, with separators that
\* neither can hold, so that a hash stands for the sequence of its parts.
Parts(frames) ==
  [i \in 1 .. 2 * Len(frames) |->
     IF i % 2 = 1 THEN frames[(i + 1) \div 2].module ELSE frames[i \div 2].function]

ComputeGroupingHash(type, frames) == <<type>> \o Parts(InAppFrames(frames))

ComputeAllFramesGroupingHash(type, frames) == <<"all", type>> \o Parts(frames)
=============================================================================
