------------------------- MODULE BuildExecutables -------------------------
(***************************************************************************)
(* "apiserver-boot build executables" (RunBuildExecutables, package build *)
(* at the end of parser.go): optionally regenerate the code, then build    *)
(* the apiserver and then the controller-manager with "go build", each     *)
(* into the output directory.  Each external step succeeds or ends the     *)
(* process with log.Fatal; the command may be run again afterwards.  A     *)
(* binary is recorded as the invocation that built it and its build env.   *)
(***************************************************************************)
EXTENDS Naturals

CONSTANTS
  MaxRuns,     \* invocations of the command considered
  OutputDirs,  \* values of --output
  GoosFlags,   \* values of --goos ("" leaves the environment's)
  GoarchFlags, \* values of --goarch ("" leaves the environment's)
  Environs     \* the GOOS/GOARCH the process inherits (os.Environ())

Binaries == {"apiserver", "controller-manager"}

NoBinary == [run |-> 0, env |-> [cgo |-> "", goos |-> "", goarch |-> ""]]

VARIABLES
  run,        \* the invocations so far
  pc,         \* "Idle" between invocations, else the step to run next
  flags,      \* the flags of the current invocation
  environ,    \* the GOOS/GOARCH of the current process's environment
  generated,  \* the invocation that last regenerated the code (0: none)
  bin,        \* OutputDirs -> Binaries -> what is on disk
  lastExit    \* "ok" or "fatal": how the last invocation ended

vars == <<run, pc, flags, environ, generated, bin, lastExit>>

Init ==
  /\ run = 0
  /\ pc = "Idle"
  /\ flags = [generate |-> TRUE, goos |-> "", goarch |-> "", output |-> "bin"]
  /\ environ = [goos |-> "", goarch |-> ""]
  /\ generated = 0
  /\ bin = [d \in OutputDirs |-> [b \in Binaries |-> NoBinary]]
  /\ lastExit = "ok"

\* A new invocation with any flags: --generate, --goos, --goarch, --output
Invoke ==
  /\ pc = "Idle" /\ run < MaxRuns
  /\ run' = run + 1
  /\ \E g \in BOOLEAN, os \in GoosFlags, arch \in GoarchFlags, out \in OutputDirs,
       e \in Environs :
       /\ flags' = [generate |-> g, goos |-> os, goarch |-> arch, output |-> out]
       /\ environ' = e
       /\ pc' = IF g THEN "Generate" ELSE "BuildApiserver"
  /\ UNCHANGED <<generated, bin, lastExit>>

\* The process ends with log.Fatal
Fatal == /\ pc' = "Idle"
         /\ lastExit' = "fatal"
         /\ UNCHANGED <<run, flags, environ, generated, bin>>

\* RunGenerate
Generate ==
  /\ pc = "Generate"
  /\ \/ /\ generated' = run
        /\ pc' = "BuildApiserver"
        /\ UNCHANGED <<run, flags, environ, bin, lastExit>>
     \/ Fatal

\* A variable appended to c.Env overrides the inherited one (exec keeps the
\* last value of a key); an empty flag appends nothing.
Setenv(flag, inherited) == IF flag # "" THEN flag ELSE inherited

\* c.Env of the apiserver build
ApiserverEnv ==
  [cgo |-> "0", goos |-> Setenv(flags.goos, environ.goos),
   goarch |-> Setenv(flags.goarch, environ.goarch)]

\* Bug variant: the controller-manager block does not append GOARCH
ControllerManagerEnvNoGoarch ==
  [cgo |-> "0", goos |-> Setenv(flags.goos, environ.goos), goarch |-> environ.goarch]

\* c.Env of the controller-manager build, written again in its own block
ControllerManagerEnv ==
  [cgo |-> "0", goos |-> Setenv(flags.goos, environ.goos),
   goarch |-> Setenv(flags.goarch, environ.goarch)]

\* go build -o <output>/<name>: the binary is replaced
Built(name, env) ==
  [bin EXCEPT ![flags.output][name] = [run |-> run, env |-> env]]

BuildApiserver ==
  /\ pc = "BuildApiserver"
  /\ \/ /\ bin' = Built("apiserver", ApiserverEnv)
        /\ pc' = "BuildControllerManager"
        /\ UNCHANGED <<run, flags, environ, generated, lastExit>>
     \/ Fatal

BuildControllerManager ==
  /\ pc = "BuildControllerManager"
  /\ \/ /\ bin' = Built("controller-manager", ControllerManagerEnv)
        /\ pc' = "Idle"
        /\ lastExit' = "ok"
        /\ UNCHANGED <<run, flags, environ, generated>>
     \/ Fatal

Next == Invoke \/ Generate \/ BuildApiserver \/ BuildControllerManager

Spec == Init /\ [][Next]_vars

-----------------------------------------------------------------------------
\* When an invocation exits successfully, its output directory holds an
\* apiserver and a controller-manager both built by it, with CGO disabled,
\* for the same GOOS/GOARCH, which are the ones --goos/--goarch asked for
\* when given; with --generate they were built from the code it
\* regenerated.  The two "go build" blocks of RunBuildExecutables set up
\* their environments separately, so this compares the two.
SuccessfulBuildConsistent ==
  (pc = "Idle" /\ run > 0 /\ lastExit = "ok") =>
    LET a == bin[flags.output]["apiserver"]
        c == bin[flags.output]["controller-manager"]
    IN /\ a.run = run /\ c.run = run
       /\ a.env = c.env
       /\ a.env.cgo = "0"
       /\ flags.goos # "" => a.env.goos = flags.goos
       /\ flags.goarch # "" => a.env.goarch = flags.goarch
       /\ flags.generate => generated = run

=============================================================================
