------------------------ MODULE MCBuildExecutables ------------------------
(***************************************************************************)
(* Three invocations, two output directories, --goos and --goarch unset or *)
(* set, and a process environment that may already carry GOOS/GOARCH.      *)
(***************************************************************************)
EXTENDS BuildExecutables

MCEnvirons == [goos : {"", "linux"}, goarch : {"", "amd64"}]

=============================================================================
