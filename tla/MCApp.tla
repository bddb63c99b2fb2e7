-------------------------------- MODULE MCApp --------------------------------
(* Instances of App for TLC. *)
EXTENDS App

Waiting == {"wait", "sleep"}
WholeRun == InRun \ {"deregister"}
Never == {}
BothPlatforms == {"posix", "windows"}
Posix == {"posix"}
=============================================================================
