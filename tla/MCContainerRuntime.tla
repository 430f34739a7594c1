------------------------- MODULE MCContainerRuntime -------------------------
(* Constants for model checking the container's plugins.                   *)
EXTENDS ContainerRuntime

CONSTANTS one, two

MCSessions == {one, two}
=============================================================================
