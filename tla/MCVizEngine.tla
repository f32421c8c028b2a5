------------------------------ MODULE MCVizEngine ------------------------------
(***************************************************************************)
(* Three threads, so that two can wait while the third initialises; two    *)
(* directories, so that the calls disagree about the paths; at most one    *)
(* entry in plugin_dirs, possibly the empty one; and one initialisation    *)
(* that throws, before or after the engine was started.  The images have   *)
(* at most three dimensions of at most seven, and SizeT is 8: the largest  *)
(* have all the elements a size_t can count, some have none, and some of   *)
(* those, as 7 by 7 by 0, have leading dimensions whose product wraps.     *)
(***************************************************************************)
EXTENDS VizEngine

Sizes(shape) == [k \in 0 .. Len(shape) |->
                   CASE k = 0 -> 1
                     [] k = 1 -> shape[1]
                     [] k = 2 -> shape[1] * shape[2]
                     [] k = 3 -> shape[1] * shape[2] * shape[3]]

MCImage == {image \in {[shape |-> shape, size |-> Sizes(shape)] :
                          shape \in UNION {[1 .. n -> {0, 1, 3, 7}] : n \in 1 .. 3}} :
              image.size[Len(image.shape)] < SizeT}
================================================================================
