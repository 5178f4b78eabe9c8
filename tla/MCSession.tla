----------------------------- MODULE MCSession ------------------------------
(* Instances of Session for TLC: a thread profiler with one stream and one *)
(* sampler with two (or, for liveness, with one).                          *)
EXTENDS Session

CONSTANT walltime

OneStream  == <<1, 1>>
TwoStreams == <<1, 2>>
Sampler    == <<NoEvent, walltime>>
=============================================================================
