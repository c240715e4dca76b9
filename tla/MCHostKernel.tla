---------------------------- MODULE MCHostKernel ----------------------------
(***************************************************************************)
(* Instances of the kernel for TLC.  Any client frame may be queued, so    *)
(* the initialized notification also stands for a backlog that is not a    *)
(* request.                                                                *)
(***************************************************************************)
EXTENDS HostSnapshot

Frame(m, i, b) == [method |-> m, id |-> i, body |-> b]

\* Two calls and the public handshake: three invocations can be pending at
\* once, recovered together and answered late.
MCIds == {"a", "b", "c"}

MCFrames ==
    {Frame("initialize", "a", 1), Frame("initialized", "-", 1),
     Frame("call", "b", 1), Frame("call", "c", 1)}

\* Two initializes that differ in their payload, and a call that shares their
\* id.
MCSessionFrames ==
    {Frame("initialize", "a", 1), Frame("initialize", "a", 2),
     Frame("initialized", "-", 1), Frame("call", "a", 1)}
=============================================================================
