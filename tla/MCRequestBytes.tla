-------------------------- MODULE MCRequestBytes --------------------------
(* RequestBytes for TLC *)
EXTENDS RequestBytes

CONSTANTS
  InputLength,  \* bytes the client may send
  OutputLength  \* bytes a program may print at most

MCInputs == [1 .. InputLength -> Bytes]
MCOutputs == {o \in [n: 0 .. OutputLength, head: 0 .. OutputLength,
                     first: {"Status", "Location", "other"}] : o.head <= o.n}
=============================================================================
