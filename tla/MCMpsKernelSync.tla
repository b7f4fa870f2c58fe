--------------------------- MODULE MCMpsKernelSync ---------------------------
EXTENDS MpsKernelSync

CONSTANTS s1, s2

R(s) == [storage |-> s, access |-> "Read"]
W(s) == [storage |-> s, access |-> "Write"]

\* A reader, a writer, and an update in place given as two fields of one storage
\* (a ReadWrite field has the effects of both).  The second storage is built on
\* the buffer of the first.
Kernels == {<<R(s1)>>, <<W(s1)>>, <<R(s2), W(s2)>>}
==============================================================================
