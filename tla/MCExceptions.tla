---------------------------- MODULE MCExceptions ----------------------------
(* Small instances of Exceptions for TLC.                                   *)
EXTENDS Exceptions, TLC

CONSTANTS error, cannot

\* Error handles everything, BlockCannotReturn itself only.
MCHandles == {<<error, error>>, <<error, cannot>>, <<cannot, cannot>>}
Symmetry == Permutations(Exception)
=============================================================================
