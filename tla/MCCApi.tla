------------------------------- MODULE MCCApi -------------------------------
(***************************************************************************)
(* A small instance of CApi for TLC.  The program's variables are          *)
(* interchangeable, and no property of CApi is about liveness.             *)
(***************************************************************************)
EXTENDS CApi, TLC

CONSTANTS h1, h2, d1

TwoHandles == {h1, h2}
OneProduct == {d1}

(* A buffer after the name, large enough, or not, or empty; one that begins*)
(* at the name's terminator; one before the name, and one that ends at it; *)
(* no name, no buffer, a name that does not end.                           *)
Args(x, length, y, size) == [name |-> x, length |-> length, buffer |-> y, size |-> size]
SomeArgs ==
    {Args(1, 0, 2, 2), Args(1, 0, 2, 1), Args(1, 0, 2, 0), Args(1, 1, 2, 2),
     Args(4, 0, 1, 2), Args(3, 0, 1, 2),
     Args(NULL, 0, 2, 2), Args(1, 0, NULL, 2), Args(1, 2, 4, 2)}

Interchangeable == Permutations(TwoHandles)
=============================================================================
