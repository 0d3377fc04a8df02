------------------------------ MODULE MCSignIn ------------------------------
(***************************************************************************)
(* Instances of SignIn for TLC, and bytes for what its passkey sends.      *)
(***************************************************************************)
EXTENDS SignIn, TLC

\* Processes, keys and users are interchangeable.
Symmetry == Permutations(Proc) \cup Permutations(Key) \cup Permutations(User)

\* Bytes that look like heads, like nothing and like one another.
Repeated(byte, n) == [j \in 1..n |-> byte]
MCAAGUID == <<154, 113, 0, 30, 17, 0, 75, 30, 0, 0, 81, 81, 0, 0, 0, 0>>
MCHash == Repeated(165, 32)
MCCoordinates == {Repeated(0, 32), Repeated(255, 32), [j \in 1..32 |-> 7 * j]}
MCCredentials == {<<>>, Repeated(88, 32), Repeated(3, 300)}
\* On either side of every width.
MCLengths == {0, 1, 23, 24, 25, 255, 256, 257, 65535, 65536, 16777215, 16777216, 2147483647}
MCNone == {}
=============================================================================
