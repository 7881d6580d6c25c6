------------------------------- MODULE MCBinkp -------------------------------
\* Model-checking instances of Binkp: two mailers, a and b.
EXTENDS Binkp, TLC

CONSTANTS a, b, f1, f2, g1

MCNodes == {a, b}

MCPeer == a :> b @@ b :> a

MCFiles == {f1, f2, g1}
MCOwner == f1 :> a @@ f2 :> a @@ g1 :> b
MCSize == f1 :> 2 @@ f2 :> 2 @@ g1 :> 1

\* A file that is longer than the others.
MCLonger == f1 :> 2 @@ f2 :> 3 @@ g1 :> 1

MCPair == {f1, g1}
MCPairOwner == f1 :> a @@ g1 :> b
MCPairSize == f1 :> 2 @@ g1 :> 1

Binkp11 == [n \in MCNodes |-> 1]
Binkp10 == [n \in MCNodes |-> 0]

\* Nothing is left of earlier sessions.
MCClean == [f \in MCFiles |-> {<<>>}]

\* Parts of the file or of older ones with the same names.  They differ in length.
MCOlder ==
  f1 :> {<<>>, << <<f1, 1>> >>, << <<f1, 0>> >>} @@ f2 :> {<<>>, << <<f2, 0>>, <<f2, 0>> >>} @@ g1 :> {<<>>}

\* Part of the file, or of an older one, of the same length wherever there is one.
MCPartial ==
  [f \in MCFiles |-> {<<>>} \cup (IF MCSize[f] = 2
                       THEN {<< <<f, 1>> >>, << <<f, 0>> >>} ELSE {})]

MCPrefix ==
  [f \in MCFiles |-> {<<>>} \cup (IF MCSize[f] = 2 THEN {<< <<f, 1>> >>} ELSE {})]

\* All files can be read, or g1 not in the first batch and f2 no more in later ones:
\* when f2 is refused in the first, it stays queued.
MCReadable == [k \in 0..BatchLimit |-> {}]
MCUnreadable == [k \in 0..BatchLimit |-> IF k = 0 THEN {g1} ELSE {f2}]
==============================================================================
