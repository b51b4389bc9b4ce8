----------------------------- MODULE MCSmqCodec -----------------------------
(***************************************************************************)
(* Small instances of SmqCodec for TLC.                                    *)
(***************************************************************************)
EXTENDS SmqCodec

National(d) == [plus |-> FALSE, digits |-> d]
Plus(d) == [plus |-> TRUE, digits |-> d]

MCToNumbers == {National(<<1, 0, 1>>), Plus(<<4, 9, 1, 7>>), National(<<10, 9, 11, 0>>),
                 Plus([i \in 1..19 |-> i % 10])}
MCFromNumbers == {National(<<7, 0, 2>>), National(<<2, 1, 0, 1>>)}
MCPlusNumbers == {Plus(<<4, 9, 1, 7>>)}
MCSmscs == {National(<<0, 0, 0>>), Plus(<<1, 2>>)}
MCOneSmsc == {National(<<0, 0, 0>>)}

\* "@", "?" and letters, as many as make the packing end at each bit of an octet.
Letters(n) == [i \in 1..n |-> <<64, 122, 63, 246, 65, 32, 36, 225, 95>>[i]]
\* 152 fill the user data after a header of 6 octets, and 160 without one.
Filling(n) == [i \in 1..n |-> IF i % 11 = 0 THEN 64 ELSE 65 + (i % 26)]
MCTexts == {Letters(n) : n \in {0, 1, 2, 6, 7, 8, 9}} \cup {Filling(152), Filling(160)}
           \cup {EasterEgg \o t : t \in {<<54, 53, 33>>, <<32, 45, 49>>, <<43, 33>>}}
MCOneText == {Letters(3)}
MCLongText == {[i \in 1..257 |-> 65]}
MCHeaders == {0, 5, 6}
MCNoHeader == {0}
MCSchemes == {0, 245, 8}
MCDefault == {0}
MCFormats == {0, 2}
MCEnhanced == {1}
MCAbsolute == {3}
MCPids == {0, 64}
MCTimes == {[year |-> 2014, month |-> 12, day |-> 9, hour |-> 23, min |-> 5, sec |-> 59,
             gmtoff |-> -12600],
            [year |-> 2007, month |-> 1, day |-> 31, hour |-> 0, min |-> 40, sec |-> 0,
             gmtoff |-> 45900]}
=============================================================================
