----------------------------- MODULE MCChannels -----------------------------
(* Files of up to three bytes, and some of four.                             *)
EXTENDS Channels

MCFiles   == {<<>>, <<"a">>, <<"a", "r">>, <<"r", "n">>, <<"L", "T">>, <<"a", "n", "a">>, <<"r", "r", "n">>,
              <<"a", "r", "n">>, <<"n", "L", "T">>, <<"a", "L", "T", "n">>, <<"r", "a", "r", "n">>, <<"r", "L", "X">>}
MCTexts   == {<<"a">>, <<"n">>, <<"a", "n", "a">>, <<Wide>>}
MCOffsets == {-1, 0, 1}
MCCounts  == {1, 2, All}
=============================================================================
