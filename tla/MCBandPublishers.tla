-------------------------- MODULE MCBandPublishers --------------------------
(* Two decimals, one of them on the wire: prices 2.24 and 2.28 are equal    *)
(* there, and quantity 0.05 is 0.  With 16 bits the products of two such    *)
(* numbers do not fit, as those of two numbers above 13 do not fit in 128.  *)
EXTENDS BandPublishers

MCPrice == {224, 228, 230, 240}
MCQuantity == {5, 150}
MCOffset == {0, 1, 5}
MCThreshold == {330, 345, 675}
=============================================================================
