------------------------------ MODULE MCDocuments -----------------------------
(* Documents on byte strings that reach the edges of the codecs: zero bytes *)
(* in front, carries through every byte, one byte and many.                *)
EXTENDS Documents

Fill(n, b) == [i \in 1..n |-> b]
SampleKeys == {<<0, 1, 2, 253>>}
SampleSignatures == {<<0, 58, 57>>, <<255, 255, 255>>, Fill(4, 0) \o Fill(8, 255)}
===============================================================================
