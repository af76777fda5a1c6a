---------------------------- MODULE MCReadOfpMsg ----------------------------
(* A stream for TLC, with a header of two bytes: messages with a body, a    *)
(* bare header, and a header that declares less than itself.                *)
EXTENDS ReadOfpMsg

Lengths == <<4, 1, 2, 5, 3>>
Starts  == <<0, 4, 6, 8, 13, 16>>
=============================================================================
