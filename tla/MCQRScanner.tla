----------------------------- MODULE MCQRScanner -----------------------------
(* Texts for QRScanner: every order of up to three markers, and of four    *)
(* when none of the three is missing.                                      *)
EXTENDS QRScanner

MCTexts ==
  UNION {[1 .. n -> Marker] : n \in 0 .. 3} \cup {text \in [1 .. 4 -> Marker] : HasFields(text)}
=============================================================================
