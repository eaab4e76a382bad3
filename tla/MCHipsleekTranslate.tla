------------------------ MODULE MCHipsleekTranslate ------------------------
(* Two source files, of five and two lines.                                *)
EXTENDS HipsleekTranslate

MCItems == ({1} \X (1..5)) \cup ({2} \X (1..2))
=============================================================================
