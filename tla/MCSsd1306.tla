----------------------------- MODULE MCSsd1306 -----------------------------
(* A panel of three short rows.                                            *)
EXTENDS Ssd1306

FewTexts == {<<"V", "7", "!">>}
============================================================================
