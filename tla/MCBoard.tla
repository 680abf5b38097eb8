------------------------------ MODULE MCBoard ------------------------------
(* The board at a voltage over the threshold and at one just below 0 V.    *)
EXTENDS Board

FewVolts == {20001, -1}
============================================================================
