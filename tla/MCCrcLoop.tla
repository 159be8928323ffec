------------------------------ MODULE MCCrcLoop ------------------------------
(* CrcLoop with payloads of at most two of the bytes that are fed.         *)
EXTENDS CrcLoop

MCPayloads == UNION {[1 .. n -> FedBytes] : n \in 0 .. 2}
===============================================================================
