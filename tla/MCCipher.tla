------------------------------ MODULE MCCipher ------------------------------
(* Cipher for every length up to two chunks and a block.                   *)
EXTENDS Cipher
MCLengths == 0 .. 2 * Chunk + Block
=============================================================================
