---------------------------- MODULE CipherProofs ----------------------------
(***************************************************************************)
(* Proofs about Cipher, for pictures of any length.  The invariant Ind     *)
(* says where all the bytes are: in pc = "encrypt" those no longer left are *)
(* in the buffer, in whole blocks; in pc = "decrypt" the ciphertext is what *)
(* is left to read, what is held back and what was written.                *)
(***************************************************************************)
EXTENDS Cipher, TLAPS

\* What a message of m bytes is, once all of it is there.
Message(m) ==
  IF plain = Nothing THEN m = Marker
  ELSE /\ m = Header + plain + padN /\ (plain + padN) % Block = 0
       /\ padN \in 1 .. Block

Ind ==
  /\ TypeOK
  /\ key \in {0, conn} /\ (pc # "ask" => conn > 0)
  /\ pc = "encrypt" =>
       /\ plain # Nothing /\ padN = 0 /\ left <= plain
       /\ (plain - left) % Block = 0 /\ buf = Header + plain - left
  /\ pc = "flush" => Message(buf)
  /\ pc = "receive" => Message(ln)
  /\ pc = "decrypt" =>
       /\ plain # Nothing /\ Message(ln) /\ key = conn
       /\ rest % Block = 0 /\ (plain + padN - rest) % Chunk = 0
       /\ rest + prev + out = plain + padN
  /\ GivesBack

\* The arithmetic of the padding: it fills the last chunk up to whole blocks.
LEMMA PaddingFills ==
  ASSUME NEW n \in Nat, NEW last \in BOOLEAN
  PROVE  /\ Padding(n, last) \in 0 .. Block
         /\ (n + Padding(n, last)) % Block = 0
         /\ last => Padding(n, last) \in 1 .. Block
BY DEF Padding, Block

\* Whole blocks and whole blocks are whole blocks.
LEMMA BlocksAdd ==
  ASSUME NEW a \in Int, NEW b \in Int, a % 16 = 0, b % 16 = 0
  PROVE  (a + b) % 16 = 0
OBVIOUS

LEMMA Initially == Init => Ind
BY ConnsAssumption
   DEF Init, Ind, TypeOK, GivesBack, Nothing, Block, Chunk

\* The end of a round, for whatever reason.
LEMMA Asking ==
  ASSUME Ind, AskAgain, conn' \in 0 .. MaxConns, key' \in {0, conn'}
  PROVE  Ind'
BY ConnsAssumption
   DEF Ind, AskAgain, TypeOK, GivesBack, Nothing, Block, Chunk

\* Every step preserves the invariant.
THEOREM Preserved == Ind /\ [Next]_vars => Ind'
<1> SUFFICES ASSUME Ind, [Next]_vars PROVE Ind'
  OBVIOUS
<1>0. conn \in Nat /\ MaxConns \in Nat
  BY ConnsAssumption DEF Ind, TypeOK
<1> USE LengthsAssumption, ConnsAssumption
<1>1. CASE Reconnect
  BY <1>0, <1>1, Asking DEF Reconnect, NewKey
<1>2. CASE NothingNew
  BY <1>2 DEF NothingNew, Ind, TypeOK, GivesBack, Message, clientVars,
     Nothing, Block, Chunk, Marker
<1>3. CASE Encrypt
  <2>1. PICK p \in Lengths : plain' = p
    BY <1>3 DEF Encrypt
  <2>2. /\ plain' = p /\ p \in Nat /\ left' = p /\ (p - p) % 16 = 0
        /\ padN' = 0 /\ buf' = 79 /\ pc' = "encrypt" /\ conn > 0
        /\ UNCHANGED <<conn, ln, key, rest, prev, out>>
    BY <1>3, <2>1 DEF Encrypt, clientVars, Block, Header
  <2> QED
    BY <2>1, <2>2 DEF Ind, TypeOK, GivesBack, Nothing, Block, Chunk, Header
<1>4. CASE EncryptChunk
  <2>1. /\ left \in Nat /\ plain \in Nat /\ left <= plain /\ padN = 0
        /\ (plain - left) % 16 = 0 /\ buf = 79 + plain - left
        /\ plain # -1 /\ conn > 0 /\ pc = "encrypt"
    BY <1>4 DEF EncryptChunk, Ind, TypeOK, Block, Header, Nothing
  <2>2. PICK n \in Nat : n = Read(left)
    BY <2>1 DEF Read, Chunk
  <2>a. Last(left) \in BOOLEAN
    BY <2>1 DEF Last, Chunk
  <2>b. /\ Padding(n, Last(left)) \in 0 .. Block
        /\ (n + Padding(n, Last(left))) % Block = 0
        /\ Last(left) => Padding(n, Last(left)) \in 1 .. Block
    BY <2>2, <2>a, PaddingFills
  <2>3. PICK pad \in 0 .. 16 : pad = Padding(n, Last(left))
    BY <2>b DEF Block
  <2>4. /\ n <= left /\ (n + pad) % 16 = 0
        /\ Last(left) => n = left /\ pad \in 1 .. 16
        /\ ~Last(left) => n = 800 /\ pad = 0
    <3>1. (n + pad) % 16 = 0
      BY <2>b, <2>3 DEF Block
    <3>2. Last(left) => n = left /\ pad \in 1 .. 16
      BY <2>b, <2>2, <2>3 DEF Block, Last, Read
    <3>3. ~Last(left) => n = 800 /\ pad = 0
      BY <2>1, <2>2, <2>3 DEF Last, Read, Chunk, Padding, Block
    <3> QED BY <2>1, <2>2, <3>1, <3>2, <3>3 DEF Read, Chunk
  <2>5. /\ left' = left - n /\ padN' = pad /\ buf' = buf + n + pad
        /\ pc' = IF Last(left) THEN "flush" ELSE "encrypt"
        /\ UNCHANGED <<conn, plain, ln, key, rest, prev, out>>
    BY <1>4, <2>1, <2>2, <2>3 DEF EncryptChunk, clientVars
  <2>6. CASE Last(left)
    <3>0. n = left /\ pad \in 1 .. 16 /\ (n + pad) % 16 = 0
      BY <2>4, <2>6
    <3>1. plain + pad = (plain - left) + (n + pad)
      BY <2>1, <3>0
    <3>2. (plain + pad) % 16 = 0
      BY <2>1, <3>0, <3>1, BlocksAdd
    <3>3. /\ left' = 0 /\ padN' = pad /\ buf' = 79 + plain + pad
          /\ pc' = "flush" /\ pad \in 1 .. 16
      BY <2>1, <3>0, <2>5, <2>6
    <3> QED
      BY <2>1, <2>5, <3>2, <3>3
         DEF Ind, TypeOK, GivesBack, Message, Nothing, Block, Chunk, Header
  <2>7. CASE ~Last(left)
    <3>1. plain - (left - n) = (plain - left) + (n + pad)
      BY <2>1, <2>4, <2>7
    <3>2. (plain - (left - n)) % 16 = 0
      BY <2>1, <2>4, <3>1, BlocksAdd
    <3>3. /\ left' = left - n /\ left - n \in Nat /\ padN' = 0
          /\ buf' = 79 + plain - (left - n) /\ pc' = "encrypt"
      BY <2>1, <2>4, <2>5, <2>7
    <3> QED
      BY <2>1, <2>5, <3>2, <3>3
         DEF Ind, TypeOK, GivesBack, Message, Nothing, Block, Chunk, Header
  <2> QED BY <2>6, <2>7
<1>5. CASE Flush
  BY <1>5 DEF Flush, Ind, TypeOK, GivesBack, Message, clientVars,
     Nothing, Block, Chunk
<1>6. CASE Skip
  BY <1>0, <1>6, Asking DEF Skip, Ind, TypeOK
<1>7. CASE Decrypt
  <2>1. /\ plain \in Nat /\ plain # -1 /\ padN \in 1 .. 16
        /\ ln = 79 + plain + padN /\ (plain + padN) % 16 = 0
        /\ rest' = plain + padN /\ prev' = 0 /\ out' = 0 /\ conn > 0
        /\ key' = conn /\ pc = "receive" /\ pc' = "decrypt"
        /\ UNCHANGED <<conn, plain, left, padN, buf, ln>>
    BY <1>7 DEF Decrypt, UsedKey, Ind, TypeOK, Message, serverVars, Nothing, Block,
       Header
  <2> QED
    BY <2>1 DEF Ind, TypeOK, GivesBack, Message, Nothing, Block, Chunk, Header
<1>8. CASE DecryptChunk
  <2> DEFINE n == Read(rest)
  <2>1. /\ rest \in Nat /\ prev \in Nat /\ out \in Nat /\ plain \in Nat
        /\ padN \in 1 .. 16 /\ rest + prev + out = plain + padN
        /\ rest % 16 = 0 /\ (plain + padN - rest) % 800 = 0
        /\ ln = 79 + plain + padN /\ (plain + padN) % 16 = 0
        /\ plain # -1 /\ conn > 0 /\ key = conn /\ pc = "decrypt"
    BY <1>8 DEF DecryptChunk, Ind, TypeOK, Message, Nothing, Block, Chunk,
       Header
  <2>2. /\ n \in 0 .. 800 /\ n <= rest /\ Last(rest) \in BOOLEAN
        /\ Last(rest) => n = rest
        /\ ~Last(rest) => n = 800
    BY <2>1 DEF Read, Last, Chunk
  <2>3. /\ rest' = rest - n /\ prev' = n
        /\ pc' = IF Last(rest) THEN "got" ELSE "decrypt"
        /\ out' = out + prev + IF Last(rest) THEN n - CutOff(n) ELSE 0
        /\ UNCHANGED <<conn, key, plain, left, padN, buf, ln>>
    BY <1>8 DEF DecryptChunk, serverVars
  <2>4. CASE Last(rest)
    <3>1. CASE n = 0
      <4>1. out' = plain + padN /\ (ln - 79) % 800 = 0
        BY <2>1, <2>2, <2>3, <2>4, <3>1 DEF CutOff
      <4> QED
        BY <2>1, <2>2, <2>3, <2>4, <3>1, <4>1
           DEF Ind, TypeOK, GivesBack, Message, Nothing, Block, Chunk, Header
    <3>2. CASE n # 0
      <4>1. out' = plain
        BY <2>1, <2>2, <2>3, <2>4, <3>2 DEF CutOff
      <4> QED
        BY <2>1, <2>2, <2>3, <2>4, <3>2, <4>1
           DEF Ind, TypeOK, GivesBack, Message, Nothing, Block, Chunk, Header
    <3> QED BY <3>1, <3>2
  <2>5. CASE ~Last(rest)
    <3>1. /\ rest' \in Nat /\ rest' % 16 = 0 /\ out' = out + prev
          /\ (plain + padN - rest') % 800 = 0
          /\ rest' + prev' + out' = plain + padN
      BY <2>1, <2>2, <2>3, <2>5
    <3> QED
      BY <2>1, <2>2, <2>3, <2>5, <3>1
         DEF Ind, TypeOK, GivesBack, Message, Nothing, Block, Chunk, Header
  <2> QED BY <2>4, <2>5
<1>9. CASE Deliver
  BY <1>0, <1>9, Asking DEF Deliver, Ind, TypeOK
<1>10. CASE UNCHANGED vars
  BY <1>10 DEF vars, Ind, TypeOK, GivesBack, Message
<1> QED
  BY <1>1, <1>2, <1>3, <1>4, <1>5, <1>6, <1>7, <1>8, <1>9, <1>10 DEF Next

\* The invariant implies what the runs check.
LEMMA Implied == Ind => TypeOK /\ GivesBack /\ WholeBlocks /\ RightKey
<1> SUFFICES ASSUME Ind PROVE TypeOK /\ GivesBack /\ WholeBlocks /\ RightKey
  OBVIOUS
<1>1. TypeOK /\ GivesBack
  BY DEF Ind
<1>2. plain # Nothing => plain \in Nat
  BY LengthsAssumption DEF Ind, TypeOK
<1>3. WholeBlocks
  BY <1>1, <1>2 DEF Ind, TypeOK, WholeBlocks, Message, Block, Header
<1>4. RightKey
  BY <1>1, <1>2 DEF Ind, RightKey, Message, Nothing, Block, Header, Marker
<1> QED BY <1>1, <1>3, <1>4

LEMMA Always == Spec => []Ind
BY Initially, Preserved, PTL DEF Spec

\* Every variable keeps its range, whatever the lengths are.
THEOREM TypeCorrect == Spec => []TypeOK
BY Always, Implied, PTL

\* A picture comes out as it went in, whatever its length, but for the
\* padding of ciphertexts of whole chunks.
THEOREM PicturesGivenBack == Spec => []GivesBack
BY Always, Implied, PTL

\* Only whole blocks are encrypted and decrypted.
THEOREM BlocksWhole == Spec => []WholeBlocks
BY Always, Implied, PTL

\* The key belongs to the connection, the marker to "nothing new".
THEOREM KeyRight == Spec => []RightKey
BY Always, Implied, PTL
=============================================================================
