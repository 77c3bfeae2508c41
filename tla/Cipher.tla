------------------------------- MODULE Cipher -------------------------------
(***************************************************************************)
(* A picture on its way from conn to Connect: encrypted in chunks into the *)
(* countWriter, sent with its length, and decrypted in chunks.  The server *)
(* has an ImmutableKeyEncrypter per connection, which draws one salt; the  *)
(* client has an ImmutableKeyDecrypter per connection, which derives the   *)
(* key from the first message and keeps it.                                *)
(*                                                                         *)
(* Contents are left out, lengths are not: the padding says its own length *)
(* in each of its bytes, so lengths decide what is cut off.  A key is the  *)
(* number of the connection whose salt it was made from.                   *)
(***************************************************************************)
EXTENDS Integers

CONSTANTS
  Lengths,      \* of pictures, in bytes
  MaxConns      \* bound: connections one after the other

ASSUME LengthsAssumption == Lengths \subseteq Nat
ASSUME ConnsAssumption == MaxConns \in Nat

Block  == 16                    \* aes.BlockSize
Chunk  == 800                   \* 50 blocks
Header == 1 + 2 + 60 + Block    \* cost, size of the salt, salt and iv
Marker == 3                     \* bytes that say "nothing new"
Nothing == -1                   \* the length of no picture

VARIABLES
  pc,           \* what the two do next: they take turns (Session)
  conn,         \* the connection
  key,          \* the decrypter's key, or 0 for nil
  plain,        \* length of the picture under way
  left,         \* bytes of it that are not encrypted yet
  padN,         \* bytes of padding it got
  buf,          \* bytes in the buffer of the countWriter
  ln,           \* the length sent ahead of a message
  rest,         \* bytes that are not decrypted yet
  prev,         \* bytes decrypted and held back
  out           \* bytes written for the view

serverVars == <<plain, left, padN, buf, ln>>
clientVars == <<key, rest, prev, out>>
vars == <<pc, conn, key, plain, left, padN, buf, ln, rest, prev, out>>

TypeOK ==
  /\ pc \in {"ask", "encrypt", "flush", "receive", "decrypt", "got"}
  /\ conn \in 0 .. MaxConns /\ key \in 0 .. MaxConns
  /\ plain \in Lengths \cup {Nothing}
  /\ left \in Nat /\ padN \in 0 .. Block
  /\ buf \in Nat /\ ln \in Nat
  /\ rest \in Nat /\ prev \in 0 .. Chunk /\ out \in Nat

Init ==
  /\ pc = "ask" /\ conn = 0 /\ key = 0
  /\ plain = Nothing /\ left = 0 /\ padN = 0 /\ buf = 0 /\ ln = 0
  /\ rest = 0 /\ prev = 0 /\ out = 0

\* The next round of both loops: the locals of this one are gone.
AskAgain ==
  /\ pc' = "ask"
  /\ plain' = Nothing /\ left' = 0 /\ padN' = 0 /\ buf' = 0 /\ ln' = 0
  /\ rest' = 0 /\ prev' = 0 /\ out' = 0

\* io.CopyN: as much as there is, and io.EOF if that is less than a chunk.
Read(available) == IF available < Chunk THEN available ELSE Chunk
Last(available) == available < Chunk

-----------------------------------------------------------------------------
(* Connections.                                                            *)

\* Mutant: the decrypter of the last connection is used again.
NewKey_Kept == key

NewKey == 0

\* The connection ends, wherever it was, and there is another one.
Reconnect ==
  /\ conn < MaxConns /\ conn' = conn + 1
  /\ key' = NewKey
  /\ AskAgain

-----------------------------------------------------------------------------
(* The server: Encrypt, encrypt, and the countWriter.                      *)

\* There is nothing new to send ...
NothingNew ==
  /\ pc = "ask" /\ conn > 0 /\ pc' = "flush"
  /\ plain' = Nothing /\ buf' = Marker
  /\ UNCHANGED <<conn, left, padN, ln, clientVars>>

\* ... or there is: the buffer is reset, and the header goes first.
Encrypt ==
  /\ pc = "ask" /\ conn > 0 /\ pc' = "encrypt"
  /\ plain' \in Lengths
  /\ left' = plain' /\ padN' = 0 /\ buf' = Header
  /\ UNCHANGED <<conn, ln, clientVars>>

\* Mutant: padding as long as what sticks out.
Padding_Rest(n, last) ==
  IF n % Block # 0 THEN n % Block ELSE IF last THEN Block ELSE 0

\* A last chunk is padded, by a whole block if it has to be.
Padding(n, last) ==
  IF n % Block # 0 THEN Block - (n % Block) ELSE IF last THEN Block ELSE 0

EncryptChunk ==
  LET n == Read(left) IN LET pad == Padding(n, Last(left)) IN
  /\ pc = "encrypt" /\ pc' = IF Last(left) THEN "flush" ELSE "encrypt"
  /\ left' = left - n
  /\ padN' = padN + pad
  /\ buf' = buf + n + pad
  /\ UNCHANGED <<conn, plain, ln, clientVars>>

\* Flush sends the length of the buffer, and the buffer.
Flush ==
  /\ pc = "flush" /\ pc' = "receive"
  /\ ln' = buf /\ buf' = 0
  /\ UNCHANGED <<conn, plain, left, padN, clientVars>>

-----------------------------------------------------------------------------
(* The client: Connect, Decrypt and decrypt.                               *)

\* A message of three bytes is no picture.
Skip == pc = "receive" /\ ln = Marker /\ AskAgain /\ UNCHANGED <<conn, key>>

\* A decrypter without a key derives it from its passphrase and the header's
\* salt (decryptWithHeader); later it skips the salt (decryptWithKey).
UsedKey == IF key = 0 THEN conn ELSE key

\* The header is read, and the key made if there is none.
Decrypt ==
  /\ pc = "receive" /\ ln # Marker /\ pc' = "decrypt"
  /\ key' = UsedKey
  /\ rest' = ln - Header /\ prev' = 0 /\ out' = 0
  /\ UNCHANGED <<conn, serverVars>>

\* Mutant: the padding stays if it is a whole block.
CutOff_Less(n) == IF n = 0 \/ padN = Block THEN 0 ELSE padN

\* The last byte of the last chunk says how much to cut off.
CutOff(n) == IF n = 0 THEN 0 ELSE padN

\* A chunk is written only when the next one was read.
DecryptChunk ==
  LET n == Read(rest) IN
  /\ pc = "decrypt" /\ pc' = IF Last(rest) THEN "got" ELSE "decrypt"
  /\ rest' = rest - n /\ prev' = n
  /\ out' = out + prev + IF Last(rest) THEN n - CutOff(n) ELSE 0
  /\ UNCHANGED <<conn, key, serverVars>>

\* The picture goes to the view (View), and the client asks for another.
Deliver == pc = "got" /\ AskAgain /\ UNCHANGED <<conn, key>>

Next ==
  \/ Reconnect
  \/ NothingNew \/ Encrypt \/ EncryptChunk \/ Flush
  \/ Skip \/ Decrypt \/ DecryptChunk \/ Deliver

Spec == Init /\ [][Next]_vars

-----------------------------------------------------------------------------
(* Properties.                                                             *)

\* crypto.go's chunks, lookahead and padding give back the picture that was
\* encrypted: nothing is missing, and nothing is there too much, except that
\* the padding stays on when the ciphertext is a whole number of chunks (the
\* last chunk has then been written when the end is seen).
GivesBack ==
  pc = "got" =>
    \/ out = plain
    \/ out = plain + padN /\ (ln - Header) % Chunk = 0

\* CryptBlocks, which panics otherwise, is given whole blocks, by the client
\* because it was by the server.
WholeBlocks ==
  /\ pc = "flush" /\ plain # Nothing => (buf - Header) % Block = 0
  /\ pc = "decrypt" => rest % Block = 0

\* A picture is decrypted with the key of the connection it came by, although
\* all headers but the first are skipped; and a picture, however small, is
\* never taken for "nothing new", nor the other way round.
RightKey ==
  /\ pc = "decrypt" => key = conn
  /\ pc = "receive" => (ln = Marker <=> plain = Nothing)
=============================================================================
