----------------------------- MODULE EhbpProofs -----------------------------
(***************************************************************************)
(* What the run of Ehbp checks on bodies of a few chunks, for bodies and   *)
(* answers of every length: whatever the relay does, the opened answer is  *)
(* the beginning of one the enclave sealed for this request, opened whole  *)
(* or not at all; one that was left alone arrives; and the request was     *)
(* sealed to attested bytes.                                               *)
(***************************************************************************)
EXTENDS Ehbp, SequenceTheorems, FiniteSetTheorems, TLAPS

\* The limit, the answers and the chunks are what the assumptions say.
LEMMA Parameters ==
  /\ Limit \in Nat /\ MaxChunks \in Nat
  /\ Message \in [Answers -> Seq(Nat)]
  /\ Chunks \subseteq Chunk
  /\ \A c \in Chunks : c.seal \in Answers => c.seq < Len(Message[c.seal])
BY LimitAssumption, MessageAssumption, ChunkAssumption

-----------------------------------------------------------------------------
(***************************************************************************)
(* The key configuration.                                                  *)
(***************************************************************************)

\* Where the bytes of a key configuration come from: three before the key, the
\* key, and six after it.
LEMMA ConfigBytes ==
  ASSUME NEW key \in Seq(Byte)
  PROVE  LET data == BuildKeyConfig(key) IN
           /\ data \in Seq(Byte) /\ Len(data) = Len(key) + 9
           /\ \A i \in 1..Len(key) : data[i + 3] = key[i]
           /\ data[Len(key) + 4] = 0 /\ data[Len(key) + 5] = 4
           /\ data[Len(key) + 6] = 0 /\ data[Len(key) + 7] = 1
           /\ data[Len(key) + 8] = 0 /\ data[Len(key) + 9] = 2
<1> DEFINE front == <<0, 0, 32>> \o key
           tail == <<0, 4, 0, 1, 0, 2>>
<1>1. <<0, 0, 32>> \in Seq(Byte) /\ tail \in Seq(Byte) /\ Len(tail) = 6
  BY DEF Byte
<1>2. /\ front \in Seq(Byte) /\ Len(front) = Len(key) + 3
      /\ \A i \in 1..Len(key) : front[i + 3] = key[i]
  BY <1>1
<1>3. /\ tail[1] = 0 /\ tail[2] = 4 /\ tail[3] = 0
      /\ tail[4] = 1 /\ tail[5] = 0 /\ tail[6] = 2
  OBVIOUS
<1>4. BuildKeyConfig(key) = front \o tail
  BY <1>1 DEF BuildKeyConfig
<1> HIDE DEF front, tail
<1>5. /\ front \o tail \in Seq(Byte) /\ Len(front \o tail) = Len(key) + 9
      /\ \A i \in 1..Len(front) : (front \o tail)[i] = front[i]
      /\ \A i \in 1..6 : (front \o tail)[Len(front) + i] = tail[i]
  <2>1. /\ front \o tail \in Seq(Byte)
        /\ Len(front \o tail) = Len(front) + Len(tail)
        /\ \A i \in 1..Len(front) + Len(tail) :
             (front \o tail)[i] = IF i <= Len(front) THEN front[i] ELSE tail[i - Len(front)]
    BY <1>1, <1>2, ConcatProperties
  <2>2. Len(front) \in Nat /\ Len(key) \in Nat
    BY <1>2
  <2>3. \A i \in 1..Len(front) : (front \o tail)[i] = front[i]
    BY <1>1, <2>1, <2>2
  <2>4. ASSUME NEW i \in 1..6 PROVE (front \o tail)[Len(front) + i] = tail[i]
    <3>1. /\ Len(front) + i \in 1..Len(front) + Len(tail)
          /\ ~(Len(front) + i <= Len(front)) /\ Len(front) + i - Len(front) = i
      BY <1>1, <2>2
    <3> QED
      BY <2>1, <3>1
  <2> QED
    BY <1>1, <1>2, <2>1, <2>2, <2>3, <2>4
<1>6. \A i \in 1..Len(key) : (front \o tail)[i + 3] = key[i]
  BY <1>2, <1>5
<1>7. /\ (front \o tail)[Len(key) + 4] = 0 /\ (front \o tail)[Len(key) + 5] = 4
      /\ (front \o tail)[Len(key) + 6] = 0 /\ (front \o tail)[Len(key) + 7] = 1
      /\ (front \o tail)[Len(key) + 8] = 0 /\ (front \o tail)[Len(key) + 9] = 2
  <2>1. Len(front) = Len(key) + 3 /\ Len(key) \in Nat
    BY <1>2
  <2>2. /\ (front \o tail)[Len(front) + 1] = 0 /\ (front \o tail)[Len(front) + 2] = 4
        /\ (front \o tail)[Len(front) + 3] = 0 /\ (front \o tail)[Len(front) + 4] = 1
        /\ (front \o tail)[Len(front) + 5] = 0 /\ (front \o tail)[Len(front) + 6] = 2
    <3>1. \A i \in 1..6 : (front \o tail)[Len(front) + i] = tail[i]
      BY <1>5
    <3>2. 1 \in 1..6 /\ 2 \in 1..6 /\ 3 \in 1..6 /\ 4 \in 1..6 /\ 5 \in 1..6 /\ 6 \in 1..6
      OBVIOUS
    <3> QED
      BY <1>3, <3>1, <3>2, Zenon
  <2>3. /\ Len(front) + 1 = Len(key) + 4 /\ Len(front) + 2 = Len(key) + 5
        /\ Len(front) + 3 = Len(key) + 6 /\ Len(front) + 4 = Len(key) + 7
        /\ Len(front) + 5 = Len(key) + 8 /\ Len(front) + 6 = Len(key) + 9
    BY <2>1
  <2> QED
    BY <2>2, <2>3, Zenon
<1> QED
  BY <1>4, <1>5, <1>6, <1>7

\* A configuration that parses was built around a key of 32 bytes, or around one
\* of at least 40, and the key read from it is the beginning of that key.
LEMMA ParsedKeyIsAttested ==
  ASSUME NEW key \in Seq(Byte), Parses(BuildKeyConfig(key))
  PROVE  LET parsed == ParsedKey(BuildKeyConfig(key)) IN
           /\ parsed \in Seq(Byte) /\ Len(parsed) = 32
           /\ IsPrefix(parsed, key)
           /\ parsed # key => Len(key) >= 40
<1> DEFINE data == BuildKeyConfig(key)
           parsed == ParsedKey(data)
           suites == Uint16(data, 35)
<1>1. /\ data \in Seq(Byte) /\ Len(data) = Len(key) + 9
      /\ \A i \in 1..Len(key) : data[i + 3] = key[i]
      /\ data[Len(key) + 4] = 0 /\ data[Len(key) + 5] = 4
  BY ConfigBytes
<1>2. Parses(data)
  OBVIOUS
<1> HIDE DEF data
<1>3. \A i \in 1..Len(data) : data[i] \in 0..255
  <2>1. \A i \in 1..Len(data) : data[i] \in Byte
    BY <1>1
  <2> QED
    BY <2>1 DEF Byte
<1>4. /\ Len(data) >= 37 /\ suites # 0 /\ suites % 4 = 0 /\ 37 + suites = Len(data)
      /\ Uint16(data, 39) = 2
  BY <1>2 DEF Parses
<1>5. suites \in Nat
  <2>1. data[36] \in 0..255 /\ data[37] \in 0..255
    BY <1>1, <1>3, <1>4
  <2>2. \A a, b \in 0..255 : 256 * a + b \in Nat
    OBVIOUS
  <2>3. suites = 256 * data[36] + data[37]
    BY DEF Uint16
  <2>4. 256 * data[36] + data[37] \in Nat
    BY <2>1, <2>2, Zenon
  <2> QED
    BY <2>3, <2>4, Zenon
<1>6. Len(key) \in Nat
  OBVIOUS
<1> HIDE DEF suites
<1>7. suites % 4 = 0 => \E n \in Nat : suites = 4 * n
  BY <1>5
<1>8. PICK n \in Nat : suites = 4 * n
  BY <1>4, <1>7
<1>9. Len(key) = 28 + 4 * n /\ n > 0
  BY <1>1, <1>4, <1>6, <1>8
<1>10. Len(key) # 36
  <2>1. SUFFICES ASSUME Len(key) = 36 PROVE FALSE
    OBVIOUS
  <2>2. data[40] = 0 /\ data[41] = 4
    BY <1>1, <2>1
  <2>3. 256 * data[40] + data[41] = 2
    BY <1>4 DEF Uint16
  <2> QED
    BY <2>2, <2>3
<1>11. 32 <= Len(key) /\ (Len(key) = 32 \/ Len(key) >= 40)
  BY <1>9, <1>10
<1>12. /\ parsed \in Seq(Byte) /\ Len(parsed) = 32
       /\ \A i \in 1..32 : parsed[i] = data[4 + i - 1]
  <2>1. \A i \in 4..35 : data[i] \in Byte
    BY <1>1, <1>4
  <2> QED
    BY <2>1, SubSeqProperties DEF ParsedKey
<1> HIDE DEF parsed
<1>13. \A i \in 1..32 : parsed[i] = key[i]
  <2>1. SUFFICES ASSUME NEW i \in 1..32 PROVE parsed[i] = key[i]
    OBVIOUS
  <2>2. i \in 1..Len(key) /\ 4 + i - 1 = i + 3
    BY <1>6, <1>11
  <2>3. parsed[i] = data[i + 3]
    BY <1>12, <2>2
  <2> QED
    BY <1>1, <2>2, <2>3
<1>14. SubSeq(parsed, 1, 32) = SubSeq(key, 1, 32)
  BY <1>13
<1>15. Len(key) = 32 => parsed = key
  BY <1>12, <1>13, SeqEqual
<1>16. IsPrefix(parsed, key)
  <2>1. Len(parsed) <= Len(key)
    BY <1>6, <1>11, <1>12
  <2>2. SubSeq(parsed, 1, Len(parsed)) = SubSeq(key, 1, Len(parsed))
    BY <1>12, <1>14
  <2> QED
    BY <2>1, <2>2 DEF IsPrefix
<1>17. /\ parsed \in Seq(Byte) /\ Len(parsed) = 32
       /\ IsPrefix(parsed, key) /\ (parsed # key => Len(key) >= 40)
  BY <1>11, <1>12, <1>15, <1>16
<1> QED
  BY <1>17 DEF parsed, data

-----------------------------------------------------------------------------
(***************************************************************************)
(* Types. The places a body is read from are right only because nothing    *)
(* was read before it was there.                                           *)
(***************************************************************************)

FreshInv ==
  phase \in {"seal", "wait", "read", "nonce"} => at = 0 /\ offset = 0 /\ seq = 0 /\ plain = <<>>

TypeInv == TypeOK /\ FreshInv

LEMMA TypeInit == Init => TypeInv
<1> SUFFICES ASSUME Init PROVE TypeInv
  OBVIOUS
<1>1. /\ sealedTo \in Seq(Byte) /\ body \in Seq(Chunks) /\ plain \in Seq(Nat)
      /\ Len(body) = 0
  BY DEF Init, NoKey
<1>2. /\ phase = "seal" /\ attested \in Keys /\ nonce = "none" /\ coded = FALSE
      /\ length = 0 /\ at = 0 /\ offset = 0 /\ seq = 0 /\ plain = <<>> /\ reply = "none"
  BY DEF Init
<1>3. phase \in Phases /\ nonce \in Nonces /\ coded \in BOOLEAN /\ reply \in Replies
  BY <1>2, Zenon DEF Phases, Replies, Nonces
<1>4. /\ length \in Nat /\ at \in 0..Len(body)
      /\ offset \in 0..length /\ seq \in 0..at
  BY <1>1, <1>2
<1>5. TypeOK
  BY <1>1, <1>2, <1>3, <1>4, Zenon DEF TypeOK
<1>6. FreshInv
  BY <1>2, Zenon DEF FreshInv
<1> QED
  BY <1>5, <1>6 DEF TypeInv

\* The chunk at the offset is one of the chunks.
LEMMA NextChunkIsOne ==
  ASSUME TypeOK, InLoop
  PROVE  NextChunk \in Chunks /\ NextChunk \in Chunk
<1>1. body \in Seq(Chunks) /\ at \in Nat /\ at < Len(body)
  BY DEF TypeOK, InLoop
<1>2. at + 1 \in 1..Len(body) /\ NextChunk = body[at + 1]
  BY <1>1 DEF NextChunk
<1>3. NextChunk \in Chunks
  BY <1>1, <1>2
<1> QED
  BY <1>3, Parameters

\* What an opened chunk says is a piece of the answer the nonce names.
LEMMA OpenedPiece ==
  ASSUME TypeOK, InLoop, Opens(NextChunk)
  PROVE  /\ nonce \in Answers /\ NextChunk.seq = seq
         /\ Message[nonce] \in Seq(Nat) /\ seq < Len(Message[nonce])
         /\ Message[nonce][seq + 1] \in Nat
<1>1. NextChunk \in Chunks /\ nonce \in Answers /\ NextChunk.seal = nonce /\ NextChunk.seq = seq
  BY NextChunkIsOne DEF Opens
<1>2. Message[nonce] \in Seq(Nat) /\ seq < Len(Message[nonce])
  BY <1>1, Parameters
<1>3. seq \in Nat
  BY DEF TypeOK
<1>4. seq + 1 \in 1..Len(Message[nonce])
  BY <1>2, <1>3
<1>5. Message[nonce][seq + 1] \in Nat
  BY <1>2, <1>4, ElementOfSeq
<1> QED
  BY <1>1, <1>2, <1>5

\* Every action keeps the types.
LEMMA TypeStep == TypeInv /\ [Next]_vars => TypeInv'
<1> SUFFICES ASSUME TypeInv, [Next]_vars PROVE TypeInv'
  OBVIOUS
<1> USE DEF TypeInv, TypeOK, FreshInv, Phases, Replies
<1>1. CASE EncryptRequest
  <2>1. attested \in Seq(Byte)
    BY KeyAssumption
  <2>2. sealedTo' \in Seq(Byte)
    BY <1>1, <2>1, ParsedKeyIsAttested DEF EncryptRequest
  <2>3. phase = "seal" /\ phase' \in {"wait", "done"} /\ reply' \in Replies
    BY <1>1 DEF EncryptRequest
  <2>4. UNCHANGED <<attested, answerVars, readerVars>>
    BY <1>1 DEF EncryptRequest
  <2> QED
    BY <2>2, <2>3, <2>4 DEF answerVars, readerVars
<1>2. CASE Answer
  <2>1. body' \in Seq(Chunks) /\ nonce' \in Nonces /\ coded' \in BOOLEAN
    BY <1>2, Parameters DEF Answer
  <2>2. phase = "wait" /\ phase' = "read" /\ UNCHANGED <<requestVars, length, readerVars, reply>>
    BY <1>2 DEF Answer
  <2>3. at' = 0 /\ offset' = 0 /\ seq' = 0 /\ plain' = <<>>
    BY <2>2 DEF readerVars
  <2> QED
    BY <2>1, <2>2, <2>3 DEF requestVars
<1>3. CASE AnswerFails
  BY <1>3 DEF AnswerFails, requestVars, answerVars, readerVars
<1>4. CASE ReadBody
  <2>1. length' \in Nat /\ phase = "read" /\ phase' = "nonce"
    BY <1>4, Parameters DEF ReadBody
  <2>2. UNCHANGED <<requestVars, body, nonce, coded, readerVars, reply>>
    BY <1>4 DEF ReadBody
  <2> QED
    BY <2>1, <2>2 DEF requestVars, readerVars
<1>5. CASE ExtractNonce
  BY <1>5 DEF ExtractNonce, requestVars, answerVars, readerVars
<1>6. CASE SkipEmpty
  <2>1. /\ phase = "open" /\ at < Len(body) /\ offset + 2 <= length
        /\ at' = at + 1 /\ offset' = offset + 2
        /\ UNCHANGED <<phase, requestVars, answerVars, seq, plain, reply>>
    BY <1>6 DEF SkipEmpty, InLoop, PrefixRead, Prefix
  <2> QED
    BY <2>1 DEF requestVars, answerVars
<1>7. CASE OpenChunk
  <2>1. InLoop /\ ChunkWhole /\ Opens(NextChunk) /\ NextChunk \in Chunk
    BY <1>7, NextChunkIsOne DEF OpenChunk
  <2>2. /\ plain' = Append(plain, Message[nonce][NextChunk.seq + 1])
        /\ seq' = seq + 1 /\ at' = at + 1 /\ offset' = offset + Size(NextChunk)
        /\ UNCHANGED <<phase, requestVars, answerVars, reply>>
    BY <1>7 DEF OpenChunk
  <2>3. plain' \in Seq(Nat)
    BY <2>1, <2>2, OpenedPiece, AppendProperties
  <2>4. Size(NextChunk) \in Nat /\ offset + Size(NextChunk) <= length
    BY <2>1 DEF Size, Prefix, Chunk, ChunkWhole
  <2>5. phase = "open" /\ at < Len(body)
    BY <2>1 DEF InLoop
  <2> QED
    BY <2>2, <2>3, <2>4, <2>5 DEF requestVars, answerVars
<1>8. CASE OpenFails
  BY <1>8 DEF OpenFails, requestVars, answerVars, readerVars
<1>9. CASE OpenEnds
  BY <1>9 DEF OpenEnds, requestVars, answerVars, readerVars
<1>10. CASE Relay
  BY <1>10 DEF Relay, requestVars, answerVars, readerVars
<1>11. CASE UNCHANGED vars
  BY <1>11 DEF vars, requestVars, answerVars, readerVars
<1> QED
  BY <1>1, <1>2, <1>3, <1>4, <1>5, <1>6, <1>7, <1>8, <1>9, <1>10, <1>11 DEF Next

\* Every state has the types: what is read of a body stays within it and within
\* the bytes that came.
THEOREM EhbpTypeCorrect == Spec => []TypeOK
<1>1. TypeInv => TypeOK
  BY DEF TypeInv
<1> QED
  BY <1>1, TypeInit, TypeStep, PTL DEF Spec

-----------------------------------------------------------------------------
(***************************************************************************)
(* The request.                                                            *)
(***************************************************************************)

SealedInv == SealedToTheAttestedKey /\ (phase = "seal" => sealedTo = NoKey)

LEMMA SealedStep == TypeInv /\ SealedInv /\ [Next]_vars => SealedInv'
<1> SUFFICES ASSUME TypeInv, SealedInv, [Next]_vars PROVE SealedInv'
  OBVIOUS
<1>1. CASE EncryptRequest
  <2>1. attested \in Seq(Byte)
    BY KeyAssumption DEF TypeInv, TypeOK
  <2>2. attested' = attested /\ phase' # "seal" /\ phase = "seal"
    BY <1>1 DEF EncryptRequest
  <2>3. CASE Parses(BuildKeyConfig(attested))
    <3>1. sealedTo' = ParsedKey(BuildKeyConfig(attested))
      BY <1>1, <2>3 DEF EncryptRequest
    <3>2. /\ Len(sealedTo') = 32 /\ IsPrefix(sealedTo', attested)
          /\ sealedTo' # attested => Len(attested) >= 40
      BY <2>1, <2>3, <3>1, ParsedKeyIsAttested
    <3> QED
      BY <2>2, <3>2 DEF SealedInv, SealedToTheAttestedKey
  <2>4. CASE ~Parses(BuildKeyConfig(attested))
    <3>1. sealedTo' = NoKey
      BY <1>1, <2>2, <2>4 DEF EncryptRequest, SealedInv
    <3> QED
      BY <2>2, <3>1 DEF SealedInv, SealedToTheAttestedKey
  <2> QED
    BY <2>3, <2>4
<1>2. CASE UNCHANGED requestVars /\ phase' # "seal"
  BY <1>2 DEF requestVars, SealedInv, SealedToTheAttestedKey
<1>3. CASE UNCHANGED <<phase, requestVars>>
  BY <1>3 DEF requestVars, SealedInv, SealedToTheAttestedKey
<1>4. \/ EncryptRequest
      \/ UNCHANGED requestVars /\ phase' # "seal"
      \/ UNCHANGED <<phase, requestVars>>
  BY DEF Next, Answer, AnswerFails, ReadBody, ExtractNonce, SkipEmpty, OpenChunk, OpenFails,
         OpenEnds, Relay, vars, InLoop
<1> QED
  BY <1>1, <1>2, <1>3, <1>4

\* For attested keys of every length and content, a request is sealed to no byte
\* that was not attested.
THEOREM RequestIsSealedToTheAttestedKey == Spec => []SealedToTheAttestedKey
<1>1. Init => SealedInv
  BY DEF Init, SealedInv, SealedToTheAttestedKey
<1>2. SealedInv => SealedToTheAttestedKey
  BY DEF SealedInv
<1> QED
  BY <1>1, <1>2, TypeInit, TypeStep, SealedStep, PTL DEF Spec

-----------------------------------------------------------------------------
(***************************************************************************)
(* The answer.                                                             *)
(***************************************************************************)

\* What was opened is the first chunks of the answer the nonce names, as many as
\* the counter says.
PlainInv ==
  IF nonce \in Answers
  THEN seq <= Len(Message[nonce]) /\ plain = SubSeq(Message[nonce], 1, seq)
  ELSE plain = <<>>

\* The next piece makes a longer beginning.
LEMMA LongerPrefix ==
  ASSUME NEW s \in Seq(Nat), NEW n \in Nat, n < Len(s)
  PROVE  Append(SubSeq(s, 1, n), s[n + 1]) = SubSeq(s, 1, n + 1)
<1>1. \A i \in 1..Len(s) : s[i] \in Nat
  BY ElementOfSeq
<1>2. /\ SubSeq(s, 1, n) \in Seq(Nat) /\ Len(SubSeq(s, 1, n)) = n
      /\ \A i \in 1..n : SubSeq(s, 1, n)[i] = s[i]
  BY <1>1, SubSeqProperties
<1>3. /\ SubSeq(s, 1, n + 1) \in Seq(Nat) /\ Len(SubSeq(s, 1, n + 1)) = n + 1
      /\ \A i \in 1..n + 1 : SubSeq(s, 1, n + 1)[i] = s[i]
  BY <1>1, SubSeqProperties
<1>4. s[n + 1] \in Nat
  BY <1>1
<1> DEFINE a == Append(SubSeq(s, 1, n), s[n + 1])
<1>5. /\ a \in Seq(Nat) /\ Len(a) = n + 1 /\ a[n + 1] = s[n + 1]
      /\ \A i \in 1..n : a[i] = SubSeq(s, 1, n)[i]
  BY <1>2, <1>4, AppendProperties
<1> HIDE DEF a
<1>6. \A i \in 1..n + 1 : a[i] = SubSeq(s, 1, n + 1)[i]
  BY <1>2, <1>3, <1>5
<1>7. a = SubSeq(s, 1, n + 1)
  BY <1>3, <1>5, <1>6, SeqEqual
<1> QED
  BY <1>7 DEF a

LEMMA PlainStep == TypeInv /\ PlainInv /\ [Next]_vars => PlainInv'
<1> SUFFICES ASSUME TypeInv, PlainInv, [Next]_vars PROVE PlainInv'
  OBVIOUS
<1>1. CASE OpenChunk
  <2> DEFINE m == Message[nonce]
  <2>1. InLoop /\ Opens(NextChunk) /\ nonce' = nonce /\ seq' = seq + 1
    BY <1>1 DEF OpenChunk, answerVars
  <2>2. nonce \in Answers /\ NextChunk.seq = seq /\ m \in Seq(Nat) /\ seq < Len(m)
    BY <2>1, OpenedPiece DEF TypeInv
  <2>3. seq \in Nat
    BY DEF TypeInv, TypeOK
  <2>4. plain' = Append(SubSeq(m, 1, seq), m[seq + 1])
    BY <1>1, <2>2 DEF OpenChunk, PlainInv
  <2>5. plain' = SubSeq(m, 1, seq + 1)
    BY <2>2, <2>3, <2>4, LongerPrefix
  <2>6. seq + 1 <= Len(m)
    BY <2>2, <2>3
  <2> QED
    BY <2>1, <2>2, <2>5, <2>6 DEF PlainInv
<1>2. CASE Answer
  <2>1. seq' = 0 /\ plain' = <<>>
    BY <1>2 DEF Answer, readerVars, TypeInv, FreshInv
  <2>2. nonce' \in Answers => /\ Message[nonce'] \in Seq(Nat)
                              /\ SubSeq(Message[nonce'], 1, 0) = <<>>
    BY Parameters
  <2> QED
    BY <2>1, <2>2 DEF PlainInv
<1>3. CASE UNCHANGED <<nonce, seq, plain>>
  BY <1>3 DEF PlainInv
<1>4. OpenChunk \/ Answer \/ UNCHANGED <<nonce, seq, plain>>
  BY DEF Next, EncryptRequest, AnswerFails, ReadBody, ExtractNonce, SkipEmpty, OpenFails, OpenEnds,
         Relay, vars, answerVars, readerVars
<1> QED
  BY <1>1, <1>2, <1>3, <1>4

LEMMA PlainIsPrefix == TypeInv /\ PlainInv => OpenedIsPrefix
<1> SUFFICES ASSUME TypeInv, PlainInv, nonce \in Answers PROVE IsPrefix(plain, Message[nonce])
  BY DEF OpenedIsPrefix, PlainInv
<1> DEFINE m == Message[nonce]
<1>1. m \in Seq(Nat) /\ seq \in Nat /\ seq <= Len(m) /\ plain = SubSeq(m, 1, seq)
  BY Parameters DEF TypeInv, TypeOK, PlainInv
<1> HIDE DEF m
<1>2. \A i \in 1..seq : m[i] \in Nat
  BY <1>1, ElementOfSeq
<1>3. Len(plain) = seq /\ \A i \in 1..seq : plain[i] = m[i]
  BY <1>1, <1>2, SubSeqProperties
<1>4. SubSeq(plain, 1, seq) = SubSeq(m, 1, seq)
  BY <1>3
<1>5. IsPrefix(plain, m)
  BY <1>1, <1>3, <1>4 DEF IsPrefix
<1> QED
  BY <1>5 DEF m

\* For bodies, answers and limits of every size and any number of chunks lost,
\* repeated, moved or mixed up, an opened answer is the beginning of one that was
\* sealed for this request.
THEOREM OpenedAnswerIsPrefix == Spec => []OpenedIsPrefix
<1>1. Init => PlainInv
  <2>1. SUFFICES ASSUME Init PROVE PlainInv
    OBVIOUS
  <2>2. nonce \notin Answers /\ plain = <<>>
    BY <2>1, AnswerAssumption DEF Init
  <2> QED
    BY <2>2 DEF PlainInv
<1> QED
  BY <1>1, TypeInit, TypeStep, PlainStep, PlainIsPrefix, PTL DEF Spec

-----------------------------------------------------------------------------
(***************************************************************************)
(* Whole bodies. A body is counted by its units and its chunks, so that    *)
(* how far the reader has come is the size of a set.                       *)
(***************************************************************************)

\* A chunk takes the units of its prefix, at least.
LEMMA ChunkSize ==
  ASSUME TypeOK, NEW i \in 1..Len(body)
  PROVE  body[i] \in Chunk /\ body[i].len \in Nat /\ Size(body[i]) \in Nat /\ Size(body[i]) >= 2
<1>1. body[i] \in Chunk
  BY Parameters DEF TypeOK
<1> QED
  BY <1>1 DEF Chunk, Size, Prefix

\* As many units as the number of the last.
LEMMA CountTo ==
  ASSUME NEW k \in Nat
  PROVE  IsFiniteSet(1..k) /\ Cardinality(1..k) = k
<1>1. 1 \in Int /\ k \in Int
  OBVIOUS
<1>2. IsFiniteSet(1..k) /\ Cardinality(1..k) = IF 1 > k THEN 0 ELSE k - 1 + 1
  BY <1>1, FS_Interval, Zenon
<1> QED BY <1>2

\* No body has more than finitely many units.
LEMMA UnitsFinite ==
  ASSUME TypeOK, NEW n \in 0..Len(body)
  PROVE  IsFiniteSet(Units(n)) /\ Cardinality(Units(n)) \in Nat
<1> DEFINE f == [i \in 1..n |-> {i} \X (1..Size(body[i]))]
           T == {{i} \X (1..Size(body[i])) : i \in 1..n}
<1>1. n \in Nat /\ 1..n \subseteq 1..Len(body)
  BY DEF TypeOK
<1>2. f \in Surjection(1..n, T)
  BY DEF Surjection
<1>3. IsFiniteSet(1..n)
  BY <1>1, FS_Interval
<1>4. IsFiniteSet(T)
  <2> HIDE DEF f, T
  <2> QED BY <1>2, <1>3, FS_Surjection
<1>5. ASSUME NEW t \in T PROVE IsFiniteSet(t)
  <2>1. PICK i \in 1..n : t = {i} \X (1..Size(body[i]))
    OBVIOUS
  <2>2. Size(body[i]) \in Nat
    BY <1>1, ChunkSize
  <2>3. IsFiniteSet(1..Size(body[i])) /\ IsFiniteSet({i})
    BY <2>2, CountTo, FS_Singleton
  <2> QED BY <2>1, <2>3, FS_Product
<1>6. IsFiniteSet(UNION T)
  <2> HIDE DEF T
  <2> QED BY <1>4, <1>5, FS_UNION
<1> QED BY <1>6, FS_CardinalityType DEF Units

\* One more chunk is its units more.
LEMMA UnitsNext ==
  ASSUME TypeOK, NEW n \in Nat, n < Len(body)
  PROVE  Cardinality(Units(n + 1)) = Cardinality(Units(n)) + Size(body[n + 1])
<1> DEFINE k == Size(body[n + 1])
           New == {n + 1} \X (1..k)
<1>1. n + 1 \in 1..Len(body) /\ n \in 0..Len(body) /\ 1..n + 1 = (1..n) \cup {n + 1}
  BY DEF TypeOK
<1>2. k \in Nat
  BY <1>1, ChunkSize
<1>3. Units(n + 1) = Units(n) \cup New
  BY <1>1, Zenon DEF Units
<1>4. Units(n) \cap New = {}
  <2>1. n + 1 \notin 1..n
    OBVIOUS
  <2> QED BY <2>1 DEF Units
<1> HIDE DEF k
<1>5. IsFiniteSet(New) /\ Cardinality(New) = k
  <2>1. IsFiniteSet(1..k) /\ Cardinality(1..k) = k
    BY <1>2, CountTo
  <2>2. IsFiniteSet({n + 1}) /\ Cardinality({n + 1}) = 1
    BY FS_Singleton
  <2>3. IsFiniteSet(New) /\ Cardinality(New) = 1 * k
    BY <2>1, <2>2, FS_Product
  <2> QED BY <1>2, <2>3
<1>6. IsFiniteSet(Units(n)) /\ Cardinality(Units(n)) \in Nat
  BY <1>1, UnitsFinite
<1> HIDE DEF New
<1>7. Cardinality(Units(n + 1)) = Cardinality(Units(n)) + Cardinality(New) - Cardinality({})
  BY <1>3, <1>4, <1>5, <1>6, FS_Union
<1> QED BY <1>2, <1>5, <1>6, <1>7, FS_EmptySet DEF k

\* The first chunks are not more than the body, and less than it when one is missing.
LEMMA UnitsWithin ==
  ASSUME TypeOK, NEW n \in 0..Len(body)
  PROVE  /\ BodyLength \in Nat
         /\ Cardinality(Units(n)) <= BodyLength
         /\ Cardinality(Units(n)) = BodyLength => n = Len(body)
<1>1. Len(body) \in Nat
  BY DEF TypeOK
<1>2. Units(n) \subseteq Units(Len(body))
  <2>1. 1..n \subseteq 1..Len(body)
    BY <1>1
  <2> QED BY <2>1 DEF Units
<1>3. IsFiniteSet(Units(Len(body))) /\ BodyLength \in Nat
  BY <1>1, UnitsFinite DEF BodyLength
<1>4. /\ Cardinality(Units(n)) <= BodyLength
      /\ Cardinality(Units(n)) = BodyLength => Units(n) = Units(Len(body))
  BY <1>2, <1>3, FS_Subset DEF BodyLength
<1>5. ASSUME n # Len(body) PROVE Units(n) # Units(Len(body))
  <2>1. Len(body) \in 1..Len(body) /\ Len(body) \notin 1..n
    BY <1>1, <1>5
  <2>2. 1 \in 1..Size(body[Len(body)])
    BY <2>1, ChunkSize
  <2>3. <<Len(body), 1>> \in Units(Len(body))
    BY <2>1, <2>2 DEF Units
  <2>4. <<Len(body), 1>> \notin Units(n)
    BY <2>1 DEF Units
  <2> QED BY <2>3, <2>4
<1> QED BY <1>3, <1>4, <1>5

\* One more chunk is one more to open, unless it is empty.
LEMMA SealedNext ==
  ASSUME TypeOK, NEW n \in Nat, n < Len(body)
  PROVE  Cardinality(Sealed(n + 1)) =
           IF body[n + 1].len > 0 THEN Cardinality(Sealed(n)) + 1 ELSE Cardinality(Sealed(n))
<1>1. 1..n + 1 = (1..n) \cup {n + 1} /\ n + 1 \notin 1..n
  OBVIOUS
<1>2. IsFiniteSet(1..n)
  BY FS_Interval
<1>3. IsFiniteSet(Sealed(n))
  BY <1>2, FS_Subset DEF Sealed
<1>4. /\ n + 1 \notin Sealed(n)
      /\ Sealed(n + 1) = IF body[n + 1].len > 0 THEN Sealed(n) \cup {n + 1} ELSE Sealed(n)
  BY <1>1 DEF Sealed
<1> QED BY <1>3, <1>4, FS_AddElement

\* The reader has passed the units of the chunks behind it and opened all of them
\* that are not empty, and it says so only at the end of what was read.
PlaceInv ==
  /\ offset = Cardinality(Units(at))
  /\ seq = Cardinality(Sealed(at)) /\ Len(plain) = seq
  /\ reply = "opened" => offset = length /\ phase \in {"relay", "done"}

\* Nothing is passed of a body that has not been begun.
LEMMA NothingPassed == Cardinality(Units(0)) = 0 /\ Cardinality(Sealed(0)) = 0
<1>1. 1..0 = {}
  OBVIOUS
<1>2. Units(0) = {} /\ Sealed(0) = {}
  BY <1>1 DEF Units, Sealed
<1> QED BY <1>2, FS_EmptySet

\* Every action keeps the place.
LEMMA PlaceStep == TypeInv /\ PlaceInv /\ [Next]_vars => PlaceInv'
<1> SUFFICES ASSUME TypeInv, PlaceInv, [Next]_vars PROVE PlaceInv'
  OBVIOUS
<1>1. TypeOK /\ FreshInv
  BY DEF TypeInv
<1>2. CASE Answer
  <2>1. (Cardinality(Units(0)) = 0 /\ Cardinality(Sealed(0)) = 0)'
    BY NothingPassed, PTL
  <2>2. /\ at' = 0 /\ offset' = 0 /\ seq' = 0 /\ plain' = <<>>
        /\ reply' = reply /\ phase = "wait"
    BY <1>1, <1>2 DEF Answer, readerVars, FreshInv
  <2>3. Units(at)' = Units(0)' /\ Sealed(at)' = Sealed(0)' /\ Len(plain') = 0
    BY <2>2 DEF Units, Sealed
  <2> QED BY <2>1, <2>2, <2>3 DEF PlaceInv
<1>3. ASSUME InLoop, UNCHANGED <<phase, requestVars, answerVars, reply>>, at' = at + 1
      PROVE  /\ Units(at)' = Units(at + 1) /\ Sealed(at)' = Sealed(at + 1)
             /\ Cardinality(Units(at + 1)) = offset + Size(NextChunk)
             /\ Cardinality(Sealed(at + 1)) = IF NextChunk.len > 0 THEN seq + 1 ELSE seq
             /\ reply' # "opened"
  <2>1. at \in Nat /\ at < Len(body) /\ phase = "open"
    BY <1>1, <1>3 DEF TypeOK, InLoop
  <2>2. body' = body
    BY <1>3 DEF answerVars
  <2> QED BY <1>1, <1>3, <2>1, <2>2, UnitsNext, SealedNext DEF Units, Sealed, NextChunk, PlaceInv
<1>4. CASE SkipEmpty
  <2>1. /\ InLoop /\ NextChunk.len = 0 /\ at' = at + 1 /\ offset' = offset + 2
        /\ UNCHANGED <<phase, requestVars, answerVars, seq, plain, reply>>
    BY <1>4 DEF SkipEmpty, Prefix
  <2>2. Size(NextChunk) = 2
    BY <2>1 DEF Size, Prefix
  <2>3. /\ Cardinality(Units(at)') = offset' /\ Cardinality(Sealed(at)') = seq' /\ reply' # "opened"
    BY <1>3, <2>1, <2>2
  <2> QED BY <2>1, <2>3 DEF PlaceInv
<1>5. CASE OpenChunk
  <2>1. /\ InLoop /\ Opens(NextChunk) /\ NextChunk.len > 0 /\ at' = at + 1
        /\ offset' = offset + Size(NextChunk) /\ seq' = seq + 1
        /\ plain' = Append(plain, Message[nonce][NextChunk.seq + 1])
        /\ UNCHANGED <<phase, requestVars, answerVars, reply>>
    BY <1>5 DEF OpenChunk
  <2>2. /\ Cardinality(Units(at)') = offset' /\ Cardinality(Sealed(at)') = seq' /\ reply' # "opened"
    BY <1>3, <2>1
  <2>3. Len(plain') = Len(plain) + 1
    BY <1>1, <2>1 DEF TypeOK
  <2> QED BY <2>1, <2>2, <2>3 DEF PlaceInv
<1>6. CASE UNCHANGED <<body, readerVars>> /\ PlaceInv!3'
  BY <1>6 DEF PlaceInv, readerVars, Units, Sealed
<1>7. CASE OpenEnds
  <2>1. offset = length /\ phase' = "relay" /\ UNCHANGED <<answerVars, readerVars>>
    BY <1>1, <1>7 DEF OpenEnds, TypeOK
  <2> QED BY <1>6, <2>1 DEF answerVars, readerVars
<1>8. CASE \/ EncryptRequest \/ AnswerFails \/ ReadBody \/ ExtractNonce \/ OpenFails \/ Relay
           \/ UNCHANGED vars
  <2>1. /\ UNCHANGED <<body, readerVars>>
        /\ reply' = "opened" => reply = "opened"
        /\ phase \in {"relay", "done"} => phase' \in {"relay", "done"} /\ length' = length
    BY <1>8 DEF EncryptRequest, AnswerFails, ReadBody, ExtractNonce, OpenFails, Relay, vars,
                answerVars, InLoop
  <2> QED BY <1>6, <2>1 DEF PlaceInv, readerVars
<1> QED BY <1>2, <1>4, <1>5, <1>7, <1>8 DEF Next

\* With any bodies and limits: what is given to the client as opened is all that was
\* read, and of a body read to its end, every chunk that is not empty was opened.
THEOREM AnswerIsOpenedWhole == Spec => []OpenedWhole
<1>1. Init => PlaceInv
  BY NothingPassed DEF Init, PlaceInv
<1>2. TypeInv /\ PlaceInv => OpenedWhole
  <2> SUFFICES ASSUME TypeOK, PlaceInv, reply = "opened"
               PROVE  /\ offset = length
                      /\ length = BodyLength => Len(plain) = Cardinality(Sealed(Len(body)))
    BY DEF OpenedWhole, TypeInv
  <2>1. at \in 0..Len(body)
    BY DEF TypeOK
  <2>2. length = BodyLength => at = Len(body)
    BY <2>1, UnitsWithin DEF PlaceInv
  <2> QED BY <2>2 DEF PlaceInv
<1> QED BY <1>1, <1>2, TypeInit, TypeStep, PlaceStep, PTL DEF Spec

\* A body to which nothing was done is not left as it came.
FaithfulInv ==
  Faithful /\ phase \in {"relay", "done"} => reply \in {"error", "opened"}

\* The loop finds nothing to complain of in such a body.
LEMMA FaithfulOpens ==
  ASSUME TypeOK, PlaceInv, Faithful
  PROVE  ~OpenFails
<1> SUFFICES ASSUME InLoop, ~PrefixRead \/ (NextChunk.len > 0 /\ (ChunkWhole => ~Opens(NextChunk)))
             PROVE  FALSE
  BY DEF OpenFails, Faithful
<1>1. at \in Nat /\ at < Len(body) /\ at + 1 \in 1..Len(body) /\ at + 1 \in 0..Len(body)
  BY DEF TypeOK, InLoop
<1>2. Size(NextChunk) >= 2 /\ Size(NextChunk) \in Nat
  BY <1>1, ChunkSize DEF NextChunk
<1>3. offset + Size(NextChunk) <= length
  BY <1>1, UnitsNext, UnitsWithin DEF PlaceInv, Faithful, NextChunk
<1>4. PrefixRead /\ ChunkWhole
  BY <1>2, <1>3 DEF PrefixRead, ChunkWhole, Prefix, TypeOK
<1>5. PICK i \in Nat : i = at + 1 /\ at = i - 1
  BY <1>1
<1>6. i \in Sealed(Len(body)) /\ NextChunk = body[i]
  BY <1>1, <1>4, <1>5 DEF Sealed, NextChunk
<1>7. NextChunk.seal = nonce /\ NextChunk.seq = Cardinality(Sealed(at)) /\ nonce \in Answers
  BY <1>5, <1>6 DEF Faithful
<1> QED BY <1>4, <1>7 DEF Opens, PlaceInv

\* Every action keeps it.
LEMMA FaithfulStep == TypeInv /\ PlaceInv /\ FaithfulInv /\ [Next]_vars => FaithfulInv'
<1> SUFFICES ASSUME TypeOK, PlaceInv, FaithfulInv, [Next]_vars, Faithful',
                    phase' \in {"relay", "done"}
             PROVE  reply' \in {"error", "opened"}
  BY DEF FaithfulInv, TypeInv
<1>1. CASE EncryptRequest \/ AnswerFails \/ OpenEnds
  BY <1>1 DEF EncryptRequest, AnswerFails, OpenEnds
<1>2. CASE ExtractNonce
  <2>1. nonce' = nonce /\ nonce' \in Answers
    BY <1>2 DEF ExtractNonce, answerVars, Faithful
  <2> QED BY <1>2, <2>1, AnswerAssumption DEF ExtractNonce
<1>3. ASSUME UNCHANGED answerVars PROVE Faithful
  BY <1>3 DEF Faithful, answerVars, Sealed, BodyLength, Units
<1>4. CASE OpenFails
  <2>1. Faithful
    BY <1>3, <1>4 DEF OpenFails
  <2> QED BY <1>4, <2>1, FaithfulOpens
<1>5. CASE Relay \/ UNCHANGED vars
  <2>1. Faithful /\ phase \in {"relay", "done"} /\ reply' = reply
    BY <1>3, <1>5 DEF Relay, vars
  <2> QED BY <2>1 DEF FaithfulInv
<1>6. CASE Answer \/ ReadBody \/ SkipEmpty \/ OpenChunk
  BY <1>6 DEF Answer, ReadBody, SkipEmpty, OpenChunk, InLoop
<1> QED BY <1>1, <1>2, <1>4, <1>5, <1>6 DEF Next

\* An answer of any length, cut into any chunks with empty ones anywhere between
\* them, reaches the client as it was sealed when the relay leaves it alone and the
\* limit lets it through.
THEOREM AnswerArrives == Spec => []FaithfulAnswerArrives
<1>1. Init => PlaceInv
  BY NothingPassed DEF Init, PlaceInv
<1>2. Init => PlainInv
  BY AnswerAssumption DEF Init, PlainInv
<1>3. Init => FaithfulInv
  BY DEF Init, FaithfulInv
<1>4. TypeInv /\ PlainInv /\ PlaceInv /\ FaithfulInv => FaithfulAnswerArrives
  <2> SUFFICES ASSUME TypeOK, PlainInv, PlaceInv, FaithfulInv, Faithful,
                      phase = "done", reply # "error"
               PROVE  reply = "opened" /\ plain = Message[nonce]
    BY DEF TypeInv, FaithfulAnswerArrives
  <2>1. reply = "opened" /\ offset = length /\ length = BodyLength
    BY DEF FaithfulInv, PlaceInv, Faithful
  <2>2. at = Len(body)
    <3>1. at \in 0..Len(body)
      BY DEF TypeOK
    <3> QED BY <2>1, <3>1, UnitsWithin DEF PlaceInv
  <2>3. seq = Len(Message[nonce]) /\ nonce \in Answers
    BY <2>2 DEF PlaceInv, Faithful
  <2>4. plain = SubSeq(Message[nonce], 1, Len(Message[nonce])) /\ Message[nonce] \in Seq(Nat)
    BY <2>3, Parameters DEF PlainInv
  <2>5. \A s \in Seq(Nat) : SubSeq(s, 1, Len(s)) = s
    OBVIOUS
  <2> QED BY <2>1, <2>4, <2>5
<1> QED BY <1>1, <1>2, <1>3, <1>4, TypeInit, TypeStep, PlainStep, PlaceStep, FaithfulStep, PTL DEF Spec

=============================================================================
