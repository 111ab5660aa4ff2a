-------------------------------- MODULE Ehbp --------------------------------
(***************************************************************************)
(* One EHBP exchange (internal/ehbp/ehbp.go) as handleNonStreamingRequest  *)
(* (internal/proxy/proxy.go) runs it: the key configuration built from the *)
(* attested key and parsed again, the sealed request, and the answer, a    *)
(* body of length-prefixed chunks that is read up to a limit, opened chunk *)
(* by chunk, and relayed.                                                  *)
(*                                                                         *)
(* The relay between encproxy and the enclave may hand over the request    *)
(* more than once, lose, repeat, reorder or mix up the chunks of the       *)
(* answers and of others, and cut the body anywhere. Sealing is ideal: a   *)
(* chunk opens only under the keys and the number it was sealed with.      *)
(***************************************************************************)
EXTENDS Integers, Sequences, FiniteSets, SequencesExt

CONSTANTS
  Keys,        \* attested HPKE keys, as sequences of bytes
  Answers,     \* nonces of the answers the enclave seals for the request
  Message,     \* what each says, chunk by chunk
  Chunks,      \* chunks that can be in a body
  MaxChunks,   \* bound: chunks in a body
  Limit        \* maxReqBytes * 10, in the units of a chunk's length

Byte == 0..255

\* A chunk on the wire: the length of its ciphertext, the answer it is part of
\* (of this exchange, or of another one) and its number there. An empty one is
\* part of none.
Chunk == [len : Nat, seal : Answers \cup {"other", "none"}, seq : Nat]

\* The units a length prefix takes (4 bytes).
Prefix == 2

ASSUME KeyAssumption == Keys \subseteq Seq(Byte)
ASSUME AnswerAssumption == Answers \cap {"other", "short", "none"} = {}
ASSUME MessageAssumption == Message \in [Answers -> Seq(Nat)]
ASSUME ChunkAssumption ==
  /\ Chunks \subseteq Chunk
  /\ \A c \in Chunks : /\ c.seal = "none" <=> c.len = 0
                       /\ c.seal \in Answers => c.seq < Len(Message[c.seal])
ASSUME LimitAssumption == Limit \in Nat /\ MaxChunks \in Nat

VARIABLES
  phase,     \* where the handler is
  attested,  \* the key of the verified client
  sealedTo,  \* the key the request was sealed to
  body,      \* the chunks of the answer
  nonce,     \* its Ehbp-Response-Nonce
  coded,     \* the body has a Content-Encoding
  length,    \* the units of it that were read
  at,        \* openFramedBody: chunks passed,
  offset,    \*   units passed,
  seq,       \*   chunks opened,
  plain,     \*   and their texts
  reply      \* what the client is given

requestVars == <<attested, sealedTo>>
answerVars == <<body, nonce, coded, length>>
readerVars == <<at, offset, seq, plain>>
vars == <<phase, requestVars, answerVars, readerVars, reply>>

NoKey == <<>>
Phases == {"seal", "wait", "read", "nonce", "open", "relay", "done"}
\* The nonces of a header: one of no answer to this request, one of a length
\* that cannot be, or none.
Nonces == Answers \cup {"other", "short", "none"}
Replies == {"none", "error", "raw", "opened"}

TypeOK ==
  /\ phase \in Phases
  /\ attested \in Keys /\ sealedTo \in Seq(Byte)
  /\ body \in Seq(Chunks)
  /\ nonce \in Nonces
  /\ coded \in BOOLEAN
  /\ length \in Nat
  /\ at \in 0..Len(body)
  /\ offset \in 0..length
  /\ seq \in 0..at
  /\ plain \in Seq(Nat)
  /\ reply \in Replies

-----------------------------------------------------------------------------
(***************************************************************************)
(* The key configuration.                                                  *)
(***************************************************************************)

\* key_id(1) || kem_id(2) || public_key || cipher_suites_len(2) || cipher_suites
BuildKeyConfig(key) == <<0, 0, 32>> \o key \o <<0, 4, 0, 1, 0, 2>>

\* The two bytes after the first n, big-endian.
Uint16(data, n) == 256 * data[n + 1] + data[n + 2]

\* The header, an X25519 key and the length of the list come to 37 bytes.
MutantParses(data) ==
  /\ Len(data) >= 41
  /\ data[1] = 0 /\ Uint16(data, 1) = 32
  /\ LET suites == Uint16(data, Len(data) - 6) IN suites # 0 /\ suites % 4 = 0
  /\ Uint16(data, Len(data) - 4) = 1 /\ Uint16(data, Len(data) - 2) = 2
Parses(data) ==
  /\ Len(data) >= 37
  /\ data[1] = 0 /\ Uint16(data, 1) = 32
  /\ LET suites == Uint16(data, 35) IN
       /\ suites # 0 /\ suites % 4 = 0
       /\ 37 + suites = Len(data)
  /\ Uint16(data, 37) = 1 /\ Uint16(data, 39) = 2

ParsedKey(data) == SubSeq(data, 4, 35)

-----------------------------------------------------------------------------
(***************************************************************************)
(* The request and its answer.                                             *)
(***************************************************************************)

Init ==
  /\ phase = "seal"
  /\ attested \in Keys /\ sealedTo = NoKey
  /\ body = <<>> /\ nonce = "none" /\ coded = FALSE /\ length = 0
  /\ at = 0 /\ offset = 0 /\ seq = 0 /\ plain = <<>>
  /\ reply = "none"

\* EncryptRequest; a configuration it cannot parse is an internal error.
EncryptRequest ==
  /\ phase = "seal"
  /\ LET config == BuildKeyConfig(attested) IN
       IF Parses(config)
       THEN sealedTo' = ParsedKey(config) /\ phase' = "wait" /\ UNCHANGED reply
       ELSE reply' = "error" /\ phase' = "done" /\ UNCHANGED sealedTo
  /\ UNCHANGED <<attested, answerVars, readerVars>>

\* The head of the answer, and what will come as its body. The client's
\* Accept-Encoding is passed on, so the body may be coded.
Answer ==
  /\ phase = "wait"
  /\ \E n \in 0..MaxChunks : body' \in [1..n -> Chunks]
  /\ nonce' \in Nonces
  /\ coded' \in BOOLEAN
  /\ phase' = "read"
  /\ UNCHANGED <<requestVars, length, readerVars, reply>>

\* No answer, or an error while its body is read.
AnswerFails ==
  /\ phase \in {"wait", "read"}
  /\ reply' = "error" /\ phase' = "done"
  /\ UNCHANGED <<requestVars, answerVars, readerVars>>

Size(c) == Prefix + c.len
\* The units of the first n chunks, each by its place in its chunk.
Units(n) == UNION {{i} \X (1..Size(body[i])) : i \in 1..n}
BodyLength == Cardinality(Units(Len(body)))

\* io.ReadAll(io.LimitReader(...)): what is beyond the limit is cut off without
\* an error, and so is what the connection loses when its end is no error.
ReadBody ==
  /\ phase = "read"
  /\ \E n \in 0..Limit : n <= BodyLength /\ length' = n
  /\ phase' = "nonce"
  /\ UNCHANGED <<requestVars, body, nonce, coded, readerVars, reply>>

\* extractResponseNonce, and the length check of DecryptResponse.
ExtractNonce ==
  /\ phase = "nonce"
  /\ IF nonce \in {"none", "short"}
     THEN reply' = "raw" /\ phase' = "relay"
     ELSE UNCHANGED reply /\ phase' = "open"
  /\ UNCHANGED <<requestVars, answerVars, readerVars>>

-----------------------------------------------------------------------------
(***************************************************************************)
(* openFramedBody: one action per way an iteration of its loop can go.     *)
(***************************************************************************)

\* (While there is something left to read, there is a chunk.)
InLoop == phase = "open" /\ ~coded /\ offset < length /\ at < Len(body)

\* The chunk at the offset, when its length prefix has been read whole.
NextChunk == body[at + 1]
PrefixRead == offset + Prefix <= length

MutantSkipEmpty ==
  /\ InLoop /\ PrefixRead /\ NextChunk.len = 0
  /\ at' = at + 1 /\ offset' = offset + Prefix
  /\ seq' = seq + 1
  /\ UNCHANGED <<phase, requestVars, answerVars, plain, reply>>
MutantSkipsInPlace ==
  /\ InLoop /\ PrefixRead /\ NextChunk.len = 0
  /\ UNCHANGED vars
SkipEmpty ==
  /\ InLoop /\ PrefixRead /\ NextChunk.len = 0
  /\ at' = at + 1 /\ offset' = offset + Prefix
  /\ UNCHANGED <<phase, requestVars, answerVars, seq, plain, reply>>

\* A chunk opens under the keys derived from this exchange and its nonce, with
\* the number of chunks opened before it as the last part of the AEAD nonce.
MutantOpens(c) == c.seal = nonce /\ nonce \in Answers
Opens(c) == c.seal = nonce /\ nonce \in Answers /\ c.seq = seq

ChunkWhole == PrefixRead /\ offset + Size(NextChunk) <= length

OpenChunk ==
  /\ InLoop /\ ChunkWhole /\ NextChunk.len > 0 /\ Opens(NextChunk)
  /\ plain' = Append(plain, Message[nonce][NextChunk.seq + 1])
  /\ seq' = seq + 1
  /\ at' = at + 1 /\ offset' = offset + Size(NextChunk)
  /\ UNCHANGED <<phase, requestVars, answerVars, reply>>

\* A cut length or chunk, a chunk that does not open, or bytes that are no
\* chunks: everything opened so far is dropped, and the body stays as it came.
MutantOpenFails ==
  /\ phase = "open"
  /\ \/ coded /\ length > 0
     \/ InLoop /\ ~PrefixRead
     \/ InLoop /\ PrefixRead /\ NextChunk.len > 0 /\ (ChunkWhole => ~Opens(NextChunk))
  /\ reply' = "opened" /\ phase' = "relay"
  /\ UNCHANGED <<requestVars, answerVars, readerVars>>
OpenFails ==
  /\ phase = "open"
  /\ \/ coded /\ length > 0
     \/ InLoop /\ ~PrefixRead
     \/ InLoop /\ PrefixRead /\ NextChunk.len > 0 /\ (ChunkWhole => ~Opens(NextChunk))
  /\ reply' = "raw" /\ phase' = "relay"
  /\ UNCHANGED <<requestVars, answerVars, readerVars>>

OpenEnds ==
  /\ phase = "open" /\ offset >= length
  /\ reply' = "opened" /\ phase' = "relay"
  /\ UNCHANGED <<requestVars, answerVars, readerVars>>

\* The body, opened or not, goes to the client with the provider's status, and
\* is recorded as a success.
Relay ==
  /\ phase = "relay"
  /\ phase' = "done"
  /\ UNCHANGED <<requestVars, answerVars, readerVars, reply>>

Next == \/ EncryptRequest \/ Answer \/ AnswerFails \/ ReadBody \/ ExtractNonce
        \/ SkipEmpty \/ OpenChunk \/ OpenFails \/ OpenEnds \/ Relay

Spec == Init /\ [][Next]_vars
FairSpec == Spec /\ WF_vars(Next)

-----------------------------------------------------------------------------
(***************************************************************************)
(* Properties.                                                             *)
(***************************************************************************)

\* A request is sealed to a key read from the attested bytes alone, never from
\* bytes the configuration put around them: a key that is too short shifts the
\* fields, and is refused. (One of 40 bytes and more that carries a list of
\* cipher suites of its own would be taken for its first 32.)
SealedToTheAttestedKey ==
  sealedTo # NoKey => /\ Len(sealedTo) = 32 /\ IsPrefix(sealedTo, attested)
                      /\ sealedTo # attested => Len(attested) >= 40

\* Whatever the relay does to the chunks, what the client is given as the opened
\* answer is the beginning of one answer that the enclave sealed for this very
\* request, and nothing at all under a nonce of no such answer.
OpenedIsPrefix ==
  reply = "opened" => IF nonce \in Answers THEN IsPrefix(plain, Message[nonce])
                                           ELSE plain = <<>>

\* The places of the chunks that are not empty, among the first n of the body.
Sealed(n) == {i \in 1..n : body[i].len > 0}

\* A body is opened whole or not at all: when one of its chunks does not open,
\* what was opened before it does not reach the client.
OpenedWhole ==
  reply = "opened" => /\ offset = length
                      /\ length = BodyLength => Len(plain) = Cardinality(Sealed(Len(body)))

\* The chunks of an answer in order, empty ones between them or not, read to the
\* end under its nonce.
Faithful ==
  /\ nonce \in Answers /\ ~coded /\ length = BodyLength
  /\ Cardinality(Sealed(Len(body))) = Len(Message[nonce])
  /\ \A i \in Sealed(Len(body)) : /\ body[i].seal = nonce
                                  /\ body[i].seq = Cardinality(Sealed(i - 1))

\* The client is given a body that was not opened, or only the beginning of the
\* answer, only if something was done to it on the way, or it was too long.
FaithfulAnswerArrives ==
  phase = "done" /\ reply # "error" /\ Faithful => reply = "opened" /\ plain = Message[nonce]

\* Whatever is in a body, reading it comes to an end.
ExchangeEnds == <>(phase = "done")

=============================================================================
