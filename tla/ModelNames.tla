----------------------------- MODULE ModelNames -----------------------------
(***************************************************************************)
(* Model names: CanonicalModelName (internal/models/normalize.go), by      *)
(* which the database joins what providers offer with what clients ask     *)
(* for, and the model policy that reads names                              *)
(* (internal/modelpolicy/modelpolicy.go).                                  *)
(*                                                                         *)
(* A name is a sequence of words and separators, in lower case: nothing    *)
(* here tells cases apart once ToLower has been applied, and the prefixes  *)
(* are matched in any case.                                                *)
(***************************************************************************)
EXTENDS Naturals, Sequences, SequencesExt

CONSTANTS
  ProviderPrefixes,  \* the provider prefixes, each a name that ends in "/"
  Dates,             \* the words of eight digits
  Versions,          \* the words of a "v" and digits
  Aliases            \* KnownModelAliases: a function from aliases to canonical names

Separators == {"-", "_", ".", ":"}

Name == Seq(STRING \cup Separators)

ASSUME WordAssumption ==
  /\ Dates \cup Versions \subseteq STRING
  /\ Dates \cap (Separators \cup {"/"}) = {}
  /\ (Dates \cup Versions) \cap {"oss", "3", "4", "4o", "5"} = {}
ASSUME PrefixAssumption ==
  /\ <<"openai", "/">> \in ProviderPrefixes
  /\ \A p \in ProviderPrefixes :
       p \in Name /\ p # <<>> /\ p[1] # "gpt" /\ \A i \in DOMAIN p : p[i] = "/" <=> i = Len(p)
ASSUME AliasAssumption == Aliases \in [DOMAIN Aliases -> Name]

-----------------------------------------------------------------------------
(***************************************************************************)
(* NormalizeModelName, part by part.                                       *)
(***************************************************************************)

StartsWith(m, p) == IsPrefix(p, m)

\* Where the name goes on behind the prefix that begins at its i-th part, if one does.
Behind(m, i) ==
  {i + Len(p) : p \in {q \in ProviderPrefixes : StartsWith(SubSeq(m, i, Len(m)), q)}}

StripProviderPrefix(m) ==
  LET from[i \in 1..Len(m) + 1] ==
        IF Behind(m, i) = {} THEN i ELSE from[CHOOSE j \in Behind(m, i) : TRUE]
  IN SubSeq(m, from[1], Len(m))

\* Every separator becomes a hyphen.
Hyphens(m) == [i \in DOMAIN m |-> IF m[i] \in Separators THEN "-" ELSE m[i]]

\* Of a run of them the last stays, and none at either end.
Kept(h, i) == h[i] = "-" => /\ i < Len(h) /\ h[i + 1] # "-"
                            /\ \E j \in 1..i : h[j] # "-"

WithoutRuns(h) ==
  LET upto[i \in 0..Len(h)] ==
        IF i = 0 THEN <<>>
        ELSE IF Kept(h, i) THEN Append(upto[i - 1], h[i]) ELSE upto[i - 1]
  IN upto[Len(h)]

NormalizeSeparators(m) == WithoutRuns(Hyphens(m))

\* A date between hyphens, or at the end. The match takes the hyphen behind the
\* date with it, so of two dates in a row the second is left.
IsDate(m, i) == i < Len(m) /\ m[i] = "-" /\ m[i + 1] \in Dates

StripDates(m) ==
  LET rest[i \in 1..Len(m) + 3] ==
        IF i > Len(m) THEN <<>>
        ELSE IF IsDate(m, i) /\ i + 1 = Len(m) THEN <<>>
        ELSE IF IsDate(m, i) /\ m[i + 2] = "-" THEN <<"-">> \o rest[i + 3]
        ELSE <<m[i]>> \o rest[i + 1]
  IN rest[1]

\* One version word at the end.
StripVersion(m) ==
  IF Len(m) >= 2 /\ m[Len(m) - 1] = "-" /\ Last(m) \in Versions
  THEN SubSeq(m, 1, Len(m) - 2) ELSE m

MutantNormalizeModelName(m) == NormalizeSeparators(StripVersion(StripDates(StripProviderPrefix(m))))
NormalizeModelName(m) == StripVersion(StripDates(NormalizeSeparators(StripProviderPrefix(m))))

CanonicalModelName(m) ==
  LET n == NormalizeModelName(m) IN IF n \in DOMAIN Aliases THEN Aliases[n] ELSE n

ModelsMatch(m1, m2) == CanonicalModelName(m1) = CanonicalModelName(m2)

-----------------------------------------------------------------------------
(***************************************************************************)
(* The model policy: which models of which providers are served.  A marker *)
(* is looked for as words of a name, not within one.                       *)
(***************************************************************************)

HasPart(m, part) == \E i \in DOMAIN m : StartsWith(SubSeq(m, i, Len(m)), part)

SupportsChatCompletions(m) ==
  /\ m # <<>>
  /\ \A marker \in {<<"doc", "-", "upload">>, <<"embedding">>, <<"embed", "-">>, <<"reranker">>,
                     <<"whisper">>, <<"tts">>, <<"websearch">>, <<"realtime">>,
                     <<"privacy", "-", "filter">>, <<"flux">>} : ~HasPart(m, marker)

\* The families that are known to be hosted elsewhere.
RemoteFamilies == {<<"claude">>, <<"gemini">>, <<"grok">>, <<"command">>}
OpenAIFamilies == {<<"gpt", "-", "3">>, <<"gpt", "-", "4">>, <<"gpt", "-", "4o">>,
                   <<"gpt", "-", "5">>, <<"chatgpt">>, <<"o1">>, <<"o3">>, <<"o4">>}
Families == RemoteFamilies \cup OpenAIFamilies

HasFamily(m, family) == m = family \/ StartsWith(m, family \o <<"-">>)

\* gpt-oss is served in enclaves, the other families of OpenAI are not.
GptOss == <<"gpt", "-", "oss">>

\* An alias and what it stands for are of one family.
ASSUME AliasFamilyAssumption ==
  \A n \in DOMAIN Aliases :
    /\ \A family \in Families : HasFamily(n, family) => HasFamily(Aliases[n], family)
    /\ StartsWith(n, GptOss) => StartsWith(Aliases[n], GptOss)

IsOpenAIHostedModel(original, canonical) ==
  /\ ~StartsWith(original, <<"openai", "/">> \o GptOss)
  /\ ~StartsWith(canonical, GptOss)
  /\ \E family \in OpenAIFamilies : HasFamily(canonical, family)

MutantIsKnownRemoteHostedModel(m) ==
  LET canonical == NormalizeModelName(m) IN
  \/ \E prefix \in {<<"anthropic", "/">>, <<"google", "/", "gemini">>, <<"xai", "/", "grok">>,
                    <<"x", "-", "ai", "/">>, <<"cohere", "/", "command">>} : StartsWith(m, prefix)
  \/ \E family \in RemoteFamilies : HasFamily(canonical, family)
  \/ IsOpenAIHostedModel(m, canonical)
IsKnownRemoteHostedModel(m) ==
  LET canonical == CanonicalModelName(m) IN
  \/ \E prefix \in {<<"anthropic", "/">>, <<"google", "/", "gemini">>, <<"xai", "/", "grok">>,
                    <<"x", "-", "ai", "/">>, <<"cohere", "/", "command">>} : StartsWith(m, prefix)
  \/ \E family \in RemoteFamilies : HasFamily(canonical, family)
  \/ IsOpenAIHostedModel(m, canonical)

IsNanoGPTTEEModel(m) == StartsWith(m, <<"tee", "/">>) \/ HasPart(m, <<"/", "tee", "/">>)

HasTEEMarker(m) ==
  \/ IsNanoGPTTEEModel(m)
  \/ IsSuffix(<<"-", "tee">>, m)
  \/ HasPart(m, <<"-", "tee", "-">>)

\* Some providers attest their proxies and serve models from elsewhere behind them:
\* their models have a mark if they run in an enclave.
IsProviderModelTEEEligible(provider, m) ==
  /\ m # <<>>
  /\ \/ provider = "nanogpt" /\ IsNanoGPTTEEModel(m)
     \/ provider \in {"ppq", "ppq-private"} /\ StartsWith(m, <<"private", "/">>)
     \/ provider = "chutes" /\ HasTEEMarker(m)
     \/ provider \in {"tinfoil", "near", "privatemode"} /\ ~IsKnownRemoteHostedModel(m)
     \/ /\ provider = "redpill"
        /\ StartsWith(m, <<"phala", "/">>) /\ ~IsKnownRemoteHostedModel(m)

=============================================================================
