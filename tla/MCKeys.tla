------------------------------- MODULE MCKeys -------------------------------
(***************************************************************************)
(* Names put together from what providers put together: up to two vendors, *)
(* a family, and up to two endings, with either of two separators between. *)
(* Some of the rows share a canonical name, and the policy lets a chat be  *)
(* sent to one of them only.                                               *)
(***************************************************************************)
EXTENDS Keys

near == <<"near", "/">>
openai == <<"openai", "/">>
glm == <<"glm", "-", "5">>

MCPrefixes ==
  {near, openai, <<"meta", "-", "llama", "/">>, <<"tee", "/">>, <<"private", "/">>}

MCAliases ==
  [a \in {<<"gpt4">>, <<"gpt", "-", "4", "-", "turbo">>, <<"claude", "-", "opus">>,
           <<"meta", "-", "llama", "-", "3">>} |->
     CASE a[1] = "meta" -> <<"llama", "-", "3">>
       [] a[1] = "claude" -> <<"claude", "-", "3", "-", "opus">>
       [] OTHER -> <<"gpt", "-", "4">>]

Rows(provider, names) == [provider : {provider}, model : names]

\* Names of a provider that serves all but the known families, put together in
\* different ways; names of those families, marked and not; and names that are neither.
MCOffered ==
  Rows("near", {near \o v \o b : v \in {<<>>, <<"meta", "-", "llama", "/">>},
                                         b \in {glm \o <<".", "v2">>, <<"meta", "_", "llama", "_", "3">>}})
  \cup Rows("near", {glm \o <<"-", "turbo">>, openai \o GptOss,
                     <<"gpt4">>, <<"claude", "-", "opus">>,
                     <<"o1", "-", "v2">>, <<"glm", "-", "embedding">>})
  \cup Rows("nanogpt", {<<"tee", "/", "gpt", "-", "4">>, glm})
  \cup Rows("ppq", {<<"private", "/", "gpt4">>, openai \o <<"gpt", "-", "4">>})
  \cup Rows("chutes", {<<"grok", "-", "2", "-", "tee">>})
  \cup Rows("redpill", {<<"phala", "/">> \o glm})

MCPatterns == {glm, near \o glm, <<"*", "/">> \o glm}
MCRequests == {glm, glm \o <<"-", "turbo">>, near \o <<"claude", "-", "opus">>}

=============================================================================
