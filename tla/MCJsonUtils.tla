----------------------------- MODULE MCJsonUtils -----------------------------
\* Texts for TLC: for each key values of its kind, and some of another.
EXTENDS GenaiConfig

Str(k, c) == [key |-> k, kind |-> "string", chars |-> c, list |-> << >>]
Plain(k, c) == [key |-> k, kind |-> "plain", chars |-> c, list |-> << >>]
List(k, l) == [key |-> k, kind |-> "list", chars |-> << >>, list |-> l]

Texts == {<< >>, <<"stream">>, <<"messages">>, <<Backslash, Quote>>,
          <<Quote, "stream", Quote, ":", "true">>, <<Newline, Control>>}

User == <<"role", <<"user">>>>
Content(c) == <<"content", c>>

RequestMembers ==
       {Str("model", c) : c \in Texts \cup {<<Quote, "messages">>}}
  \cup {List("search", << <<>>, <<<<"messages", <<"[">>>>>> >>)}
  \cup {Str("name", <<"model">>), Plain("name", <<"null">>)}
  \cup {Plain("max_tokens", c) : c \in {<<"0">>, <<"-", "8">>, <<"1", "1", "8">>,
                                       <<"1", "8", "1">>, <<"null">>}}
  \cup {Str("max_tokens", <<"8">>)}
  \cup {Plain("temperature", c) : c \in {<<"-", "1", ".", "8">>, <<"1", "e", "-", "1">>,
                                        <<"8", ".", "e", "1">>, <<"null">>}}
  \cup {Plain("stream", <<"true">>), Plain("stream", <<"false">>), Str("stream", <<"true">>)}
  \cup {List("messages", l) : l \in
         {<< >>, << <<User, Content(<<"hi">>)>> >>,
          << <<Content(<<"}", Quote, "]">>), User>>, <<User, Content(<<Backslash>>)>> >>,
          << <<Content(<<"role">>)>>, <<User, Content(<<Quote, "role", Quote, "{">>)>> >>}}

ConfigMembers ==
       {Str("model_type", c) : c \in {<<"phi3">>, <<"context_length">>, <<Quote, Backslash>>}}
  \cup {Plain("model_type", <<"null">>), Str("name", <<"model_type">>)}
  \cup {Plain(k, c) : k \in {"num_key_value_heads", "context_length"},
                     c \in {<<"8">>, <<"-", "1">>, <<"1", "8", "1">>, <<"null">>}}
  \cup {Str("context_length", <<"8">>),
        List("search", << <<<<"name", <<"}", Quote, "num_key_value_heads">>>>>> >>)}

Words == {"model", "name", "max_tokens", "temperature", "stream", "messages", "role",
          "content", "search", "model_type", "num_key_value_heads", "context_length",
          "user", "hi", "phi3", "true", "false", "null"}

MCSymbols == Special \cup Digits \cup Words
             \cup {Control, "-", "+", ".", "e", "u", "n", "2", "5", "c", "a"}

MCMembers == [request |-> RequestMembers, config |-> ConfigMembers]
=============================================================================
