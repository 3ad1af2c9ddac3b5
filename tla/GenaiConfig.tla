----------------------------- MODULE GenaiConfig -----------------------------
(***************************************************************************)
(* core/model/GenaiConfig.cpp: the three fields of a model's               *)
(* genai_config.json that the engine needs, found by a search of its own   *)
(* in the text, like those of a request.  The texts, and whoever writes    *)
(* them, are those of JsonUtils.                                           *)
(***************************************************************************)
EXTENDS JsonUtils

CONSTANT Unset   \* std::nullopt

ASSUME ConfigConstant == Unset \notin Int

Whitespace == {Space, Newline}

trim(s) ==
  LET ink == {i \in DOMAIN s : s[i] \notin Whitespace}
  IN  IF ink = {} THEN << >> ELSE SubSeq(s, Min(ink), Max(ink))

\* Variant for validation: the end of an object does not end a value.
DelimitersNoBrace == {Comma, "]", Newline}

Delimiters == {Comma, Close, "]", Newline}

\* The text of the value, with its quotes and escapes; empty for a missing key.
find_json_value(t, key) ==
  LET p == value_of(t, key)
      end == Past(t, p, ToSet(t) \ Delimiters)
  IN  IF p = 0 \/ p > Len(t) THEN << >>
      ELSE IF At(t, p, Quote) THEN SubSeq(t, p, Min({StringEnd(t, p + 1) - 1, Len(t)}))
      ELSE trim(SubSeq(t, p, end - 1))

unquote(v) ==
  IF Len(v) >= 2 /\ v[1] = Quote /\ v[Len(v)] = Quote THEN SubSeq(v, 2, Len(v) - 1) ELSE v

\* from_chars reads the number at the front; what is none, or does not fit an
\* int32_t, leaves the field alone.
parse_int(v) ==
  LET neg == At(v, 1, "-")
      first == IF neg THEN 2 ELSE 1
      end == Past(v, first, Digits)
      n == Number(SubSeq(v, first, end - 1))
  IN  IF end = first \/ Signed(neg, n) \notin (-IntMax - 1)..IntMax
      THEN Unset ELSE Signed(neg, n)

\* An empty value is no value; a text that is no JSON is no error.
parse_genai_config(t) ==
  [model_type |-> unquote(find_json_value(t, "model_type")),
   num_key_value_heads |-> parse_int(find_json_value(t, "num_key_value_heads")),
   context_length |-> parse_int(find_json_value(t, "context_length"))]

-----------------------------------------------------------------------------

\* The number a member was written as, if it is one that fits.
IntWritten(key) ==
  LET fitting == {m \in Written(key, "plain") :
                    IsInteger(m.chars) /\ ValueOf(m.chars) \in (-IntMax - 1)..IntMax}
  IN  IF fitting = {} THEN Unset ELSE ValueOf((CHOOSE m \in fitting : TRUE).chars)

\* The configuration is what its file says, with the fields at its top level and in
\* whatever order, and whatever the other values spell: a number that fits is read,
\* one that does not, a string, or null leaves the field unset, and the model's type
\* is the characters that were written, escapes included.
ConfigIsRead ==
  LET read == parse_genai_config(Body)
      types == {ClientEscape(m.chars) : m \in Written("model_type", "string")}
               \cup {m.chars : m \in Written("model_type", "plain")}
  IN  /\ read.model_type \in IF types = {} THEN {<< >>} ELSE types
      /\ read.num_key_value_heads = IntWritten("num_key_value_heads")
      /\ read.context_length = IntWritten("context_length")

Text(ms) ==
  Object([i \in DOMAIN ms |-> ms[i].key], [i \in DOMAIN ms |-> ValueText(ms[i])])

\* The configuration with all of its members but the first n in a section of their
\* own, an object, and with m, which may be a field of the section too, after it.
Sectioned(n, m) ==
  LET outer == SubSeq(members, 1, n)
      section == Text(SubSeq(members, n + 1, Len(members)))
  IN  Object([i \in 1..n |-> outer[i].key] \o <<"decoder", m.key>>,
             [i \in 1..n |-> ValueText(outer[i])] \o <<section, ValueText(m)>>)

\* A field is read at whatever depth it stands, and of two fields of one name the
\* first in the file is taken, be it the inner one, and be it no number.  With m the
\* file has at most MaxMembers fields too.
SectionsAreRead ==
  kind = "config" /\ Len(members) < MaxMembers =>
    \A n \in 0..Len(members) : \A m \in Members.config :
      LET repeated == \E i \in DOMAIN members : members[i].key = m.key
      IN  parse_genai_config(Sectioned(n, m)) =
            parse_genai_config(Text(IF repeated THEN members ELSE Append(members, m)))
=============================================================================
