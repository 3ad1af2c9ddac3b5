------------------------------ MODULE JsonUtils ------------------------------
(***************************************************************************)
(* core/server/JsonUtils.h and its use in HttpServer::handle_chat: the     *)
(* body of a chat request is read by searching its text, without a parser. *)
(* Here a client writes an object member by member, and what the server    *)
(* reads from the text is compared with what was written.                  *)
(*                                                                         *)
(* A text is a sequence of symbols.  The characters the code tells apart   *)
(* are symbols of their own; so is a run of other characters ("model",     *)
(* "true", ...), which the code only compares or copies as a whole.        *)
(***************************************************************************)
EXTENDS Integers, Sequences, SequencesExt

CONSTANTS Symbols,        \* the characters and the runs of characters of texts
          Members,        \* for each kind of text the members it may have
          MaxMembers,     \* bound on the members of a text
          IntMax,         \* the largest int
          DefaultTokens   \* 256 in the code

ASSUME JsonConstants == IntMax \in Nat /\ DefaultTokens \in 1..IntMax

Quote == "\""
Backslash == "\\"
Comma == ","
Open == "{"
Close == "}"
Space == " "
Newline == "\n"
Control == "U+0001"      \* a control character without a short escape

VARIABLES kind,      \* the kind of text
          members,   \* the members written, in this order
          blank,     \* whether white space is written between symbols
          unicode    \* whether escapes are written as \uXXXX

vars == <<kind, members, blank, unicode>>

-----------------------------------------------------------------------------
(* json_escape *)

Hex(c) == CASE c = Quote -> <<"0", "0", "2", "2">>
            [] c = Backslash -> <<"0", "0", "5", "c">>
            [] c = Newline -> <<"0", "0", "0", "a">>
            [] OTHER -> <<"0", "0", "0", "1">>

Short == [c \in {Quote, Backslash, Newline} |-> IF c = Newline THEN "n" ELSE c]

Escaped(c) ==
  CASE c \in DOMAIN Short -> <<Backslash, Short[c]>>
    [] c = Control -> <<Backslash, "u">> \o Hex(c)
    [] OTHER -> <<c>>

json_escape(s) == FlattenSeq([i \in DOMAIN s |-> Escaped(s[i])])

-----------------------------------------------------------------------------
(* Searching: positions count from 1, and 0 is std::string::npos *)

Digits == {"0", "1", "8"}
Numeral == [d \in Digits |-> CASE d = "0" -> 0 [] d = "1" -> 1 [] d = "8" -> 8]

\* The first position from p on whose symbol is not in S; it may be past the end.
Past(t, p, S) ==
  Min({q \in p..Len(t) : t[q] \notin S} \cup {IF p > Len(t) THEN p ELSE Len(t) + 1})

skip_ws(t, p) == Past(t, p, {Space, Newline})

At(t, p, c) == p <= Len(t) /\ t[p] = c

Least(S) == IF S = {} THEN 0 ELSE Min(S)

Occurrences(t, key) ==
  {p \in 1..(Len(t) - 2) : t[p + 1] = key /\ t[p] = Quote /\ t[p + 2] = Quote}

AsKey(t, p) == At(t, skip_ws(t, p + 3), ":")

\* Variant for validation: the first occurrence decides.
find_key_once(t, key) ==
  LET p == Least(Occurrences(t, key))
  IN  IF p # 0 /\ AsKey(t, p) THEN skip_ws(t, p + 3) + 1 ELSE 0

\* Variant for validation: the last occurrence that has a colon is taken.
find_key_last(t, key) ==
  LET S == {q \in Occurrences(t, key) : AsKey(t, q)}
  IN  IF S = {} THEN 0 ELSE skip_ws(t, Max(S) + 3) + 1

\* The position after the colon of the first occurrence that has one.
find_key(t, key) ==
  LET p == Least({q \in Occurrences(t, key) : AsKey(t, q)})
  IN  IF p = 0 THEN 0 ELSE skip_ws(t, p + 3) + 1

\* The position of the value, npos when there is no key.
value_of(t, key) ==
  LET p == find_key(t, key)
  IN  IF p = 0 THEN 0 ELSE skip_ws(t, p)

-----------------------------------------------------------------------------
(* Reading values *)

Unescape(esc) == IF esc = "n" THEN Newline ELSE esc

\* The character that four hexadecimal digits stand for.
CodePoint(h) == CHOOSE c \in {Quote, Backslash, Newline, Control} : Hex(c) = h

Unclosed == [closed |-> FALSE, chars |-> << >>]

Then(c, r) == [closed |-> r.closed, chars |-> c \o r.chars]

\* Whether the string closes, and its characters up to there.
Rest(t) ==
  LET R[p \in 1..(Len(t) + 6)] ==
        IF p > Len(t) THEN Unclosed
        ELSE IF t[p] = Quote THEN [closed |-> TRUE, chars |-> << >>]
        ELSE IF t[p] # Backslash THEN Then(<<t[p]>>, R[p + 1])
        ELSE IF p = Len(t) THEN Unclosed
        ELSE IF t[p + 1] # "u" THEN Then(<<Unescape(t[p + 1])>>, R[p + 2])
        ELSE IF p + 5 <= Len(t) THEN Then(<<CodePoint(SubSeq(t, p + 2, p + 5))>>, R[p + 6])
        ELSE R[p + 2]
  IN  R

\* Variant for validation: what was read of an unterminated string is returned.
parse_string_at_open(t, p) ==
  IF At(t, p, Quote) THEN Rest(t)[p + 1].chars ELSE << >>

\* Empty for what is not a string or not terminated.
parse_string_at(t, p) ==
  IF At(t, p, Quote) /\ Rest(t)[p + 1].closed THEN Rest(t)[p + 1].chars ELSE << >>

json_parse_string(t, key) ==
  LET p == value_of(t, key)
  IN  IF p = 0 THEN << >> ELSE parse_string_at(t, p)

\* The value of a sequence of digits.
Number(s) ==
  LET N[i \in 0..Len(s)] == IF i = 0 THEN 0 ELSE 10 * N[i - 1] + Numeral[s[i]]
  IN  N[Len(s)]

Signed(neg, n) == IF neg THEN -n ELSE n

\* The values json_parse_int may return: any int once a sum has overflowed.
json_parse_int(t, key, default) ==
  LET p == value_of(t, key)
      neg == At(t, p, "-")
      first == IF neg THEN p + 1 ELSE p
      end == Past(t, first, Digits)
      n == Number(SubSeq(t, first, end - 1))
  IN  CASE p = 0 -> {default}
        [] p > 0 /\ end = first -> {default}
        [] p > 0 /\ end > first /\ n <= IntMax -> {Signed(neg, n)}
        [] p > 0 /\ end > first /\ n > IntMax -> (-IntMax - 1)..IntMax

\* The end of the exponent that may stand at p.
Exponent(t, p) ==
  IF At(t, p, "e")
  THEN Past(t, IF At(t, p + 1, "-") \/ At(t, p + 1, "+") THEN p + 2 ELSE p + 1, Digits)
  ELSE p

\* What json_parse_float hands to std::stof; nothing for the default.
json_parse_float(t, key) ==
  LET p == value_of(t, key)
      whole == Past(t, IF At(t, p, "-") THEN p + 1 ELSE p, Digits)
      point == IF At(t, whole, ".") THEN Past(t, whole + 1, Digits) ELSE whole
  IN  IF p = 0 THEN << >> ELSE SubSeq(t, p, Exponent(t, point) - 1)

json_parse_bool(t, key, default) ==
  LET p == value_of(t, key)
  IN  IF p = 0 THEN default
      ELSE At(t, p, "true") \/ (default /\ ~At(t, p, "false"))

-----------------------------------------------------------------------------
(* json_parse_messages *)

\* Variant for validation: an escaped quote closes the string.
StringEndNoEscapes(t, p) == Past(t, p, {t[i] : i \in DOMAIN t} \ {Quote}) + 1

\* The position after the string whose first character is at p.
StringEnd(t, p) ==
  LET E[q \in 1..(Len(t) + 2)] ==
        IF q > Len(t) THEN q
        ELSE IF t[q] = Quote THEN q + 1
        ELSE IF t[q] = Backslash THEN E[q + 2]
        ELSE E[q + 1]
  IN  E[p]

\* The position after the object that opens at p, or past the end.
ObjectEnd(t, p) ==
  LET E[q \in 1..(Len(t) + 2)] ==   \* for each depth
        [depth \in Int |->
           IF q > Len(t) THEN q
           ELSE IF t[q] = Open THEN E[q + 1][depth + 1]
           ELSE IF t[q] = Close THEN IF depth = 1 THEN q + 1 ELSE E[q + 1][depth - 1]
           ELSE IF t[q] = Quote THEN E[StringEnd(t, q + 1)][depth]
           ELSE E[q + 1][depth]]
  IN  E[p][0]

Message(obj) ==
  [role |-> json_parse_string(obj, "role"), content |-> json_parse_string(obj, "content")]

\* The messages of the array whose elements begin at p.
Elements(t) ==
  LET M[p \in 1..(Len(t) + 2)] ==
        LET q == skip_ws(t, p)
            end == ObjectEnd(t, q)
            obj == SubSeq(t, q, Min({end - 1, Len(t)}))
        IN  IF At(t, q, Comma) THEN M[q + 1]
            ELSE IF ~At(t, q, Open) THEN << >>
            ELSE (IF Message(obj).role = << >> THEN << >> ELSE <<Message(obj)>>)
                 \o (IF end > Len(t) THEN << >> ELSE M[end])
  IN  M

\* Only the first occurrence of the key is looked at.
json_parse_messages(t) ==
  LET k == Least(Occurrences(t, "messages"))
      open == skip_ws(t, skip_ws(t, k + 3) + 1)
  IN  IF k # 0 /\ AsKey(t, k) /\ At(t, open, "[") THEN Elements(t)[open + 1] ELSE << >>

Clamp(n) == IF n <= 0 THEN DefaultTokens ELSE n

\* handle_chat's max_tokens.
MaxTokens(t) == {Clamp(n) : n \in json_parse_int(t, "max_tokens", DefaultTokens)}

-----------------------------------------------------------------------------
(* The client *)

Blank == IF blank THEN <<Space>> ELSE << >>

\* A client may write an escape in either form.
ClientEscape(s) ==
  IF unicode
  THEN FlattenSeq([i \in DOMAIN s |->
         IF s[i] \in {Quote, Backslash, Newline, Control}
         THEN <<Backslash, "u">> \o Hex(s[i]) ELSE <<s[i]>>])
  ELSE json_escape(s)

Quoted(s) == <<Quote>> \o ClientEscape(s) \o <<Quote>>

Separated(parts) ==
  FlattenSeq([i \in DOMAIN parts |->
    IF i = 1 THEN parts[i] ELSE <<Comma>> \o Blank \o parts[i]])

Object(names, texts) ==
  <<Open>> \o Separated([i \in DOMAIN names |->
      Quoted(<<names[i]>>) \o Blank \o <<":">> \o Blank \o texts[i]]) \o <<Close>>

\* A message is the sequence of its members: pairs of a key and a string.
MessageText(m) ==
  Object([i \in DOMAIN m |-> m[i][1]], [i \in DOMAIN m |-> Quoted(m[i][2])])

ValueText(m) ==
  CASE m.kind = "string" -> Quoted(m.chars)
    [] m.kind = "plain" -> m.chars
    [] m.kind = "list" ->
         <<"[">> \o Separated([i \in DOMAIN m.list |-> MessageText(m.list[i])]) \o <<"]">>

Body ==
  Object([i \in DOMAIN members |-> members[i].key],
         [i \in DOMAIN members |-> ValueText(members[i])])

(* What is written is JSON.  A key is one symbol, none of the characters the *)
(* code looks for, and no nested object has a key that is a field of its own *)
(* of a request or a configuration: the first one in the text is taken.      *)

Special == {Quote, Backslash, Comma, Open, Close, "[", "]", ":", Space, Newline}

Fields == {"model", "max_tokens", "temperature", "stream",
           "model_type", "num_key_value_heads", "context_length"}

Integers32 == {"max_tokens", "num_key_value_heads", "context_length"}

AreDigits(s, first, last) == \A i \in first..last : s[i] \in Digits

AfterSign(s, p) == IF At(s, p, "-") THEN p + 1 ELSE p

IsInteger(s) == AfterSign(s, 1) <= Len(s) /\ AreDigits(s, AfterSign(s, 1), Len(s))

\* The exponent of s after its first n symbols, which may be missing.
IsExponent(s, n) ==
  \/ n = Len(s)
  \/ /\ s[n + 1] = "e"
     /\ \E d \in {n + 2, n + 3} :
          /\ d <= Len(s) /\ AreDigits(s, d, Len(s))
          /\ d = n + 3 => s[n + 2] \in {"-", "+"}

IsNumber(s) ==
  \E whole, n \in 1..Len(s) :
    /\ AfterSign(s, 1) <= whole /\ AreDigits(s, AfterSign(s, 1), whole)
    /\ n = whole \/ (n > whole /\ s[whole + 1] = "." /\ AreDigits(s, whole + 2, n))
    /\ IsExponent(s, n)

IsPlain(key, s) ==
  \/ s \in {<<"true">>, <<"false">>, <<"null">>}
  \/ IsNumber(s) /\ (key \in Integers32 => IsInteger(s))

Keys == Symbols \ (Special \cup {Control})

IsMember(m) ==
  /\ m.key \in Keys
  /\ \/ m.kind = "string" /\ m.chars \in Seq(Symbols)
     \/ m.kind = "plain" /\ m.chars \in Seq(Symbols) /\ IsPlain(m.key, m.chars)
     \/ /\ m.kind = "list" /\ m.key # "model_type"
        /\ m.list \in Seq(Seq((Keys \ Fields) \X Seq(Symbols)))
        /\ \A n \in DOMAIN m.list : \A i, j \in DOMAIN m.list[n] :
             m.list[n][i][1] = m.list[n][j][1] => i = j

ASSUME MembersAssumption ==
  /\ Special \cup Digits \cup {Control, "-", "u", "n", "2", "5", "c", "a"} \subseteq Symbols
  /\ \A k \in DOMAIN Members : \A m \in Members[k] : IsMember(m)

Init ==
  /\ kind \in DOMAIN Members
  /\ members = << >>
  /\ blank \in BOOLEAN
  /\ unicode \in BOOLEAN

\* Keys are distinct, as in any object a JSON library writes.
Write ==
  /\ Len(members) < MaxMembers
  /\ \E m \in Members[kind] :
       /\ \A i \in DOMAIN members : members[i].key # m.key
       /\ members' = Append(members, m)
  /\ UNCHANGED <<kind, blank, unicode>>

Next == Write

Spec == Init /\ [][Next]_vars

-----------------------------------------------------------------------------
(* What the server reads is what the client wrote *)

Written(key, sort) == {m \in ToSet(members) : m.key = key /\ m.kind = sort}

ValueOf(chars) ==
  LET neg == chars[1] = "-"
      n == Number(IF neg THEN Tail(chars) ELSE chars)
  IN  IF neg THEN -n ELSE n

\* The fields of a request are those that were written, in whatever order and
\* whatever the other values spell.  The model's name arrives character by
\* character, and a value of another kind is not taken for it.  max_tokens is the
\* number that was written when it is positive and fits an int, the default when
\* it is absent, not a number, zero or negative, and positive in any case, after
\* an overflow too.  Of temperature the whole number, and nothing after it, is
\* converted, and nothing when it is no number.  stream is on exactly when it was
\* written as true, not for a string that says so.
FieldsAreRead ==
  LET text == Body
      names == Written("model", "string")
      ints == {m \in Written("max_tokens", "plain") : IsInteger(m.chars)}
      floats == {m \in Written("temperature", "plain") : IsNumber(m.chars)}
      tokens == MaxTokens(text)
  IN  /\ json_parse_string(text, "model") \in
           IF names = {} THEN {<< >>} ELSE {m.chars : m \in names}
      /\ tokens \subseteq 1..IntMax
      /\ \A m \in ints : ValueOf(m.chars) \in 1..IntMax => tokens = {ValueOf(m.chars)}
      /\ (\A m \in ints : ValueOf(m.chars) \in (-IntMax)..0) => tokens = {DefaultTokens}
      /\ json_parse_float(text, "temperature") \in
           IF floats = {} THEN {<< >>} ELSE {m.chars : m \in floats}
      /\ json_parse_bool(text, "stream", FALSE) <=>
           \E m \in Written("stream", "plain") : m.chars = <<"true">>

Field(m, key) ==
  LET S == {i \in DOMAIN m : m[i][1] = key}
  IN  IF S = {} THEN << >> ELSE m[CHOOSE i \in S : TRUE][2]

AsMessages(list) ==
  FlattenSeq([i \in DOMAIN list |->
    IF Field(list[i], "role") = << >> THEN << >>
    ELSE <<[role |-> Field(list[i], "role"), content |-> Field(list[i], "content")]>>])

\* A string is written with "messages" between quotes when it is that word, or
\* ends with it after a quote that is escaped as such.
SpellsMessages(s) ==
  LET n == Len(s)
  IN  n > 0 /\ s[n] = "messages" /\ (n > 1 => s[n - 1] = Quote /\ ~unicode)

\* The code gives up when the first "messages" is not the key of the request: it
\* is written in a value, or is the key of an object within one.
Shadows(m) ==
  \/ m.kind = "string" /\ SpellsMessages(m.chars)
  \/ m.kind = "list" /\ \E i \in DOMAIN m.list : \E j \in DOMAIN m.list[i] :
                          \/ m.list[i][j][1] = "messages"
                          \/ SpellsMessages(m.list[i][j][2])

MessagesShadowed ==
  \E i, j \in DOMAIN members :
    i < j /\ members[j].key = "messages" /\ Shadows(members[i])

Sent == IF MessagesShadowed THEN << >>
        ELSE LET l == Written("messages", "list")
             IN  IF l = {} THEN << >> ELSE AsMessages((CHOOSE m \in l : TRUE).list)

\* The messages that have a role arrive complete and in order, whatever braces,
\* quotes and brackets their contents hold, unless the key is shadowed.
MessagesAreRead == json_parse_messages(Body) = Sent

\* From a body that is cut anywhere (a Content-Length that is too small) no text
\* is made up: the messages read are the first ones, and only of the last may
\* the content be missing.  They are read although the body is no JSON, which
\* JsonUtils.h says they are not (CutBodyIsRefused).
TruncationInventsNothing ==
  LET text == Body
      sent == Sent
  IN  \A n \in 0..Len(text) :
        LET got == json_parse_messages(SubSeq(text, 1, n))
        IN  /\ Len(got) <= Len(sent)
            /\ \A i \in DOMAIN got :
                 /\ got[i].role = sent[i].role
                 /\ \/ got[i].content = sent[i].content
                    \/ i = Len(got) /\ got[i].content = << >>

\* What JsonUtils.h says of a body that does not parse, "Returns an empty vector on
\* any parse failure": all the messages are read, or none.  The code returns those it
\* met before the cut, the last one without its content if the cut falls there.
CutBodyIsRefused ==
  \A n \in 0..Len(Body) : json_parse_messages(SubSeq(Body, 1, n)) \in {<< >>, Sent}
=============================================================================
