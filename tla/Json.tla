---------------------------------- MODULE Json ----------------------------------
(***************************************************************************)
(* The JSON of the program (jsonxx, permissive parser) and Config, which   *)
(* keeps its values in one object and writes it to a file.  A text is a    *)
(* sequence of lexemes; white space, comments and escapes are not          *)
(* modelled.  Strings, and with them keys, are natural numbers, ordered as *)
(* std::map orders them; a number is the sequence of its digits.           *)
(***************************************************************************)
EXTENDS Integers, Sequences, SequencesExt, FiniteSets, Functions

Sym(s) == <<"sym", s>>
Word(w) == <<"word", w>>
Str(s) == <<"str", s>>
Num(digits) == <<"num", digits>>

Number(digits) == <<"NUMBER", digits>>
String(s) == <<"STRING", s>>
Boolean(b) == <<"BOOL", b>>
Null == <<"NULL", 0>>
Array(values) == <<"ARRAY", values>>
Object(map) == <<"OBJECT", map>>

NoPairs == [k \in {} |-> Null]
With(map, key, v) == [k \in DOMAIN map \cup {key} |-> IF k = key THEN v ELSE map[k]]

-------------------------------------------------------------------------------
(* Writing: tag() with remove_last_comma.                                  *)

RECURSIVE Write(_)
Write(v) ==
    LET Listed(texts) == FoldLeft(LAMBDA t, u : t \o (IF t = <<>> THEN u ELSE <<Sym(",")>> \o u), <<>>, texts)
    IN CASE v[1] = "NUMBER" -> <<Num(v[2])>>
         [] v[1] = "STRING" -> <<Str(v[2])>>
         [] v[1] = "BOOL" -> <<Word(IF v[2] THEN "true" ELSE "false")>>
         [] v[1] = "NULL" -> <<Word("null")>>
         [] v[1] = "ARRAY" -> <<Sym("[")>> \o Listed([i \in DOMAIN v[2] |-> Write(v[2][i])]) \o <<Sym("]")>>
         [] v[1] = "OBJECT" ->
              LET keys == SetToSortSeq(DOMAIN v[2], <)
              IN <<Sym("{")>> \o Listed([i \in DOMAIN keys |-> <<Str(keys[i]), Sym(":")>> \o Write(v[2][keys[i]])])
                 \o <<Sym("}")>>

-------------------------------------------------------------------------------
(* Parsing.  A parser tells whether it succeeded, where the stream then    *)
(* is, and what it has read: an object keeps what it read before it        *)
(* failed.                                                                 *)

Result(ok, rest, value) == [ok |-> ok, rest |-> rest, value |-> value]

Match(lexeme, in) == in # <<>> /\ Head(in) = lexeme
After(lexeme, in) == IF Match(lexeme, in) THEN Tail(in) ELSE in
IsLexeme(kind, in) == in # <<>> /\ Head(in)[1] = kind

(* The end of a list: the closing bracket, or failure.                     *)
Closed(bracket, in, value) == Result(Match(Sym(bracket), in), After(Sym(bracket), in), value)

RECURSIVE ParseValue(_), ParsePairs(_, _), ParseItems(_, _)

(* The loop of Object::parse.  A comma may be followed by the closing      *)
(* brace; the value of a key read twice is the last one.                   *)
ParsePairs(in, map) ==
    IF ~IsLexeme("str", in)
    THEN Closed("}", in, map)
    ELSE LET afterKey == Tail(in) IN
         IF ~Match(Sym(":"), afterKey)
         THEN Result(FALSE, afterKey, map)
         ELSE LET v == ParseValue(Tail(afterKey))
                  now == With(map, Head(in)[2], v.value)
              IN IF ~v.ok THEN Closed("}", v.rest, map)
                 ELSE IF Match(Sym(","), v.rest) THEN ParsePairs(Tail(v.rest), now)
                 ELSE Closed("}", v.rest, now)

(* Whatever was read before a failure is thrown away.                      *)
ParseObjectOrNothing(in) ==
    IF ~Match(Sym("{"), in) THEN Result(FALSE, in, NoPairs)
    ELSE IF Match(Sym("}"), Tail(in)) THEN Result(TRUE, Tail(Tail(in)), NoPairs)
    ELSE LET r == ParsePairs(Tail(in), NoPairs) IN IF r.ok THEN r ELSE Result(FALSE, r.rest, NoPairs)

ParseObject(in) ==
    IF ~Match(Sym("{"), in) THEN Result(FALSE, in, NoPairs)
    ELSE IF Match(Sym("}"), Tail(in)) THEN Result(TRUE, Tail(Tail(in)), NoPairs)
    ELSE ParsePairs(Tail(in), NoPairs)

(* The loop of Array::parse.                                               *)
ParseItems(in, values) ==
    LET v == ParseValue(in)
        now == Append(values, v.value)
    IN IF ~v.ok THEN Closed("]", v.rest, values)
       ELSE IF Match(Sym(","), v.rest) THEN ParseItems(Tail(v.rest), now)
       ELSE Closed("]", v.rest, now)

ParseArray(in) ==
    IF ~Match(Sym("["), in) THEN Result(FALSE, in, <<>>)
    ELSE IF Match(Sym("]"), Tail(in)) THEN Result(TRUE, Tail(Tail(in)), <<>>)
    ELSE ParseItems(Tail(in), <<>>)

(* parse_bool and parse_null: a value that is missing before a comma is    *)
(* null.                                                                   *)
ParseWord(in) ==
    CASE Match(Word("true"), in) -> Result(TRUE, Tail(in), Boolean(TRUE))
      [] Match(Word("false"), in) -> Result(TRUE, Tail(in), Boolean(FALSE))
      [] Match(Word("null"), in) -> Result(TRUE, Tail(in), Null)
      [] OTHER -> Result(Match(Sym(","), in), in, Null)

(* An object that was not closed is taken for what there is of it.         *)
ParseValueUnclosed(in) ==
    IF IsLexeme("str", in) THEN Result(TRUE, Tail(in), String(Head(in)[2]))
    ELSE IF IsLexeme("num", in) THEN Result(TRUE, Tail(in), Number(Head(in)[2]))
    ELSE IF ParseWord(in).ok THEN ParseWord(in)
    ELSE IF ParseArray(in).ok THEN Result(TRUE, ParseArray(in).rest, Array(ParseArray(in).value))
    ELSE Result(Match(Sym("{"), in), ParseObject(in).rest, Object(ParseObject(in).value))

(* Value::parse.  What an array consumed before it failed is not given     *)
(* back: an object is looked for behind it.                                *)
ParseValue(in) ==
    IF IsLexeme("str", in) THEN Result(TRUE, Tail(in), String(Head(in)[2]))
    ELSE IF IsLexeme("num", in) THEN Result(TRUE, Tail(in), Number(Head(in)[2]))
    ELSE IF ParseWord(in).ok THEN ParseWord(in)
    ELSE LET a == ParseArray(in)
             o == ParseObject(a.rest)
         IN IF a.ok THEN Result(TRUE, a.rest, Array(a.value))
            ELSE Result(o.ok, o.rest, IF o.ok THEN Object(o.value) ELSE Null)

-------------------------------------------------------------------------------
(* Config.  A name is a sequence of keys.                                  *)

Has(map, key, type) == key \in DOMAIN map /\ map[key][1] = type

RECURSIVE GetValue(_, _, _)

(* The value of that type, as a set with at most one element.              *)
GetValue(map, name, type) ==
    IF Len(name) > 1
    THEN IF Has(map, Head(name), "OBJECT") THEN GetValue(map[Head(name)][2], Tail(name), type) ELSE {}
    ELSE IF Has(map, Head(name), type) THEN {map[Head(name)]} ELSE {}

RECURSIVE SetValue(_, _, _)

(* Sections are made where there are none.                                 *)
SetValue(map, name, v) ==
    IF Len(name) > 1
    THEN With(map, Head(name),
              Object(SetValue(IF Has(map, Head(name), "OBJECT") THEN map[Head(name)][2] ELSE NoPairs, Tail(name), v)))
    ELSE With(map, Head(name), v)

RECURSIVE SetNull(_, _)

(* ... but not to hold nothing.                                            *)
SetNull(map, name) ==
    IF Len(name) > 1
    THEN IF Has(map, Head(name), "OBJECT")
         THEN With(map, Head(name), Object(SetNull(map[Head(name)][2], Tail(name)))) ELSE map
    ELSE With(map, Head(name), Null)

(* Save truncates the file and writes it; a crash leaves a beginning of    *)
(* it.  Only of a number does a part make sense.                           *)
Save(map) == Write(Object(map))

Torn(text) ==
    {SubSeq(text, 1, n) : n \in 0..Len(text)} \cup
    {SubSeq(text, 1, n) \o <<Num(SubSeq(text[n + 1][2], 1, d))>> :
        <<n, d>> \in {p \in (0..(Len(text) - 1)) \X (1..3) :
                        IsLexeme("num", <<text[p[1] + 1]>>) /\ p[2] < Len(text[p[1] + 1][2])}}

(* Load ignores the result of the parser.                                  *)
Load(text) == ParseObject(text).value

-------------------------------------------------------------------------------
(* What CoreManager keeps there: the keys in the order of the file.        *)

SelectedOffice == 1
SelectedProfileId == 2
Id == 1
Latitude == 2
Longitude == 3

(* CoreManager::SelectOffice.  None is 0, no id.                           *)
SelectOffice(map, office, profile) ==
    LET map2 ==
            IF office.id = 0 THEN SetNull(map, <<SelectedOffice>>)
            ELSE SetValue(SetValue(SetValue(map, <<SelectedOffice, Id>>, String(office.id)),
                                   <<SelectedOffice, Latitude>>, Number(office.latitude)),
                          <<SelectedOffice, Longitude>>, Number(office.longitude))
    IN IF profile = 0 THEN SetNull(map2, <<SelectedProfileId>>)
       ELSE SetValue(map2, <<SelectedProfileId>>, String(profile))

(* GetConfigSelectedOfficeAndProfile: {} or one office with its profile.   *)
SelectedIn(map) ==
    {[id |-> i[2], latitude |-> lat[2], longitude |-> lng[2],
      profile |-> IF Has(map, SelectedProfileId, "STRING") THEN map[SelectedProfileId][2] ELSE 0] :
        <<i, lat, lng>> \in GetValue(map, <<SelectedOffice, Id>>, "STRING")
                            \X GetValue(map, <<SelectedOffice, Latitude>>, "NUMBER")
                            \X GetValue(map, <<SelectedOffice, Longitude>>, "NUMBER")}
===============================================================================
