-------------------------------- MODULE FilesMC --------------------------------
(***************************************************************************)
(* The files of Config as bounded inputs: a step picks what is saved,      *)
(* and where a crash cuts the file off; the properties say what the next   *)
(* start reads.                                                            *)
(***************************************************************************)
EXTENDS Integers, Sequences, SequencesExt, FiniteSets, TLC

Json == INSTANCE Json

VARIABLE input

-------------------------------------------------------------------------------
(* Files of Config: two keys, values nested once; the selection of an      *)
(* office over what the file held before.                                  *)

Base == {Json!Number(<<1, 2, 3>>), Json!String(1), Json!Boolean(TRUE), Json!Null}

Maps(keys, values) == UNION {[s -> values] : s \in SUBSET keys}

Values ==
    Base \cup {Json!Array(s) : s \in {<<>>} \cup {<<b>> : b \in Base} \cup {<<b, Json!Number(<<4>>)>> : b \in Base}}
         \cup {Json!Object(m) : m \in Maps({1, 2}, Base \ {Json!Null})}

Files == Maps({1, 2}, Values)

Office(id, latitude, longitude) == [id |-> id, latitude |-> latitude, longitude |-> longitude]
NoOffice == Office(0, <<>>, <<>>)
AnOffice == Office(1, <<5, 1>>, <<7, 2, 9>>)
AnotherOffice == Office(2, <<4, 8>>, <<3, 6>>)

FilesBefore ==
    {Json!NoPairs, (1 :> Json!String(1)), Json!SelectOffice(Json!NoPairs, AnotherOffice, 2),
     Json!SelectOffice(Json!NoPairs, AnotherOffice, 0), Json!SelectOffice(Json!NoPairs, NoOffice, 0)}

CrashInSave ==
    \E map \in Files : \E text \in Json!Torn(Json!Save(map)) :
        input' = [kind |-> "file", map |-> map, text |-> text]

CrashInSelectOffice ==
    \E before \in FilesBefore, office \in {NoOffice, AnOffice}, profile \in 0..1 :
        LET now == Json!SelectOffice(before, office, profile)
        IN /\ office = NoOffice => profile = 0
           /\ \E text \in Json!Torn(Json!Save(now)) :
                 input' = [kind |-> "selection", now |-> now, office |-> office, profile |-> profile, text |-> text]

-------------------------------------------------------------------------------
Keys(map) == SetToSortSeq(DOMAIN map, <)

(* How many lexemes of the file have been written when the n-th pair is.   *)
Written(map, n) == Len(Json!Save([k \in {Keys(map)[i] : i \in 1..n} |-> map[k]])) - 1

(* Config: a file whose writing was cut off (Config.cpp:79) is read as the *)
(* pairs that were wholly written and nothing else, but for a number the   *)
(* cut went through, which is read as a shorter one.  A whole file is read *)
(* as it was saved.                                                        *)
TornFile ==
    input.kind = "file" =>
        LET map == input.map
            got == Json!Load(input.text)
            whole == {n \in 1..Cardinality(DOMAIN map) :
                        /\ Written(map, n) <= Len(input.text)
                        /\ SubSeq(input.text, 1, Written(map, n)) = SubSeq(Json!Save(map), 1, Written(map, n))}
            kept == {Keys(map)[n] : n \in whole}
        IN /\ \A k \in kept : k \in DOMAIN got /\ got[k] = map[k]
           /\ \A k \in DOMAIN got \ kept :
                /\ k = Keys(map)[Cardinality(kept) + 1]
                /\ map[k][1] = "NUMBER" /\ got[k][1] = "NUMBER"
                /\ IsStrictPrefix(got[k][2], map[k][2])

(* CoreManager: whatever the file held and wherever the writing of a       *)
(* selection was cut off, the next start finds the office of that          *)
(* selection whole, with its profile or without one, or no office: never   *)
(* one with another's position, never the one before.                      *)
SelectionSurvives ==
    input.kind = "selection" =>
        LET got == Json!SelectedIn(Json!Load(input.text))
            With(profile) == {[id |-> input.office.id, latitude |-> input.office.latitude,
                               longitude |-> input.office.longitude, profile |-> profile]}
        IN IF input.office = NoOffice THEN got = {}
           ELSE /\ got \in {{}, With(0), With(input.profile)}
                /\ input.text = Json!Save(input.now) => got = With(input.profile)
===============================================================================
