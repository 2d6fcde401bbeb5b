------------------------------ MODULE ResultLog ------------------------------
(***************************************************************************)
(* What a node answers about a transaction, read by the parsers            *)
(* (usecase/parser/utils): the log of a message is a sequence of events,   *)
(* an event is a type and a sequence of <<key, value>> attributes.  Events *)
(* of one type are grouped in one event whose keys repeat, so that the     *)
(* attributes of a single event and the events of a group are read by      *)
(* different operators.  A text that is parsed (a list of coins, a flag) is*)
(* the value it stands for.                                                *)
(***************************************************************************)
EXTENDS Sequences, SequencesExt, Naturals

HasAttribute(attrs, key) == \E i \in DOMAIN attrs : attrs[i][1] = key

AttributeOf(attrs, key) == attrs[CHOOSE i \in DOMAIN attrs : attrs[i][1] = key][2]

\* An event that is read as one event must not repeat a key: the reader panics.
IsSingle(attrs) ==
    \A i, j \in DOMAIN attrs : attrs[i][1] = attrs[j][1] => i = j

OfType(log, type) == SelectSeq(log, LAMBDA event : event.type = type)

HasEvent(log, type) == \E i \in DOMAIN log : log[i].type = type

GetEventByType(log, type) == Last(OfType(log, type)).attrs

GetFirstEventByType(log, type) == Head(OfType(log, type)).attrs

\* A new event starts at each key that its event has already.
SplitByKey(attrs) ==
    FoldLeft(LAMBDA events, attr :
                IF HasAttribute(Last(events), attr[1])
                THEN Append(events, <<attr>>)
                ELSE Append(Front(events), Append(Last(events), attr)),
             << <<>> >>, attrs)

GetEventsByType(log, type) ==
    FlattenSeq([i \in DOMAIN OfType(log, type) |-> SplitByKey(OfType(log, type)[i].attrs)])

\* An event that a parser takes for granted.  It panics, and with it the block,
\* when the event is missing, repeats a key, or has not all of the keys.
Lacks(log, type, keys) ==
    \/ ~HasEvent(log, type)
    \/ ~IsSingle(GetEventByType(log, type))
    \/ \E key \in keys : ~HasAttribute(GetEventByType(log, type), key)
=============================================================================
