---------------------------- MODULE MCEntitySync ----------------------------
\* sync_bridges has a bridge whose filter names a single entity beside one that
\* includes the platform; sync_live has the former beside an entry in accessory mode.
EXTENDS EntitySync

CONSTANTS c1, c2, named, whole, solo

NamedAndWhole == [h \in {named, whole} |-> IF h = named THEN {c1} ELSE {c1, c2}]
NamedAndSolo  == [h \in {named, solo} |-> {c1}]
=============================================================================
