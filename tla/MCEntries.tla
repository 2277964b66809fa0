------------------------------ MODULE MCEntries ------------------------------
(***************************************************************************)
(* Entries for TLC: an appliance reached by its address and, in HTTPS, by a *)
(* name, and one too old to give its lanUrl.                                *)
(***************************************************************************)
EXTENDS Entries, TLC

CONSTANTS main, old, first, later, early, late

MCTyped  == {[scheme |-> None, host |-> "ip", port |-> None],
             [scheme |-> "http", host |-> "ip", port |-> 8788],
             [scheme |-> "https", host |-> "name", port |-> None],
             [scheme |-> None, host |-> "hall", port |-> 8788]}
MCReached == [url \in {Normalised(typed) : typed \in MCTyped} |->
                IF url.host = "hall" THEN old ELSE main]
MCLan == [s \in {main, old} |-> IF s = old THEN None ELSE "ip"]

Interchangeable == Permutations({first, later}) \cup Permutations({early, late})
=============================================================================
