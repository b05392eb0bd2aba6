----------------------------- MODULE MCCatalog -----------------------------
(* A small instance of Catalog for TLC: a menu that lists a dish twice, and a *)
(* dish whose name is on the menu in another category.                        *)
EXTENDS Catalog

MCName == [starter |-> "soup", main |-> "soup", cake |-> "cake"]
MCMenu == <<"main", "cake", "main">>
=============================================================================
