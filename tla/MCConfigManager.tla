--------------------------- MODULE MCConfigManager ---------------------------
(* A small instance of ConfigManager for TLC: as keys the token and two other
   names, one of which is the beginning of the other, and a value that reads
   like a path. *)
EXTENDS ConfigManager

Bind == <<"b">>
Binding == <<"b", "x">>
Token == <<"t">>
SmallKeys == {Bind, Binding, Token}
Address == <<"b", ":", "b">>
SmallNames == SmallKeys \cup {Address}
SmallSections == {Bind}
ClassName == <<"App">>
=============================================================================
