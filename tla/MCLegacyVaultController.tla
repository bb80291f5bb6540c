---------------------- MODULE MCLegacyVaultController ----------------------
(***************************************************************************)
(* TLC instance of LegacyVaultController: two calls of Start over pid     *)
(* strings of each shape the tokenizer tells apart.                        *)
(***************************************************************************)
EXTENDS LegacyVaultController

MCPidStrings ==
    { << >>,                          \* ""
      <<"7", "-", "5483">>,           \* "7-5483", well formed
      <<"8", "-", "5484">>,           \* "8-5484", a second vault
      <<"7", "-", "0">>,              \* "7-0": a port that parses to 0
      <<"7", "-", "x">>,              \* a port that is no numeral
      <<"7">>,                        \* no separator
      <<"-", "5483">>,                \* no process id
      <<"7", "-", "5483", "-", "9">> }   \* a trailing part

MCNumeralValue == [t \in {"0", "5483", "5484"} |->
                       CASE t = "0" -> 0 [] t = "5483" -> 5483 [] t = "5484" -> 5484]
MCMaxStarts == 2
=============================================================================
