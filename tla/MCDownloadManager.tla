-------------------------- MODULE MCDownloadManager --------------------------
(***************************************************************************)
(* TLC instance of DownloadManager: a vault for linux/64 that runs version *)
(* 1 patchlevel 1, or has no version or patchlevel; a file list of up to   *)
(* two lines drawn from one line of each kind FileIsUseful tells apart;    *)
(* a two-block file body; two calls.                                       *)
(***************************************************************************)
EXTENDS DownloadManager, TLC

MCLines ==
    { <<"vault", "linux", "64", "1", "2">>,    \* same version, newer patchlevel
      <<"vault", "linux", "64", "2", "0">>,    \* newer version, lower patchlevel
      <<"vault", "linux", "64", "0", "9">>,    \* older version
      <<"vault", "linux", "64", "-1", "0">>, \* a negative version
      <<"vault", "linux", "64", "x", "0">>,  \* a version that is no number
      <<"vault", "osx", "64", "3", "3">>,      \* another platform
      <<"vault">> }                        \* a truncated line

\* The decimal numerals of the instance and the value lexical_cast gives.
MCNumeralValue == [t \in {"0", "1", "2", "3", "9"} |->
                       CASE t = "0" -> 0 [] t = "1" -> 1 [] t = "2" -> 2
                         [] t = "3" -> 3 [] t = "9" -> 9]

MCCurrentVersions == {"", "1"}
MCCurrentPatchlevels == {"", "1"}
MCBody == <<"b1", "b2">>
MCMaxLines == 2
MCMaxCalls == 2
\* TLC's integers stop at 2^31 - 1; for the comparisons FileIsUseful
\* makes, any value above every version and patchlevel of the instance
\* stands for the wrapped 2^32 - 1.
MCU32Max == 2147483647
=============================================================================
