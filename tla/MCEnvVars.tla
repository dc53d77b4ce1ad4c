------------------------------ MODULE MCEnvVars -----------------------------
(* Small texts for model checking EnvVars: what the UI stores ends in a     *)
(* carriage return, repeats a name, has blanks around it, or is no pair.    *)
EXTENDS EnvVars, TLC

K == <<"K">>
L == <<"L">>
TabK == <<"TAB", "K">>
SharpK == <<"#", "K">>
Names == <<<<"TAB">>, TabK, SharpK, K, L>>

Letters == {"K", "L", "v", "w", "=", "#", "TAB"}

SortedNames ==
  [S \in SUBSET {Names[i] : i \in DOMAIN Names} |->
     SelectSeq(Names, LAMBDA n : n \in S)]

PlainMaps ==
  {<<>>, K :> <<"v">>, (K :> <<"=", "v">>) @@ (L :> <<>>)}

\* ValidateConfig accepts them: one that reads as another, one that is no
\* pair when it comes back.
OddMaps == {(SharpK :> <<"v">>) @@ (TabK :> <<"v">>), <<"TAB">> :> <<"w">>}

AllMaps == PlainMaps \cup OddMaps

UITexts ==
  { << <<"#", "K", "=", "v">>, <<"K", "=", "w">>,
       <<"SPACE", "K", "SPACE", "=", "v", "CR">> >>,
    << <<"L">> >> }
=============================================================================
