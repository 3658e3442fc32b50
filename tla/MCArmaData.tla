----------------------------- MODULE MCArmaData -----------------------------
(* Arrays of up to two elements, strings with separators and brackets in   *)
(* them, and arrays in arrays.  Calls hold no empty array and no string    *)
(* that is empty or holds an @: the parser of the extension refuses them.  *)
EXTENDS ArmaData

UpToTwo(S) == {<<a>> : a \in S} \cup {<<a, b>> : a \in S, b \in S}

Numerals == {<<"0">>, <<"1">>, <<"7">>, <<"1.5">>}
Strings == {<<"a">>, <<",">>, <<"]", "[">>}

MissionLeaves ==
  {Value("STRING", s) : s \in Strings} \cup
  {Value("BOOL", <<"true">>), Value("BOOL", <<"false">>), Value("WHOLE", <<"7">>),
   Value("FRACTION", <<"1.5">>), Value("TEXT", <<"ff">>)}

MissionArrays ==
  LET Inner == {Array("ARRAY", e) : e \in UpToTwo({Value("STRING", s) : s \in Strings})}
      Deep == {Array("ARRAY", <<a>>) : a \in Inner}
  IN  {Array("ARRAY", e) : e \in UpToTwo(MissionLeaves \cup Inner \cup Deep)}

MissionCalls == [name : {<<"Connect">>}, data : MissionArrays]

Leaves ==
  {Value("$", s) : s \in Strings \cup {<<>>, <<"@">>}} \cup
  {Value("+", <<"1">>), Value("-", <<"7">>), Value("#", <<"1.5">>), Value("*", <<"ff">>)}

Arrays ==
  LET Inner == {Array("@", e) : e \in UpToTwo({Value("$", s) : s \in Strings})}
      Deep == {Array("@", <<a>>) : a \in Inner}
      Some == {e \in UpToTwo(Leaves \cup Inner \cup Deep \cup {NoData}) : e[1] # NoData}
  IN  {Array("@", e) : e \in Some}

ExtensionAnswers ==
  [name : {NoName, <<"Connect">>}, data : Leaves \cup Arrays] \cup
  {[name |-> <<"Connect">>, data |-> NoData], [name |-> NoName, data |-> Array("@", <<>>)]}
=============================================================================
