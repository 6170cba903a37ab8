---------------------------- MODULE MCBasicFlow -----------------------------
(* BasicFlow for TLC: accounts, names and files are interchangeable.         *)
EXTENDS BasicFlow, TLC

(* What Platforms.json puts together: the kind of the part with the id, that *)
(* of a login file beside it, and AllFilesRequired.                          *)
Combinations ==
    ({<<"path", "path">>, <<"path", "glob">>} \X BOOLEAN)
    \cup {<<<<"registry", "glob">>, FALSE>>, <<<<"registry", "registry">>, FALSE>>,
          <<<<"registry", "path">>, TRUE>>, <<<<"json", "json">>, TRUE>>}
SomePlatforms ==
    {d \in Descriptor : \A f \in Files : <<<<d.part[Id], d.part[f]>>, d.required>> \in Combinations}

DataSymmetry == Permutations(Accounts) \cup Permutations(Names)
=============================================================================
