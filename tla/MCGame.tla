-------------------------------- MODULE MCGame --------------------------------
(* Small boards.  Five cells by three leave three cells for fruits, so a   *)
(* second fruit never lacks a place even under two heads, and let two      *)
(* snakes of three and four cells meet in every way; a taller board leaves *)
(* one snake room to grow and to curl up.                                  *)
EXTENDS Game, TLC

OneSite == {<<4, 1>>}
AllSites == (0 .. Width - 1) \X (0 .. Height - 1)
Perms == Permutations(Ids)
=============================================================================
