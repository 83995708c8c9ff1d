----------------------------- MODULE MCPromptCache -----------------------------
(* Prompts of one and two entries of KV that share a branch of the trie; none *)
(* is the beginning of the other.                                             *)
EXTENDS PromptCache

MCPrompts == {<<1, 2>>, <<1, 3, 1>>}

MCWorlds == {<<"memory", {}>>, <<"trie", {"crash", "save"}>>, <<"trie", {"db"}>>,
             <<"trie", {"overlap", "save"}>>}
===============================================================================
