----------------------------- MODULE MCBotMenus -----------------------------
(* The small instance of BotMenus that TLC checks. *)
EXTENDS BotMenus

\* None, one, and the same with blanks around it.
MCTitles == {"", "tag", " tag "}
=============================================================================
